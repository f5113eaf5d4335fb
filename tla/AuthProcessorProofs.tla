------------------------- MODULE AuthProcessorProofs -------------------------
(***************************************************************************)
(* IInv is an inductive invariant of AuthProcessor, whatever the number of *)
(* requests, writes, handlers and reads, the capacities of the channels,   *)
(* the identities and the clock; and the safety properties follow from it. *)
(*                                                                         *)
(* One lemma per action. What an action of a handler, or of the GATT       *)
(* server, cannot disturb is settled once, in the two frame lemmas.        *)
(***************************************************************************)
EXTENDS AuthProcessorInv, TLAPS

USE SessionAssumption, ProcessorAssumption
USE DEF sessionVars, challengeVars, handlerVars, notifyVars, cancelVars,
        processorVars, writeVars, watchVars, historyVars, sharedVars

-----------------------------------------------------------------------------
\* Channels are sequences: what append, head and tail keep.
LEMMA AppendKeeps ==
  ASSUME NEW S, NEW s \in Seq(S), NEW e \in S
  PROVE  /\ Append(s, e) \in Seq(S)
         /\ Len(Append(s, e)) = Len(s) + 1
         /\ \A i \in 1 .. Len(s) : Append(s, e)[i] = s[i]
         /\ Append(s, e)[Len(s) + 1] = e
  OBVIOUS

LEMMA TailKeeps ==
  ASSUME NEW S, NEW s \in Seq(S), s # <<>>
  PROVE  /\ Head(s) \in S
         /\ Head(s) = s[1]
         /\ Len(s) \in Nat \ {0}
         /\ Tail(s) \in Seq(S)
         /\ Len(Tail(s)) = Len(s) - 1
         /\ \A i \in 1 .. Len(Tail(s)) : Tail(s)[i] = s[i + 1]
  OBVIOUS

-----------------------------------------------------------------------------
LEMMA InitIInv == Init => IInv
<1> SUFFICES ASSUME Init PROVE IInv
  OBVIOUS
<1>1. TypeOK
  <2>1. SessionTypeOK
    BY DEF Init, SessionInit, SessionTypeOK, BeforeEpoch
  <2>2. ChallengeTypeOK /\ issued = 0
    BY DEF Init, ChallengeInit, ChallengeTypeOK, NoChallenge
  <2>3. /\ started \in [Requests -> 0 .. issued] /\ grant \in [Requests -> 0 .. issued]
        /\ told \subseteq 1 .. issued /\ approved \subseteq told
        /\ spent \subseteq 1 .. issued
    BY <2>2 DEF Init, NoChallenge
  <2>4. /\ held \in AuthResult \cup CancelNotice \cup {NoResult}
        /\ sending \in [Writes -> AuthResult \cup {NoResult}]
    BY DEF Init
  <2>5. /\ addQueue \in Seq(Requests) /\ queue \in Seq(Requests)
        /\ results \in Seq(AuthResult) /\ cancelQueue \in Seq(Nat)
    BY DEF Init
  <2>6. /\ notifyHandlers \in 0 .. MaxHandlers /\ cancelHandlers \in 0 .. MaxHandlers
        /\ reads \in 0 .. MaxReads
    BY DEF Init
  <2> QED
    BY <2>1, <2>2, <2>3, <2>4, <2>5, <2>6 DEF Init, TypeOK
<1>2. MessagesVouched
  BY DEF Init, MessagesVouched, Vouched, NoResult
<1>3. LineIsFresh
  BY DEF Init, LineIsFresh, Untouched
<1>4. InHand
  BY DEF Init, InHand, NoResult, AuthResult
<1>5. GrantsSound
  BY DEF Init, SessionInit, ChallengeInit, GrantsSound
<1>6. VerdictsSound
  BY DEF Init, VerdictsSound
<1> QED BY <1>1, <1>2, <1>3, <1>4, <1>5, <1>6 DEF IInv

-----------------------------------------------------------------------------
\* A verification handler touches neither the messages nor the grants.
LEMMA HandlerFrame ==
  ASSUME IInv, HandlerElsewhere
  PROVE  MessagesVouched' /\ GrantsSound'
<1>1. MessagesVouched'
  BY DEF IInv, MessagesVouched, Vouched, HandlerElsewhere
<1>2. GrantsSound'
  BY DEF IInv, GrantsSound, GrantedByUser, HandlerElsewhere
<1> QED BY <1>1, <1>2

\* A GATT handler touches no request; it only adds challenges and approvals.
LEMMA GattFrame ==
  ASSUME IInv, GattElsewhere,
         approved \subseteq approved', challenge' \in Nat, challenge <= challenge'
  PROVE  LineIsFresh' /\ InHand' /\ VerdictsSound'
<1>1. LineIsFresh'
  BY DEF IInv, LineIsFresh, Untouched, GattElsewhere
<1>2. InHand'
  BY DEF IInv, TypeOK, ChallengeTypeOK, InHand, Untouched, Cancelled, NoChallenge,
     GattElsewhere
<1>3. VerdictsSound'
  BY DEF IInv, VerdictsSound, Justified, GrantedByUser, GattElsewhere
<1> QED BY <1>1, <1>2, <1>3

-----------------------------------------------------------------------------
(* Verification handlers. *)

LEMMA AcceptKeepsIInv ==
  ASSUME IInv, NEW r \in Requests, Accept(r)
  PROVE  IInv'
<1>1. TypeOK'
  BY DEF IInv, TypeOK, SessionTypeOK, ChallengeTypeOK, Accept, HandlerElsewhere
<1>2. LineIsFresh'
  <2>1. \A q \in Requests : q # r => task'[q] = task[q]
    BY DEF IInv, TypeOK, Accept
  <2>2. task'[r] \in {"reading", "done"} /\ Untouched(r) /\ r # cur
    BY DEF IInv, TypeOK, LineIsFresh, Accept
  <2>3. \A i \in 1 .. Len(addQueue) : addQueue[i] \in Requests
    BY DEF IInv, TypeOK
  <2> QED
    BY <2>1, <2>2, <2>3 DEF IInv, LineIsFresh, Untouched, Accept, HandlerElsewhere
<1>3. InHand'
  BY DEF IInv, InHand, Untouched, Cancelled, Accept, HandlerElsewhere
<1>4. VerdictsSound'
  BY DEF IInv, VerdictsSound, Justified, GrantedByUser, Accept, HandlerElsewhere
<1>5. MessagesVouched' /\ GrantsSound'
  BY HandlerFrame DEF Accept
<1> QED BY <1>1, <1>2, <1>3, <1>4, <1>5 DEF IInv

LEMMA ReceiveIdentityKeepsIInv ==
  ASSUME IInv, NEW r \in Requests, ReceiveIdentity(r)
  PROVE  IInv'
<1>1. TypeOK'
  BY SMTT(60) DEF IInv, TypeOK, SessionTypeOK, ChallengeTypeOK, ReceiveIdentity,
     HandlerElsewhere
<1>2. LineIsFresh'
  BY DEF IInv, LineIsFresh, Untouched, ReceiveIdentity, HandlerElsewhere
<1>3. InHand'
  BY DEF IInv, InHand, Untouched, Cancelled, ReceiveIdentity, HandlerElsewhere
<1>4. VerdictsSound'
  BY DEF IInv, VerdictsSound, Justified, GrantedByUser, ReceiveIdentity, HandlerElsewhere
<1>5. MessagesVouched' /\ GrantsSound'
  BY HandlerFrame DEF ReceiveIdentity
<1> QED BY <1>1, <1>2, <1>3, <1>4, <1>5 DEF IInv

LEMMA LoseIdentityKeepsIInv ==
  ASSUME IInv, NEW r \in Requests, LoseIdentity(r)
  PROVE  IInv'
<1>1. TypeOK'
  BY SMTT(60) DEF IInv, TypeOK, SessionTypeOK, ChallengeTypeOK, LoseIdentity,
     HandlerElsewhere
<1>2. LineIsFresh'
  <2>1. \A q \in Requests : q # r => task'[q] = task[q]
    BY DEF IInv, TypeOK, LoseIdentity
  <2>2. task'[r] = "done"
    BY DEF IInv, TypeOK, LoseIdentity
  <2>3. \A i \in 1 .. Len(addQueue) : addQueue[i] \in Requests
    BY DEF IInv, TypeOK
  <2> QED
    BY <2>1, <2>2, <2>3 DEF IInv, LineIsFresh, Untouched, LoseIdentity, HandlerElsewhere
<1>3. InHand'
  BY DEF IInv, InHand, Untouched, Cancelled, LoseIdentity, HandlerElsewhere
<1>4. VerdictsSound'
  BY DEF IInv, VerdictsSound, Justified, GrantedByUser, LoseIdentity, HandlerElsewhere
<1>5. MessagesVouched' /\ GrantsSound'
  BY HandlerFrame DEF LoseIdentity
<1> QED BY <1>1, <1>2, <1>3, <1>4, <1>5 DEF IInv

LEMMA EnqueueKeepsIInv ==
  ASSUME IInv, NEW r \in Requests, Enqueue(r)
  PROVE  IInv'
<1>1. TypeOK'
  <2>1. addQueue' \in Seq(Requests)
    BY AppendKeeps DEF IInv, TypeOK, Enqueue
  <2> QED
    BY <2>1, SMTT(60) DEF IInv, TypeOK, SessionTypeOK, ChallengeTypeOK, Enqueue,
       HandlerElsewhere
<1>2. LineIsFresh'
  <2>1. addQueue \in Seq(Requests) /\ addQueue' = Append(addQueue, r)
    BY DEF IInv, TypeOK, Enqueue
  <2>2. task' = [task EXCEPT ![r] = "selecting"] /\ task[r] = "sending"
    BY DEF Enqueue
  <2>3. Untouched(r) /\ r # cur
    BY <2>2 DEF IInv, LineIsFresh
  <2>4. \A q \in Requests : Untouched(q)' <=> Untouched(q)
    BY DEF Untouched, Enqueue, HandlerElsewhere
  <2>5. \A q \in Requests : task'[q] = IF q = r THEN "selecting" ELSE task[q]
    BY <2>2 DEF IInv, TypeOK
  <2>6. queue' = queue /\ cur' = cur
    BY DEF Enqueue, HandlerElsewhere
  <2>7. \A i \in 1 .. Len(addQueue) : addQueue[i] \in Requests \ {r}
    BY <2>1, <2>2 DEF IInv, LineIsFresh
  <2>8. ASSUME NEW i \in 1 .. Len(addQueue')
        PROVE  /\ task'[addQueue'[i]] \in {"selecting", "done"}
               /\ Untouched(addQueue'[i])
               /\ addQueue'[i] # cur
               /\ \A j \in 1 .. Len(addQueue') : i # j => addQueue'[i] # addQueue'[j]
    <3>1. CASE i \in 1 .. Len(addQueue)
      BY <2>1, <2>5, <2>7, <3>1, AppendKeeps DEF IInv, LineIsFresh
    <3>2. CASE i = Len(addQueue) + 1
      BY <2>1, <2>3, <2>5, <2>7, <3>2, AppendKeeps
    <3> QED BY <2>1, <3>1, <3>2, AppendKeeps
  <2>9. \A i \in 1 .. Len(addQueue') : addQueue'[i] \in Requests
    BY <2>1, AppendKeeps
  <2> QED
    BY <2>3, <2>4, <2>5, <2>6, <2>8, <2>9 DEF IInv, LineIsFresh
<1>3. InHand'
  BY DEF IInv, InHand, Untouched, Cancelled, Enqueue, HandlerElsewhere
<1>4. VerdictsSound'
  BY DEF IInv, VerdictsSound, Justified, GrantedByUser, Enqueue, HandlerElsewhere
<1>5. MessagesVouched' /\ GrantsSound'
  BY HandlerFrame DEF Enqueue
<1> QED BY <1>1, <1>2, <1>3, <1>4, <1>5 DEF IInv

LEMMA ClientLeavesKeepsIInv ==
  ASSUME IInv, NEW r \in Requests, ClientLeaves(r)
  PROVE  IInv'
<1>1. TypeOK'
  BY DEF IInv, TypeOK, SessionTypeOK, ChallengeTypeOK, ClientLeaves, HandlerElsewhere
<1>2. LineIsFresh'
  BY DEF IInv, LineIsFresh, Untouched, ClientLeaves, HandlerElsewhere
<1>3. InHand'
  BY DEF IInv, InHand, Untouched, Cancelled, ClientLeaves, HandlerElsewhere
<1>4. VerdictsSound'
  BY DEF IInv, VerdictsSound, Justified, GrantedByUser, ClientLeaves, HandlerElsewhere
<1>5. MessagesVouched' /\ GrantsSound'
  BY HandlerFrame DEF ClientLeaves
<1> QED BY <1>1, <1>2, <1>3, <1>4, <1>5 DEF IInv

LEMMA HandleClientMessageKeepsIInv ==
  ASSUME IInv, NEW r \in Requests, HandleClientMessage(r)
  PROVE  IInv'
<1>1. TypeOK'
  BY DEF IInv, TypeOK, SessionTypeOK, ChallengeTypeOK, HandleClientMessage, HandlerElsewhere
<1>2. LineIsFresh'
  <2>1. \A q \in Requests : q # r => task'[q] = task[q]
    BY DEF IInv, TypeOK, HandleClientMessage
  <2>2. task'[r] = "done"
    BY DEF IInv, TypeOK, HandleClientMessage
  <2>3. \A i \in 1 .. Len(addQueue) : addQueue[i] \in Requests
    BY DEF IInv, TypeOK
  <2> QED
    BY <2>1, <2>2, <2>3 DEF IInv, LineIsFresh, Untouched, HandleClientMessage,
     HandlerElsewhere
<1>3. InHand'
  BY DEF IInv, InHand, Untouched, Cancelled, HandleClientMessage, HandlerElsewhere
<1>4. VerdictsSound'
  BY DEF IInv, VerdictsSound, Justified, GrantedByUser, HandleClientMessage,
     HandlerElsewhere
<1>5. MessagesVouched' /\ GrantsSound'
  BY HandlerFrame DEF HandleClientMessage
<1> QED BY <1>1, <1>2, <1>3, <1>4, <1>5 DEF IInv

LEMMA DeliverResultKeepsIInv ==
  ASSUME IInv, NEW r \in Requests, DeliverResult(r)
  PROVE  IInv'
<1>1. TypeOK'
  BY DEF IInv, TypeOK, SessionTypeOK, ChallengeTypeOK, DeliverResult, HandlerElsewhere
<1>2. LineIsFresh'
  <2>1. \A q \in Requests : q # r => task'[q] = task[q]
    BY DEF IInv, TypeOK, DeliverResult
  <2>2. task'[r] = "done"
    BY DEF IInv, TypeOK, DeliverResult
  <2>3. \A i \in 1 .. Len(addQueue) : addQueue[i] \in Requests
    BY DEF IInv, TypeOK
  <2> QED
    BY <2>1, <2>2, <2>3 DEF IInv, LineIsFresh, Untouched, DeliverResult, HandlerElsewhere
<1>3. InHand'
  BY DEF IInv, InHand, Untouched, Cancelled, DeliverResult, HandlerElsewhere
<1>4. VerdictsSound'
  BY DEF IInv, TypeOK, VerdictsSound, Justified, GrantedByUser, DeliverResult,
     HandlerElsewhere
<1>5. MessagesVouched' /\ GrantsSound'
  BY HandlerFrame DEF DeliverResult
<1> QED BY <1>1, <1>2, <1>3, <1>4, <1>5 DEF IInv

-----------------------------------------------------------------------------
(* The AuthProcessor task. *)

\* The local queue is empty at the head of the loop, so no request is a duplicate:
\* Receive takes the first request of the channel.
LEMMA ReceiveTakesHead ==
  ASSUME IInv, Receive
  PROVE  /\ addQueue # <<>>
         /\ addQueue' = Tail(addQueue)
         /\ cur' = Head(addQueue)
         /\ queue' = <<>>
         /\ pc' = "popped"
         /\ result' = result /\ basis' = basis
<1>1. queue = <<>> /\ addQueue # <<>>
  BY DEF IInv, LineIsFresh, Receive
<1>2. ~IsDuplicate(Head(addQueue))
  BY <1>1 DEF IsDuplicate
<1>3. /\ Head(Append(queue, Head(addQueue))) = Head(addQueue)
      /\ Tail(Append(queue, Head(addQueue))) = <<>>
  BY <1>1
<1> QED BY <1>1, <1>2, <1>3 DEF Receive

LEMMA ReceiveKeepsIInv ==
  ASSUME IInv, Receive
  PROVE  IInv'
<1>1. TypeOK'
  <2>1. /\ addQueue \in Seq(Requests) /\ Head(addQueue) \in Requests
        /\ Tail(addQueue) \in Seq(Requests)
    BY ReceiveTakesHead, TailKeeps DEF IInv, TypeOK
  <2>2. cur' \in Requests /\ addQueue' \in Seq(Requests) /\ queue' \in Seq(Requests)
    BY <2>1, ReceiveTakesHead
  <2>3. UNCHANGED <<task, left, reply, result, results, cancelQueue, notifyReady,
                    cancelReady, notifyHandlers, cancelHandlers, startPermit, verdict,
                    held, unused, sending, reads, told, approved, started, grant, basis,
                    spent, late, issued>>
    BY ReceiveTakesHead DEF Receive, ProcessorElsewhere, handlerVars, notifyVars, cancelVars,
       writeVars, watchVars, challengeVars
  <2>4. SessionTypeOK' /\ ChallengeTypeOK'
    BY DEF IInv, TypeOK, SessionTypeOK, ChallengeTypeOK, Receive
  <2>5. cur' # NoRequest /\ pc' = "popped"
    BY <2>2, ReceiveTakesHead, ProcessorAssumption
  <2> QED
    BY <2>2, <2>3, <2>4, <2>5 DEF IInv, TypeOK
<1>2. MessagesVouched'
  BY DEF IInv, MessagesVouched, Vouched, Receive, ProcessorElsewhere
<1>3. LineIsFresh'
  <2>1. addQueue \in Seq(Requests) /\ addQueue # <<>>
    BY ReceiveTakesHead DEF IInv, TypeOK
  <2>2. \A i \in 1 .. Len(addQueue') :
           i + 1 \in 1 .. Len(addQueue) /\ addQueue'[i] = addQueue[i + 1] /\ i + 1 # 1
    BY <2>1, ReceiveTakesHead, TailKeeps
  <2>3. cur' = addQueue[1] /\ 1 \in 1 .. Len(addQueue)
    BY <2>1, ReceiveTakesHead, TailKeeps
  <2>4. task' = task /\ \A q \in Requests : Untouched(q)' <=> Untouched(q)
    BY ReceiveTakesHead DEF Untouched, Receive, ProcessorElsewhere
  <2>5. \A i \in 1 .. Len(addQueue) : addQueue[i] \in Requests
    BY <2>1
  <2>6. \A q \in Requests : task[q] \in {"absent", "reading", "sending"} =>
           Untouched(q) /\ q # cur'
    BY <2>3 DEF IInv, LineIsFresh
  <2>7. ASSUME NEW i \in 1 .. Len(addQueue')
        PROVE  /\ task[addQueue'[i]] \in {"selecting", "done"}
               /\ Untouched(addQueue'[i])
               /\ addQueue'[i] # cur'
               /\ addQueue'[i] \in Requests
               /\ \A j \in 1 .. Len(addQueue') : i # j => addQueue'[i] # addQueue'[j]
    <3>1. \A j \in 1 .. Len(addQueue') : i # j => i + 1 # j + 1
      OBVIOUS
    <3> QED BY <2>2, <2>3, <2>5, <3>1 DEF IInv, LineIsFresh
  <2> QED
    BY <2>4, <2>6, <2>7, ReceiveTakesHead DEF LineIsFresh
<1>4. InHand'
  <2>1. addQueue \in Seq(Requests) /\ addQueue # <<>>
    BY ReceiveTakesHead DEF IInv, TypeOK
  <2>2. cur' \in Requests /\ Untouched(cur')
    BY <2>1, ReceiveTakesHead, TailKeeps DEF IInv, LineIsFresh
  <2>3. held' = held /\ held \notin AuthResult
    BY DEF IInv, InHand, Receive
  <2>4. Untouched(cur)'
    BY <2>2, ReceiveTakesHead DEF Untouched, Receive
  <2> QED
    BY <2>3, <2>4, ReceiveTakesHead DEF InHand
<1>5. GrantsSound'
  BY ReceiveTakesHead DEF IInv, GrantsSound, GrantedByUser, Receive, ProcessorElsewhere
<1>6. VerdictsSound'
  BY ReceiveTakesHead DEF IInv, VerdictsSound, Justified, GrantedByUser, Receive,
     ProcessorElsewhere
<1> QED BY <1>1, <1>2, <1>3, <1>4, <1>5, <1>6 DEF IInv

LEMMA CheckCancelledKeepsIInv ==
  ASSUME IInv, CheckCancelled
  PROVE  IInv'
<1>1. TypeOK'
  BY DEF IInv, TypeOK, SessionTypeOK, ChallengeTypeOK, CheckCancelled,
     ProcessorElsewhere, Drop
<1>2. MessagesVouched'
  BY DEF IInv, MessagesVouched, Vouched, CheckCancelled, ProcessorElsewhere, Drop
<1>3. LineIsFresh'
  <2>1. UNCHANGED <<queue, addQueue, task, basis, started, grant>>
    BY DEF CheckCancelled, ProcessorElsewhere, sharedVars, handlerVars, historyVars
  <2>2. \A q \in Requests : q # cur => result'[q] = result[q] /\ q # cur'
    BY DEF IInv, TypeOK, CheckCancelled, Drop, ProcessorAssumption
  <2>3. \A n \in 1 .. Len(addQueue) : addQueue[n] \in Requests
    BY DEF IInv, TypeOK
  <2> QED
    BY <2>1, <2>2, <2>3 DEF IInv, LineIsFresh, Untouched
<1>4. InHand'
  BY DEF IInv, InHand, Untouched, Cancelled, CheckCancelled, ProcessorElsewhere, Drop
<1>5. GrantsSound'
  BY DEF IInv, GrantsSound, GrantedByUser, CheckCancelled, ProcessorElsewhere, Drop
<1>6. VerdictsSound'
  BY SMTT(60) DEF IInv, TypeOK, InHand, LineIsFresh, Untouched, GrantsSound, VerdictsSound,
     Justified, GrantedByUser, NoChallenge, Cancelled, ChallengeTypeOK,
     CheckCancelled, ProcessorElsewhere, Drop
<1> QED BY <1>1, <1>2, <1>3, <1>4, <1>5, <1>6 DEF IInv

LEMMA CheckSessionKeepsIInv ==
  ASSUME IInv, CheckSession
  PROVE  IInv'
<1>1. TypeOK'
  BY DEF IInv, TypeOK, SessionTypeOK, ChallengeTypeOK, CheckSession, ProcessorElsewhere,
     Decide, IsVerified
<1>2. MessagesVouched'
  BY DEF IInv, MessagesVouched, Vouched, CheckSession, ProcessorElsewhere, Decide,
     IsVerified
<1>3. LineIsFresh'
  <2>1. UNCHANGED <<queue, addQueue, task, result, started, grant, cur>>
    BY DEF CheckSession, ProcessorElsewhere, sharedVars, handlerVars
  <2>2. \A q \in Requests : q # cur => basis'[q] = basis[q]
    BY DEF IInv, TypeOK, CheckSession, Decide
  <2>3. \A n \in 1 .. Len(addQueue) : addQueue[n] \in Requests
    BY DEF IInv, TypeOK
  <2> QED
    BY <2>1, <2>2, <2>3 DEF IInv, LineIsFresh, Untouched
<1>4. InHand'
  BY DEF IInv, InHand, Untouched, Cancelled, CheckSession, ProcessorElsewhere, Decide,
     IsVerified
<1>5. GrantsSound'
  BY DEF IInv, TypeOK, InHand, GrantsSound, GrantedByUser, Untouched, CheckSession,
     ProcessorElsewhere, Decide, IsVerified
<1>6. VerdictsSound'
  BY DEF IInv, TypeOK, InHand, LineIsFresh, Untouched, GrantsSound, VerdictsSound,
     Justified, GrantedByUser, NoChallenge, Cancelled, ChallengeTypeOK, CheckSession,
     ProcessorElsewhere, Decide, IsVerified
<1> QED BY <1>1, <1>2, <1>3, <1>4, <1>5, <1>6 DEF IInv

LEMMA CheckReadyKeepsIInv ==
  ASSUME IInv, NEW here \in {"ready", "cancelReady"}, NEW ready \in BOOLEAN,
         NEW next \in {"cancelReady", "drain"}, CheckReady(here, ready, next)
  PROVE  IInv'
<1>1. TypeOK'
  <2>1. UNCHANGED <<task, left, reply, result, addQueue, results, cancelQueue, notifyReady,
                    cancelReady, notifyHandlers, cancelHandlers, startPermit, queue, cur,
                    held, unused, sending, reads, told, approved, started, grant, spent,
                    late, issued>>
    BY DEF CheckReady, ProcessorElsewhere, sharedVars, handlerVars, notifyVars,
       cancelVars, writeVars, watchVars, challengeVars
  <2>2. SessionTypeOK' /\ ChallengeTypeOK'
    BY DEF IInv, TypeOK, SessionTypeOK, ChallengeTypeOK, CheckReady
  <2>3. cur \in Requests /\ pc' \in {"cancelReady", "drain", "answer"}
    BY DEF IInv, TypeOK, CheckReady, Decide
  <2>4. verdict' \in BOOLEAN
    BY DEF IInv, TypeOK, CheckReady, Decide
  <2>5. basis' \in [Requests -> {"none", "cache", "grant", "denied", "mismatch", "clock",
                                 "timeout", "notReady", "duplicate"}]
    BY DEF IInv, TypeOK, CheckReady, Decide
  <2>6. cur' \in Requests /\ cur' # NoRequest /\ pc' # "idle"
    BY <2>1, <2>3
  <2> QED
    BY <2>1, <2>2, <2>3, <2>4, <2>5, <2>6 DEF IInv, TypeOK
<1>2. MessagesVouched'
  BY DEF IInv, MessagesVouched, Vouched, CheckReady, ProcessorElsewhere, Decide
<1>3. LineIsFresh'
  <2>1. UNCHANGED <<queue, addQueue, task, result, started, grant, cur>>
    BY DEF CheckReady, ProcessorElsewhere, sharedVars, handlerVars
  <2>2. \A q \in Requests : q # cur => basis'[q] = basis[q]
    BY DEF IInv, TypeOK, CheckReady, Decide
  <2>3. \A n \in 1 .. Len(addQueue) : addQueue[n] \in Requests
    BY DEF IInv, TypeOK
  <2> QED
    BY <2>1, <2>2, <2>3 DEF IInv, LineIsFresh, Untouched
<1>4. InHand'
  BY DEF IInv, InHand, Untouched, Cancelled, CheckReady, ProcessorElsewhere, Decide
<1>5. GrantsSound'
  BY DEF IInv, TypeOK, InHand, GrantsSound, GrantedByUser, Untouched, CheckReady,
     ProcessorElsewhere, Decide
<1>6. VerdictsSound'
  BY DEF IInv, TypeOK, InHand, VerdictsSound, Justified, GrantedByUser, Untouched,
     CheckReady, ProcessorElsewhere, Decide
<1> QED BY <1>1, <1>2, <1>3, <1>4, <1>5, <1>6 DEF IInv

LEMMA DrainKeepsIInv ==
  ASSUME IInv, Drain
  PROVE  IInv'
<1>1. TypeOK'
  <2>1. results' \in Seq(AuthResult)
    <3>1. CASE results = <<>>
      BY <3>1 DEF IInv, TypeOK, Drain
    <3>2. CASE results # <<>>
      <4>1. results \in Seq(AuthResult) /\ results' = Tail(results)
        BY <3>2 DEF IInv, TypeOK, Drain
      <4> QED BY <3>2, <4>1, TailKeeps
    <3> QED BY <3>1, <3>2
  <2> QED
    BY <2>1 DEF IInv, TypeOK, SessionTypeOK, ChallengeTypeOK, Drain, ProcessorElsewhere
<1>2. MessagesVouched'
  <2>1. CASE results = <<>>
    BY <2>1 DEF IInv, MessagesVouched, Vouched, Drain, ProcessorElsewhere
  <2>2. CASE results # <<>>
    <3>1. results \in Seq(AuthResult) /\ results' = Tail(results)
      BY <2>2 DEF IInv, TypeOK, Drain
    <3>2. \A i \in 1 .. Len(results') :
             i + 1 \in 1 .. Len(results) /\ results'[i] = results[i + 1]
      BY <2>2, <3>1, TailKeeps
    <3> QED
      BY <3>2 DEF IInv, MessagesVouched, Vouched, Drain, ProcessorElsewhere
  <2> QED BY <2>1, <2>2
<1>3. LineIsFresh'
  BY DEF IInv, LineIsFresh, Untouched, Drain, ProcessorElsewhere
<1>4. InHand'
  BY DEF IInv, InHand, Untouched, Cancelled, Drain, ProcessorElsewhere
<1>5. GrantsSound'
  BY DEF IInv, GrantsSound, GrantedByUser, Drain, ProcessorElsewhere
<1>6. VerdictsSound'
  BY DEF IInv, VerdictsSound, Justified, GrantedByUser, Drain, ProcessorElsewhere
<1> QED BY <1>1, <1>2, <1>3, <1>4, <1>5, <1>6 DEF IInv

LEMMA RefreshChallengeKeepsIInv ==
  ASSUME IInv, RefreshChallenge
  PROVE  IInv'
<1>1. TypeOK'
  BY SMTT(60) DEF IInv, TypeOK, SessionTypeOK, ChallengeTypeOK, AuthResult, NoResult,
     RefreshChallenge, ProcessorElsewhere, Refresh
<1>2. MessagesVouched'
  BY DEF IInv, MessagesVouched, Vouched, RefreshChallenge, ProcessorElsewhere, Refresh
<1>3. LineIsFresh'
  BY DEF IInv, LineIsFresh, Untouched, RefreshChallenge, ProcessorElsewhere, Refresh
<1>4. InHand'
  BY DEF IInv, TypeOK, ChallengeTypeOK, InHand, Untouched, NoResult, NoChallenge,
     RefreshChallenge, ProcessorElsewhere, Refresh
<1>5. GrantsSound'
  BY DEF IInv, TypeOK, InHand, LineIsFresh, Untouched, GrantsSound, GrantedByUser,
     SessionTypeOK, ChallengeTypeOK, NoChallenge, MessagesVouched, Vouched,
     RefreshChallenge, ProcessorElsewhere, Refresh
<1>6. VerdictsSound'
  BY DEF IInv, TypeOK, InHand, VerdictsSound, Justified, GrantedByUser, Untouched,
     RefreshChallenge, ProcessorElsewhere, Refresh
<1> QED BY <1>1, <1>2, <1>3, <1>4, <1>5, <1>6 DEF IInv

LEMMA TriggerKeepsIInv ==
  ASSUME IInv, Trigger
  PROVE  IInv'
<1>1. TypeOK'
  BY DEF IInv, TypeOK, SessionTypeOK, ChallengeTypeOK, Trigger, ProcessorElsewhere
<1>2. MessagesVouched'
  BY DEF IInv, MessagesVouched, Vouched, Trigger, ProcessorElsewhere
<1>3. LineIsFresh'
  BY DEF IInv, LineIsFresh, Untouched, Trigger, ProcessorElsewhere
<1>4. InHand'
  BY DEF IInv, InHand, Untouched, Cancelled, Trigger, ProcessorElsewhere
<1>5. GrantsSound'
  BY DEF IInv, GrantsSound, GrantedByUser, Trigger, ProcessorElsewhere
<1>6. VerdictsSound'
  BY DEF IInv, VerdictsSound, Justified, GrantedByUser, Trigger, ProcessorElsewhere
<1> QED BY <1>1, <1>2, <1>3, <1>4, <1>5, <1>6 DEF IInv

LEMMA WaitCancelledKeepsIInv ==
  ASSUME IInv, WaitCancelled
  PROVE  IInv'
<1>1. TypeOK'
  <2>1. held' \in AuthResult \cup CancelNotice \cup {NoResult}
    <3>1. Cancel(challenge) \in CancelNotice
      BY DEF IInv, TypeOK, ChallengeTypeOK, Cancel, CancelNotice
    <3> QED
      BY <3>1 DEF IInv, TypeOK, WaitCancelled
  <2> QED
    BY <2>1 DEF IInv, TypeOK, SessionTypeOK, ChallengeTypeOK, WaitCancelled, Drop,
       ProcessorElsewhere
<1>2. MessagesVouched'
  BY DEF IInv, MessagesVouched, Vouched, WaitCancelled, ProcessorElsewhere, Drop, Cancel,
     CanPeek
<1>3. LineIsFresh'
  <2>1. UNCHANGED <<queue, addQueue, task, basis, started, grant>>
    BY DEF WaitCancelled, ProcessorElsewhere, sharedVars, handlerVars, historyVars
  <2>2. \A q \in Requests : q # cur => result'[q] = result[q] /\ q # cur'
    BY DEF IInv, TypeOK, WaitCancelled, Drop, ProcessorAssumption
  <2>3. \A n \in 1 .. Len(addQueue) : addQueue[n] \in Requests
    BY DEF IInv, TypeOK
  <2> QED
    BY <2>1, <2>2, <2>3 DEF IInv, LineIsFresh, Untouched
<1>4. InHand'
  BY DEF IInv, TypeOK, LineIsFresh, InHand, Untouched, Cancelled, ChallengeTypeOK,
     NoChallenge, NoResult, AuthResult, CancelNotice, WaitCancelled,
     ProcessorElsewhere, Drop, Cancel, CanPeek
<1>5. GrantsSound'
  BY DEF IInv, GrantsSound, GrantedByUser, WaitCancelled, ProcessorElsewhere, Drop,
     Cancel, CanPeek
<1>6. VerdictsSound'
  BY SMTT(60) DEF IInv, TypeOK, InHand, LineIsFresh, Untouched, GrantsSound, VerdictsSound,
     Justified, GrantedByUser, NoChallenge, Cancelled, ChallengeTypeOK,
     WaitCancelled, ProcessorElsewhere, Drop, Cancel, CanPeek
<1> QED BY <1>1, <1>2, <1>3, <1>4, <1>5, <1>6 DEF IInv

LEMMA SendCancelKeepsIInv ==
  ASSUME IInv, SendCancel
  PROVE  IInv'
<1>1. TypeOK'
  <2>1. cancelQueue' \in Seq(Nat)
    BY AppendKeeps DEF IInv, TypeOK, InHand, CancelNotice, SendCancel
  <2> QED
    BY <2>1 DEF IInv, TypeOK, SessionTypeOK, ChallengeTypeOK, SendCancel, Drop,
       ProcessorElsewhere
<1>2. MessagesVouched'
  BY DEF IInv, MessagesVouched, Vouched, NoResult, SendCancel, ProcessorElsewhere, Drop
<1>3. LineIsFresh'
  <2>1. cur' \notin Requests \/ cur' = cur
    BY DEF IInv, TypeOK, SendCancel, Drop
  <2>2. \A r \in Requests : r # cur => result'[r] = result[r]
    BY DEF IInv, TypeOK, SendCancel, Drop
  <2>3. \A r \in Requests : task[r] \in {"absent", "reading", "sending"} =>
           r # cur
    BY DEF IInv, LineIsFresh
  <2>4. \A i \in 1 .. Len(addQueue) : addQueue[i] \in Requests
    BY DEF IInv, TypeOK
  <2> QED
    BY <2>1, <2>2, <2>3, <2>4 DEF IInv, LineIsFresh, Untouched, SendCancel,
     ProcessorElsewhere
<1>4. InHand'
  BY DEF IInv, TypeOK, LineIsFresh, InHand, Untouched, Cancelled, ChallengeTypeOK,
     NoChallenge, NoResult, AuthResult, CancelNotice, SendCancel, ProcessorElsewhere,
     Drop
<1>5. GrantsSound'
  BY DEF IInv, GrantsSound, GrantedByUser, SendCancel, ProcessorElsewhere, Drop
<1>6. VerdictsSound'
  BY DEF IInv, TypeOK, InHand, LineIsFresh, Untouched, GrantsSound, VerdictsSound,
     Justified, GrantedByUser, NoChallenge, Cancelled, ChallengeTypeOK, SendCancel,
     ProcessorElsewhere, Drop
<1> QED BY <1>1, <1>2, <1>3, <1>4, <1>5, <1>6 DEF IInv

\* The two steps of a poll that completes nothing move the processor alone.
LEMMA PollKeepsIInv ==
  ASSUME IInv, PollCancel \/ PollPending
  PROVE  IInv'
<1>1. /\ pc \in {"wait", "poll"} /\ pc' \in {"wait", "poll"}
      /\ UNCHANGED <<sharedVars, result, queue, cur, verdict, held, historyVars>>
      /\ ProcessorElsewhere
  BY DEF PollCancel, PollPending
<1>2. TypeOK'
  BY <1>1 DEF IInv, TypeOK, SessionTypeOK, ChallengeTypeOK, ProcessorElsewhere
<1>3. MessagesVouched'
  BY <1>1 DEF IInv, MessagesVouched, Vouched, ProcessorElsewhere
<1>4. LineIsFresh'
  BY <1>1 DEF IInv, LineIsFresh, Untouched, ProcessorElsewhere
<1>5. InHand'
  BY <1>1 DEF IInv, InHand, Untouched, Cancelled, ProcessorElsewhere
<1>6. GrantsSound'
  BY <1>1 DEF IInv, GrantsSound, GrantedByUser, ProcessorElsewhere
<1>7. VerdictsSound'
  BY <1>1 DEF IInv, VerdictsSound, Justified, GrantedByUser, ProcessorElsewhere
<1> QED BY <1>2, <1>3, <1>4, <1>5, <1>6, <1>7 DEF IInv

LEMMA WaitResultKeepsIInv ==
  ASSUME IInv, WaitResult
  PROVE  IInv'
<1>1. TypeOK'
  <2>1. held' \in AuthResult /\ results' \in Seq(AuthResult)
    BY TailKeeps DEF IInv, TypeOK, WaitResult
  <2> QED
    BY <2>1 DEF IInv, TypeOK, SessionTypeOK, ChallengeTypeOK, WaitResult, ProcessorElsewhere
<1>2. MessagesVouched'
  <2>1. Head(results) = results[1] /\ 1 \in 1 .. Len(results)
    BY TailKeeps DEF IInv, TypeOK, WaitResult
  <2>2. \A i \in 1 .. Len(results') :
             i + 1 \in 1 .. Len(results) /\ results'[i] = results[i + 1]
    BY TailKeeps DEF IInv, TypeOK, WaitResult
  <2> QED
    BY <2>1, <2>2 DEF IInv, MessagesVouched, Vouched, WaitResult, ProcessorElsewhere
<1>3. LineIsFresh'
  BY DEF IInv, LineIsFresh, Untouched, WaitResult, ProcessorElsewhere
<1>4. InHand'
  <2>1. held' \in AuthResult
    BY TailKeeps DEF IInv, TypeOK, WaitResult
  <2> QED
    BY <2>1 DEF IInv, InHand, Untouched, WaitResult, ProcessorElsewhere
<1>5. GrantsSound'
  BY DEF IInv, GrantsSound, GrantedByUser, WaitResult, ProcessorElsewhere
<1>6. VerdictsSound'
  BY DEF IInv, VerdictsSound, Justified, GrantedByUser, WaitResult, ProcessorElsewhere
<1> QED BY <1>1, <1>2, <1>3, <1>4, <1>5, <1>6 DEF IInv

LEMMA WaitTimeoutKeepsIInv ==
  ASSUME IInv, WaitTimeout
  PROVE  IInv'
<1>1. TypeOK'
  BY DEF IInv, TypeOK, SessionTypeOK, ChallengeTypeOK, WaitTimeout, ProcessorElsewhere,
     Decide
<1>2. MessagesVouched'
  BY DEF IInv, MessagesVouched, Vouched, WaitTimeout, ProcessorElsewhere, Decide
<1>3. LineIsFresh'
  BY DEF IInv, LineIsFresh, Untouched, WaitTimeout, ProcessorElsewhere, Decide
<1>4. InHand'
  BY DEF IInv, InHand, Untouched, Cancelled, WaitTimeout, ProcessorElsewhere, Decide
<1>5. GrantsSound'
  BY DEF IInv, TypeOK, InHand, GrantsSound, GrantedByUser, Untouched, WaitTimeout,
     ProcessorElsewhere, Decide
<1>6. VerdictsSound'
  BY DEF IInv, TypeOK, InHand, VerdictsSound, Justified, GrantedByUser, Untouched,
     WaitTimeout, ProcessorElsewhere, Decide
<1> QED BY <1>1, <1>2, <1>3, <1>4, <1>5, <1>6 DEF IInv

LEMMA JudgeKeepsIInv ==
  ASSUME IInv, Judge
  PROVE  IInv'
<1>1. TypeOK'
  <2>1. SessionTypeOK'
    BY SMTT(60) DEF IInv, TypeOK, SessionTypeOK, Judge, MarkVerified, ClockReadable, BeforeEpoch
  <2>2. ChallengeTypeOK' /\ issued' = issued
    BY DEF IInv, TypeOK, ChallengeTypeOK, Judge, TakeIfMatches, NoChallenge
  <2>3. Basis # "mismatch" => held.challenge \in 1 .. issued
    BY DEF IInv, TypeOK, ChallengeTypeOK, Basis, Matches, CanPeek, NoChallenge
  <2>4. spent' \subseteq 1 .. issued /\ grant' \in [Requests -> 0 .. issued]
    <3>1. spent' \subseteq 1 .. issued
      BY <2>3 DEF IInv, TypeOK, Judge
    <3>2. CASE Basis = "grant"
      <4>1. held.challenge \in 0 .. issued
        BY <2>3, <3>2 DEF IInv, TypeOK, ChallengeTypeOK
      <4> QED BY <3>1, <3>2, <4>1 DEF IInv, TypeOK, Judge
    <3>3. CASE Basis # "grant"
      BY <3>1, <3>3 DEF IInv, TypeOK, Judge
    <3> QED BY <3>2, <3>3
  <2>5. Basis \in {"mismatch", "denied", "grant", "clock"}
    BY DEF Basis
  <2>6. verdict' \in BOOLEAN /\ basis' = [basis EXCEPT ![cur] = Basis] /\ pc' = "answer"
    BY DEF Judge, Decide
  <2> QED
    BY <2>1, <2>2, <2>4, <2>5, <2>6 DEF IInv, TypeOK, Judge, NoResult, ProcessorElsewhere
<1>2. MessagesVouched'
  BY DEF IInv, MessagesVouched, Vouched, NoResult, Judge, ProcessorElsewhere, Decide,
     Basis, Matches, CanPeek, TakeIfMatches, MarkVerified, ClockReadable
<1>3. LineIsFresh'
  BY DEF IInv, LineIsFresh, Untouched, Judge, ProcessorElsewhere, Decide, Basis, Matches,
     CanPeek, TakeIfMatches, MarkVerified, ClockReadable
<1>4. InHand'
  BY DEF IInv, TypeOK, LineIsFresh, InHand, Untouched, Cancelled, ChallengeTypeOK,
     NoChallenge, NoResult, AuthResult, CancelNotice, Judge, ProcessorElsewhere,
     Decide, Basis, Matches, CanPeek, TakeIfMatches, MarkVerified, ClockReadable
<1>5. GrantsSound'
  <2> DEFINE c == held.challenge
  <2>1. cur \in Requests /\ grant[cur] = NoChallenge /\ held \in AuthResult
    BY DEF IInv, TypeOK, InHand, Judge
  <2>2. Basis # "mismatch" => c = challenge /\ c # NoChallenge /\ c \notin spent
    BY DEF IInv, GrantsSound, Basis, Matches, CanPeek
  <2>3. challenge' \notin spent'
    <3>1. CASE Basis = "mismatch"
      BY <3>1 DEF IInv, GrantsSound, Judge, TakeIfMatches, Basis
    <3>2. CASE Basis # "mismatch"
      BY <3>2, <2>2 DEF IInv, TypeOK, GrantsSound, Judge, TakeIfMatches, Basis, NoChallenge
    <3> QED BY <3>1, <3>2
  <2>4. /\ \A r \in Requests \ {cur} : basis'[r] = basis[r] /\ grant'[r] = grant[r]
        /\ basis'[cur] = Basis
        /\ grant'[cur] = IF Basis = "grant" THEN c ELSE NoChallenge
    BY <2>1 DEF IInv, TypeOK, Judge, Decide
  <2>5. spent \subseteq spent' /\ (Basis = "grant" => c \in spent')
    BY DEF Judge
  <2>6. UNCHANGED <<started, approved>>
    BY DEF Judge, ProcessorElsewhere
  <2>7. Basis = "grant" => c \in approved /\ started[cur] # NoChallenge /\ started[cur] <= c
    BY <2>1, <2>2 DEF IInv, MessagesVouched, Vouched, InHand, AuthResult, Basis, Judge
  <2>8. ASSUME NEW r \in Requests, grant'[r] # NoChallenge
        PROVE  /\ basis'[r] = "grant" /\ GrantedByUser(r)' /\ grant'[r] \in spent'
               /\ \A q \in Requests \ {r} : grant'[q] # grant'[r]
    <3>1. CASE r = cur
      BY <2>2, <2>4, <2>5, <2>6, <2>7, <2>8, <3>1 DEF IInv, GrantsSound, GrantedByUser
    <3>2. CASE r # cur
      BY <2>1, <2>2, <2>4, <2>5, <2>6, <2>7, <2>8, <3>2 DEF IInv, GrantsSound, GrantedByUser
    <3> QED BY <3>1, <3>2
  <2>9. verifiedAt' > 0 => \E r \in Requests : grant'[r] # NoChallenge
    <3>1. CASE Basis = "grant"
      BY <2>1, <2>2, <2>4, <3>1
    <3>2. CASE Basis # "grant"
      <4>1. verifiedAt' = verifiedAt
        BY <3>2 DEF Judge, MarkVerified, Basis
      <4> QED BY <2>1, <2>4, <4>1 DEF IInv, GrantsSound
    <3> QED BY <3>1, <3>2
  <2> QED BY <2>3, <2>8, <2>9 DEF GrantsSound
<1>6. VerdictsSound'
  <2>1. cur \in Requests /\ basis[cur] = "none" /\ grant[cur] = NoChallenge
    BY DEF IInv, TypeOK, InHand, Judge
  <2>2. GrantedByUser(cur)' \/ ~verdict'
    <3>1. verdict' => grant'[cur] # NoChallenge
      BY <2>1 DEF IInv, TypeOK, Judge, Decide, Basis, Matches, CanPeek
    <3>2. cur' = cur
      BY DEF Judge
    <3> QED BY <1>5, <2>1, <3>1, <3>2 DEF GrantsSound
  <2>3. ASSUME NEW r \in Requests, GrantedByUser(r)
        PROVE  GrantedByUser(r)'
    BY <2>1, <2>3 DEF IInv, TypeOK, GrantedByUser, Judge, ProcessorElsewhere, NoChallenge,
       ChallengeTypeOK
  <2>4. ASSUME NEW r \in Requests, Justified(r)
        PROVE  Justified(r)'
    BY <2>1, <2>3, <2>4 DEF IInv, TypeOK, Justified, Judge, Decide
  <2>5. UNCHANGED <<result, reply, task>>
    BY DEF Judge, ProcessorElsewhere
  <2> QED
    BY <2>1, <2>2, <2>4, <2>5 DEF IInv, VerdictsSound, Justified, Judge
<1> QED BY <1>1, <1>2, <1>3, <1>4, <1>5, <1>6 DEF IInv

LEMMA AnswerKeepsIInv ==
  ASSUME IInv, Answer
  PROVE  IInv'
<1>1. TypeOK'
  BY DEF IInv, TypeOK, SessionTypeOK, ChallengeTypeOK, Answer, ProcessorElsewhere
<1>2. MessagesVouched'
  BY DEF IInv, MessagesVouched, Vouched, Answer, ProcessorElsewhere
<1>3. LineIsFresh'
  <2>1. cur' \notin Requests \/ cur' = cur
    BY DEF IInv, TypeOK, Answer
  <2>2. \A r \in Requests : r # cur => result'[r] = result[r]
    BY DEF IInv, TypeOK, Answer
  <2>3. \A r \in Requests : task[r] \in {"absent", "reading", "sending"} =>
           r # cur
    BY DEF IInv, LineIsFresh
  <2>4. \A i \in 1 .. Len(addQueue) : addQueue[i] \in Requests
    BY DEF IInv, TypeOK
  <2> QED
    BY <2>1, <2>2, <2>3, <2>4 DEF IInv, LineIsFresh, Untouched, Answer, ProcessorElsewhere
<1>4. InHand'
  BY DEF IInv, InHand, Untouched, Cancelled, Answer, ProcessorElsewhere
<1>5. GrantsSound'
  BY DEF IInv, GrantsSound, GrantedByUser, Answer, ProcessorElsewhere
<1>6. VerdictsSound'
  BY DEF IInv, TypeOK, InHand, LineIsFresh, Untouched, GrantsSound, VerdictsSound,
     Justified, GrantedByUser, NoChallenge, Cancelled, ChallengeTypeOK, Answer,
     ProcessorElsewhere
<1> QED BY <1>1, <1>2, <1>3, <1>4, <1>5, <1>6 DEF IInv

-----------------------------------------------------------------------------
(* The GATT handlers. *)

LEMMA WriteDeniedKeepsIInv ==
  ASSUME IInv, NEW w \in Writes, NEW c \in told, WriteDenied(w, c)
  PROVE  IInv'
<1>1. TypeOK'
  <2>1. c \in Nat
    BY DEF IInv, TypeOK, ChallengeTypeOK
  <2>2. Denied(c) \in AuthResult
    BY <2>1 DEF Denied, AuthResult
  <2>3. sending' \in [Writes -> AuthResult \cup {NoResult}] /\ unused' \subseteq Writes
    BY <2>2 DEF IInv, TypeOK, WriteDenied
  <2>4. results' = results /\ WriteElsewhere
    BY DEF WriteDenied
  <2> QED
    BY <2>3, <2>4 DEF IInv, TypeOK, SessionTypeOK, ChallengeTypeOK, WriteElsewhere,
       GattElsewhere
<1>2. MessagesVouched'
  BY DEF IInv, MessagesVouched, Vouched, WriteDenied, WriteElsewhere, GattElsewhere, Denied
<1>3. GrantsSound'
  BY DEF IInv, GrantsSound, GrantedByUser, WriteDenied, WriteElsewhere, GattElsewhere,
     Denied
<1>4. LineIsFresh' /\ InHand' /\ VerdictsSound'
  <2>1. GattElsewhere /\ UNCHANGED <<challenge, approved>>
    BY DEF WriteDenied, WriteElsewhere, challengeVars, watchVars
  <2>2. challenge \in Nat
    BY DEF IInv, TypeOK, ChallengeTypeOK
  <2> QED
    BY <2>1, <2>2, GattFrame
<1> QED BY <1>1, <1>2, <1>3, <1>4 DEF IInv

LEMMA WriteSignatureKeepsIInv ==
  ASSUME IInv, NEW w \in Writes, NEW c \in told, WriteSignature(w, c)
  PROVE  IInv'
<1>1. TypeOK'
  <2>1. challenge \in Nat
    BY DEF IInv, TypeOK, ChallengeTypeOK
  <2>2. Success(challenge) \in AuthResult
    BY <2>1 DEF Success, AuthResult
  <2>3. sending' \in [Writes -> AuthResult \cup {NoResult}] /\ unused' \subseteq Writes
    BY <2>2 DEF IInv, TypeOK, WriteSignature
  <2>4. results' = results /\ WriteElsewhere
    BY DEF WriteSignature
  <2> QED
    BY <2>3, <2>4 DEF IInv, TypeOK, SessionTypeOK, ChallengeTypeOK, WriteElsewhere,
       GattElsewhere
<1>2. MessagesVouched'
  BY DEF IInv, MessagesVouched, Vouched, NoResult, WriteSignature, WriteElsewhere,
     GattElsewhere, Success, CanPeek
<1>3. GrantsSound'
  BY DEF IInv, GrantsSound, GrantedByUser, WriteSignature, WriteElsewhere, GattElsewhere,
     Success, CanPeek
<1>4. LineIsFresh' /\ InHand' /\ VerdictsSound'
  <2>1. GattElsewhere /\ UNCHANGED <<challenge, approved>>
    BY DEF WriteSignature, WriteElsewhere, challengeVars, watchVars
  <2>2. challenge \in Nat
    BY DEF IInv, TypeOK, ChallengeTypeOK
  <2> QED
    BY <2>1, <2>2, GattFrame
<1> QED BY <1>1, <1>2, <1>3, <1>4 DEF IInv

LEMMA SendResultKeepsIInv ==
  ASSUME IInv, NEW w \in Writes, SendResult(w)
  PROVE  IInv'
<1>1. TypeOK'
  <2>1. sending[w] \in AuthResult
    BY DEF IInv, TypeOK, SendResult
  <2>2. results' \in Seq(AuthResult)
    BY <2>1, AppendKeeps DEF IInv, TypeOK, SendResult
  <2> QED
    BY <2>2 DEF IInv, TypeOK, SessionTypeOK, ChallengeTypeOK, SendResult, WriteElsewhere,
       GattElsewhere
<1>2. MessagesVouched'
  <2>1. sending[w] \in AuthResult /\ results \in Seq(AuthResult)
    BY DEF IInv, TypeOK, SendResult
  <2>2. results' = Append(results, sending[w]) /\ approved' = approved
    BY DEF SendResult, WriteElsewhere
  <2>3. ASSUME NEW i \in 1 .. Len(results')
        PROVE  Vouched(results'[i])
    <3>1. CASE i \in 1 .. Len(results)
      BY <2>1, <2>2, <3>1, AppendKeeps DEF IInv, MessagesVouched
    <3>2. CASE i = Len(results) + 1
      BY <2>1, <2>2, <3>2, AppendKeeps DEF IInv, MessagesVouched
    <3> QED BY <2>1, <2>2, <3>1, <3>2, AppendKeeps
  <2>4. \A v \in Writes : Vouched(sending'[v])
    BY DEF IInv, TypeOK, MessagesVouched, Vouched, NoResult, SendResult
  <2>5. held' = held
    BY DEF SendResult, WriteElsewhere, GattElsewhere
  <2> QED
    BY <2>2, <2>3, <2>4, <2>5 DEF IInv, MessagesVouched, Vouched
<1>3. GrantsSound'
  BY DEF IInv, GrantsSound, GrantedByUser, SendResult, WriteElsewhere, GattElsewhere
<1>4. LineIsFresh' /\ InHand' /\ VerdictsSound'
  <2>1. GattElsewhere /\ UNCHANGED <<challenge, approved>>
    BY DEF SendResult, WriteElsewhere, challengeVars, watchVars
  <2>2. challenge \in Nat
    BY DEF IInv, TypeOK, ChallengeTypeOK
  <2> QED
    BY <2>1, <2>2, GattFrame
<1> QED BY <1>1, <1>2, <1>3, <1>4 DEF IInv

LEMMA ReadChallengeKeepsIInv ==
  ASSUME IInv, ReadChallenge
  PROVE  IInv'
<1>1. TypeOK'
  BY DEF IInv, TypeOK, SessionTypeOK, ChallengeTypeOK, ReadChallenge, GattElsewhere, Refresh
<1>2. MessagesVouched'
  BY DEF IInv, MessagesVouched, Vouched, ReadChallenge, GattElsewhere, Refresh
<1>3. GrantsSound'
  BY DEF IInv, TypeOK, InHand, LineIsFresh, Untouched, GrantsSound, GrantedByUser,
     SessionTypeOK, ChallengeTypeOK, NoChallenge, MessagesVouched, Vouched,
     ReadChallenge, GattElsewhere, Refresh
<1>4. LineIsFresh' /\ InHand' /\ VerdictsSound'
  BY GattFrame DEF IInv, TypeOK, ChallengeTypeOK, ReadChallenge, GattElsewhere, Refresh
<1> QED BY <1>1, <1>2, <1>3, <1>4 DEF IInv

LEMMA SubscribeChallengeKeepsIInv ==
  ASSUME IInv, SubscribeChallenge
  PROVE  IInv'
<1>1. TypeOK'
  BY DEF IInv, TypeOK, SessionTypeOK, ChallengeTypeOK, SubscribeChallenge,
     NotifyElsewhere, GattElsewhere
<1>2. MessagesVouched'
  BY DEF IInv, MessagesVouched, Vouched, SubscribeChallenge, NotifyElsewhere, GattElsewhere
<1>3. GrantsSound'
  BY DEF IInv, GrantsSound, GrantedByUser, SubscribeChallenge, NotifyElsewhere,
     GattElsewhere
<1>4. LineIsFresh' /\ InHand' /\ VerdictsSound'
  <2>1. GattElsewhere /\ UNCHANGED <<challenge, approved>>
    BY DEF SubscribeChallenge, NotifyElsewhere, challengeVars, watchVars
  <2>2. challenge \in Nat
    BY DEF IInv, TypeOK, ChallengeTypeOK
  <2> QED
    BY <2>1, <2>2, GattFrame
<1> QED BY <1>1, <1>2, <1>3, <1>4 DEF IInv

LEMMA SubscribeCancelKeepsIInv ==
  ASSUME IInv, SubscribeCancel
  PROVE  IInv'
<1>1. TypeOK'
  BY DEF IInv, TypeOK, SessionTypeOK, ChallengeTypeOK, SubscribeCancel, NotifyElsewhere,
     GattElsewhere
<1>2. MessagesVouched'
  BY DEF IInv, MessagesVouched, Vouched, SubscribeCancel, NotifyElsewhere, GattElsewhere
<1>3. GrantsSound'
  BY DEF IInv, GrantsSound, GrantedByUser, SubscribeCancel, NotifyElsewhere, GattElsewhere
<1>4. LineIsFresh' /\ InHand' /\ VerdictsSound'
  <2>1. GattElsewhere /\ UNCHANGED <<challenge, approved>>
    BY DEF SubscribeCancel, NotifyElsewhere, challengeVars, watchVars
  <2>2. challenge \in Nat
    BY DEF IInv, TypeOK, ChallengeTypeOK
  <2> QED
    BY <2>1, <2>2, GattFrame
<1> QED BY <1>1, <1>2, <1>3, <1>4 DEF IInv

LEMMA NotifyChallengeKeepsIInv ==
  ASSUME IInv, NotifyChallenge
  PROVE  IInv'
<1>1. TypeOK'
  <2>1. notifyHandlers > 0 => notifyHandlers - 1 \in 0 .. MaxHandlers
    BY DEF IInv, TypeOK
  <2>2. notifyHandlers' \in 0 .. MaxHandlers
    BY <2>1 DEF IInv, TypeOK, NotifyChallenge, NotifyHandlerEnds, notifyVars
  <2>3. told' \subseteq 1 .. issued /\ approved \subseteq told'
    <3>1. challenge # NoChallenge => challenge \in 1 .. issued
      BY DEF IInv, TypeOK, ChallengeTypeOK, NoChallenge
    <3>2. told' = told \/ (challenge # NoChallenge /\ told' = told \cup {challenge})
      BY DEF CanPeek, NotifyChallenge
    <3>3. told \subseteq 1 .. issued /\ approved \subseteq told
      BY DEF IInv, TypeOK
    <3> QED
      BY <3>1, <3>2, <3>3
  <2>4. notifyReady' \in BOOLEAN
    BY DEF IInv, TypeOK, NotifyChallenge, NotifyHandlerEnds, notifyVars
  <2> QED
    BY <2>2, <2>3, <2>4 DEF IInv, TypeOK, SessionTypeOK, ChallengeTypeOK, NotifyChallenge,
       NotifyElsewhere, GattElsewhere
<1>2. MessagesVouched'
  BY DEF IInv, MessagesVouched, Vouched, NotifyChallenge, NotifyElsewhere, GattElsewhere,
     CanPeek, NotifyHandlerEnds
<1>3. GrantsSound'
  BY DEF IInv, GrantsSound, GrantedByUser, NotifyChallenge, NotifyElsewhere,
     GattElsewhere, CanPeek, NotifyHandlerEnds
<1>4. LineIsFresh' /\ InHand' /\ VerdictsSound'
  BY GattFrame DEF IInv, TypeOK, ChallengeTypeOK, NotifyChallenge, NotifyElsewhere,
     GattElsewhere
<1> QED BY <1>1, <1>2, <1>3, <1>4 DEF IInv

LEMMA LoseChallengeKeepsIInv ==
  ASSUME IInv, LoseChallenge
  PROVE  IInv'
<1>1. TypeOK'
  <2>1. notifyHandlers > 0 => notifyHandlers - 1 \in 0 .. MaxHandlers
    BY DEF IInv, TypeOK
  <2>2. notifyHandlers' \in 0 .. MaxHandlers
    BY <2>1 DEF IInv, TypeOK, LoseChallenge, NotifyHandlerEnds, notifyVars
  <2>3. told' \subseteq 1 .. issued /\ approved \subseteq told'
    BY DEF IInv, TypeOK, ChallengeTypeOK, CanPeek, NoChallenge, LoseChallenge,
     NotifyElsewhere
  <2>4. notifyReady' \in BOOLEAN
    BY DEF IInv, TypeOK, LoseChallenge, NotifyHandlerEnds, notifyVars
  <2> QED
    BY <2>2, <2>3, <2>4 DEF IInv, TypeOK, SessionTypeOK, ChallengeTypeOK, LoseChallenge,
       NotifyElsewhere, GattElsewhere
<1>2. MessagesVouched'
  BY DEF IInv, MessagesVouched, Vouched, LoseChallenge, NotifyElsewhere, GattElsewhere,
     NotifyHandlerEnds
<1>3. GrantsSound'
  BY DEF IInv, GrantsSound, GrantedByUser, LoseChallenge, NotifyElsewhere, GattElsewhere,
     NotifyHandlerEnds
<1>4. LineIsFresh' /\ InHand' /\ VerdictsSound'
  <2>1. GattElsewhere /\ UNCHANGED <<challenge, approved>>
    BY DEF LoseChallenge, NotifyElsewhere, challengeVars, watchVars
  <2>2. challenge \in Nat
    BY DEF IInv, TypeOK, ChallengeTypeOK
  <2> QED
    BY <2>1, <2>2, GattFrame
<1> QED BY <1>1, <1>2, <1>3, <1>4 DEF IInv

LEMMA NotifyCancelKeepsIInv ==
  ASSUME IInv, NotifyCancel
  PROVE  IInv'
<1>1. TypeOK'
  <2>1. cancelQueue' \in Seq(Nat)
    BY TailKeeps DEF IInv, TypeOK, NotifyCancel
  <2> QED
    BY <2>1 DEF IInv, TypeOK, SessionTypeOK, ChallengeTypeOK, NotifyCancel,
       NotifyElsewhere, GattElsewhere
<1>2. MessagesVouched'
  BY DEF IInv, MessagesVouched, Vouched, NotifyCancel, NotifyElsewhere, GattElsewhere
<1>3. GrantsSound'
  BY DEF IInv, GrantsSound, GrantedByUser, NotifyCancel, NotifyElsewhere, GattElsewhere
<1>4. LineIsFresh' /\ InHand' /\ VerdictsSound'
  <2>1. GattElsewhere /\ UNCHANGED <<challenge, approved>>
    BY DEF NotifyCancel, NotifyElsewhere, challengeVars, watchVars
  <2>2. challenge \in Nat
    BY DEF IInv, TypeOK, ChallengeTypeOK
  <2> QED
    BY <2>1, <2>2, GattFrame
<1> QED BY <1>1, <1>2, <1>3, <1>4 DEF IInv

LEMMA LoseCancelKeepsIInv ==
  ASSUME IInv, LoseCancel
  PROVE  IInv'
<1>1. TypeOK'
  <2>1. cancelHandlers' \in 0 .. MaxHandlers
    BY DEF IInv, TypeOK, LoseCancel
  <2>2. cancelQueue' \in Seq(Nat)
    BY TailKeeps DEF IInv, TypeOK, LoseCancel
  <2>3. UNCHANGED <<task, left, reply, result, addQueue, results, notifyReady,
                    notifyHandlers, startPermit, queue, pc, cur, verdict, held, unused,
                    sending, reads, told, approved, started, grant, basis, spent, late,
                    issued>>
    BY DEF LoseCancel, NotifyElsewhere, GattElsewhere, handlerVars, notifyVars,
       processorVars, writeVars, historyVars, challengeVars
  <2>4. SessionTypeOK' /\ ChallengeTypeOK'
    BY DEF IInv, TypeOK, SessionTypeOK, ChallengeTypeOK, LoseCancel, NotifyElsewhere,
       GattElsewhere
  <2>5. cancelReady' \in BOOLEAN
    BY DEF LoseCancel
  <2> QED
    BY <2>1, <2>2, <2>3, <2>4, <2>5 DEF IInv, TypeOK
<1>2. MessagesVouched'
  BY DEF IInv, MessagesVouched, Vouched, LoseCancel, NotifyElsewhere, GattElsewhere
<1>3. GrantsSound'
  BY DEF IInv, GrantsSound, GrantedByUser, LoseCancel, NotifyElsewhere, GattElsewhere
<1>4. LineIsFresh' /\ InHand' /\ VerdictsSound'
  <2>1. GattElsewhere /\ UNCHANGED <<challenge, approved>>
    BY DEF LoseCancel, NotifyElsewhere, challengeVars, watchVars
  <2>2. challenge \in Nat
    BY DEF IInv, TypeOK, ChallengeTypeOK
  <2> QED
    BY <2>1, <2>2, GattFrame
<1> QED BY <1>1, <1>2, <1>3, <1>4 DEF IInv

LEMMA ApproveKeepsIInv ==
  ASSUME IInv, NEW c \in told, Approve(c)
  PROVE  IInv'
<1>1. TypeOK'
  <2>1. approved' \subseteq told
    BY DEF IInv, TypeOK, Approve
  <2>2. UNCHANGED <<task, left, reply, result, addQueue, results, cancelQueue, notifyReady,
                    notifyHandlers, cancelReady, cancelHandlers, startPermit, queue, pc,
                    cur, verdict, held, unused, sending, reads, told, started, grant,
                    basis, spent, late, issued>>
    BY DEF Approve, GattElsewhere, handlerVars, notifyVars, cancelVars, processorVars,
       writeVars, historyVars, challengeVars
  <2>3. SessionTypeOK' /\ ChallengeTypeOK'
    BY DEF IInv, TypeOK, SessionTypeOK, ChallengeTypeOK, Approve, GattElsewhere
  <2> QED
    BY <2>1, <2>2, <2>3 DEF IInv, TypeOK
<1>2. MessagesVouched'
  BY DEF IInv, MessagesVouched, Vouched, Approve, GattElsewhere
<1>3. GrantsSound'
  BY DEF IInv, GrantsSound, GrantedByUser, Approve, GattElsewhere
<1>4. LineIsFresh' /\ InHand' /\ VerdictsSound'
  <2>1. GattElsewhere /\ challenge' = challenge /\ approved \subseteq approved'
    BY DEF Approve, challengeVars
  <2>2. challenge \in Nat
    BY DEF IInv, TypeOK, ChallengeTypeOK
  <2> QED
    BY <2>1, <2>2, GattFrame
<1> QED BY <1>1, <1>2, <1>3, <1>4 DEF IInv

-----------------------------------------------------------------------------
(* The clock. *)

LEMMA ClockKeepsIInv ==
  ASSUME IInv, Clock
  PROVE  IInv'
<1>1. TypeOK'
  <2>1. SessionTypeOK'
    <3>1. CASE Tick
      BY <3>1 DEF IInv, TypeOK, SessionTypeOK, Tick, BeforeEpoch
    <3>2. CASE \E t \in BeforeEpoch .. MaxTime : SetClock(t)
      BY <3>2 DEF IInv, TypeOK, SessionTypeOK, SetClock
    <3> QED BY <3>1, <3>2 DEF Clock
  <2> QED
    BY <2>1 DEF IInv, TypeOK, ChallengeTypeOK, Clock
<1>2. MessagesVouched'
  BY DEF IInv, MessagesVouched, Vouched, Clock, Tick, SetClock
<1>3. LineIsFresh'
  BY DEF IInv, LineIsFresh, Untouched, Clock, Tick, SetClock
<1>4. InHand'
  BY DEF IInv, InHand, Untouched, Cancelled, Clock, Tick, SetClock
<1>5. GrantsSound'
  BY DEF IInv, GrantsSound, GrantedByUser, Clock, Tick, SetClock
<1>6. VerdictsSound'
  BY DEF IInv, VerdictsSound, Justified, GrantedByUser, Clock, Tick, SetClock
<1> QED BY <1>1, <1>2, <1>3, <1>4, <1>5, <1>6 DEF IInv

-----------------------------------------------------------------------------
LEMMA NextKeepsIInv == IInv /\ [Next]_vars => IInv'
<1> SUFFICES ASSUME IInv, [Next]_vars PROVE IInv'
  OBVIOUS
<1>1. CASE \E r \in Requests : ClientStep(r) \/ HandlerStep(r)
  BY <1>1, AcceptKeepsIInv, ReceiveIdentityKeepsIInv, LoseIdentityKeepsIInv,
     EnqueueKeepsIInv,
     ClientLeavesKeepsIInv, HandleClientMessageKeepsIInv, DeliverResultKeepsIInv
     DEF ClientStep, HandlerStep
<1>2. CASE PromptStep
  <2>1. notifyReady \in BOOLEAN /\ cancelReady \in BOOLEAN
    BY DEF IInv, TypeOK
  <2>2. CheckReady("ready", notifyReady, "cancelReady") => IInv'
    BY <2>1, CheckReadyKeepsIInv
  <2>3. CheckReady("cancelReady", cancelReady, "drain") => IInv'
    BY <2>1, CheckReadyKeepsIInv
  <2> QED
    BY <1>2, <2>2, <2>3, ReceiveKeepsIInv, CheckCancelledKeepsIInv, CheckSessionKeepsIInv,
       DrainKeepsIInv, RefreshChallengeKeepsIInv, TriggerKeepsIInv, WaitCancelledKeepsIInv,
       SendCancelKeepsIInv, PollKeepsIInv, WaitResultKeepsIInv, JudgeKeepsIInv,
       AnswerKeepsIInv
       DEF PromptStep
<1>3. CASE WaitTimeout
  BY <1>3, WaitTimeoutKeepsIInv
<1>4. CASE \E w \in Writes : WriteStep(w)
  BY <1>4, WriteDeniedKeepsIInv, WriteSignatureKeepsIInv, SendResultKeepsIInv DEF WriteStep
<1>5. CASE WatchStep
  BY <1>5, ApproveKeepsIInv, ReadChallengeKeepsIInv, SubscribeChallengeKeepsIInv,
     SubscribeCancelKeepsIInv DEF WatchStep
<1>6. CASE NotifyStep
  BY <1>6, NotifyChallengeKeepsIInv, LoseChallengeKeepsIInv, NotifyCancelKeepsIInv,
     LoseCancelKeepsIInv DEF NotifyStep
<1>7. CASE Clock
  BY <1>7, ClockKeepsIInv
<1>8. CASE UNCHANGED vars
  <2>1. TypeOK'
    BY <1>8 DEF vars, IInv, TypeOK, SessionTypeOK, ChallengeTypeOK
  <2>2. MessagesVouched' /\ GrantsSound'
    BY <1>8 DEF vars, IInv, MessagesVouched, Vouched, GrantsSound, GrantedByUser
  <2>3. LineIsFresh' /\ InHand'
    BY <1>8 DEF vars, IInv, LineIsFresh, InHand, Untouched, Cancelled
  <2>4. VerdictsSound'
    BY <1>8 DEF vars, IInv, VerdictsSound, Justified, GrantedByUser
  <2> QED BY <2>1, <2>2, <2>3, <2>4 DEF IInv
<1> QED BY <1>1, <1>2, <1>3, <1>4, <1>5, <1>6, <1>7, <1>8 DEF Next

-----------------------------------------------------------------------------
(***************************************************************************)
(* Nothing is lost, and what was cancelled decides nothing.                *)
(***************************************************************************)
\* What loses no request: the line stays, an answer stays, and the processor lets go
\* of nothing but what it has answered.
LEMMA LineKept ==
  ASSUME NoRequestLost, UNCHANGED <<addQueue, queue>>,
         \A r \in Requests : task'[r] = "selecting" => task[r] = "selecting",
         \A r \in Requests : result[r] # "none" => result'[r] # "none",
         cur' = cur \/ cur = NoRequest \/ result'[cur] # "none"
  PROVE  NoRequestLost'
BY DEF NoRequestLost, Waiting

LEMMA EnqueueLosesNothing ==
  ASSUME IInv, NoRequestLost, NEW r \in Requests, Enqueue(r)
  PROVE  NoRequestLost'
<1>1. addQueue \in Seq(Requests) /\ addQueue' = Append(addQueue, r)
  BY DEF IInv, TypeOK, Enqueue
<1>2. /\ \A i \in 1 .. Len(addQueue) : i \in 1 .. Len(addQueue') /\ addQueue'[i] = addQueue[i]
      /\ Len(addQueue') \in 1 .. Len(addQueue') /\ addQueue'[Len(addQueue')] = r
  BY <1>1, AppendKeeps
<1>3. r \in Waiting'
  BY <1>2 DEF Waiting
<1>4. \A q \in Waiting : q \in Waiting'
  BY <1>2 DEF Waiting, Enqueue, HandlerElsewhere
<1>5. \A q \in Requests : q # r => task'[q] = task[q]
  BY DEF Enqueue, IInv, TypeOK
<1> QED BY <1>3, <1>4, <1>5 DEF NoRequestLost, Enqueue, HandlerElsewhere

LEMMA ReceiveLosesNothing ==
  ASSUME IInv, NoRequestLost, Receive
  PROVE  NoRequestLost'
<1>1. /\ addQueue \in Seq(Requests) /\ addQueue # <<>> /\ queue = <<>>
      /\ addQueue' = Tail(addQueue) /\ cur' = Head(addQueue) /\ cur = NoRequest
      /\ result' = result /\ task' = task
  BY ReceiveTakesHead DEF IInv, TypeOK, LineIsFresh, Receive, ProcessorElsewhere
<1>2. \A i \in 1 .. Len(addQueue) :
        addQueue[i] = cur' \/ (i - 1 \in 1 .. Len(addQueue') /\ addQueue'[i - 1] = addQueue[i])
  <2> TAKE i \in 1 .. Len(addQueue)
  <2>1. /\ cur' = addQueue[1] /\ Len(addQueue') = Len(addQueue) - 1 /\ Len(addQueue) \in Nat
        /\ \A j \in 1 .. Len(addQueue') : addQueue'[j] = addQueue[j + 1]
    BY <1>1, TailKeeps
  <2>2. CASE i = 1
    BY <2>1, <2>2
  <2>3. CASE i # 1
    <3>1. i - 1 \in 1 .. Len(addQueue') /\ (i - 1) + 1 = i
      BY <2>1, <2>3
    <3> QED BY <2>1, <3>1
  <2> QED BY <2>2, <2>3
<1>3. \A r \in Requests : r \in Waiting => r = cur' \/ r \in Waiting'
  BY <1>1, <1>2 DEF Waiting
<1> QED BY <1>1, <1>3 DEF NoRequestLost, ProcessorAssumption

LEMMA NextLosesNothing == IInv /\ NoRequestLost /\ [Next]_vars => NoRequestLost'
<1> SUFFICES ASSUME IInv, NoRequestLost, [Next]_vars PROVE NoRequestLost'
  OBVIOUS
<1> USE DEF IInv, TypeOK
<1>1. ASSUME NEW r \in Requests, ClientStep(r) \/ HandlerStep(r) PROVE NoRequestLost'
  <2>1. CASE Enqueue(r)
    BY <2>1, EnqueueLosesNothing
  <2>2. CASE Accept(r) \/ ReceiveIdentity(r) \/ LoseIdentity(r) \/ ClientLeaves(r)
               \/ HandleClientMessage(r) \/ DeliverResult(r)
    BY <2>2, LineKept DEF Accept, ReceiveIdentity, LoseIdentity, ClientLeaves,
       HandleClientMessage, DeliverResult, HandlerElsewhere
  <2> QED BY <1>1, <2>1, <2>2 DEF ClientStep, HandlerStep
<1>2. CASE Receive
  BY <1>2, ReceiveLosesNothing
<1>3. ASSUME NEW here, NEW ready, NEW next, CheckReady(here, ready, next)
      PROVE  NoRequestLost'
  BY <1>3, LineKept DEF CheckReady, Decide, ProcessorElsewhere
<1>4. CASE CheckCancelled \/ WaitCancelled \/ SendCancel \/ PollCancel \/ PollPending
  BY <1>4, LineKept DEF CheckCancelled, WaitCancelled, SendCancel, PollCancel, PollPending,
     Drop, ProcessorElsewhere
<1>5. CASE CheckSession \/ Drain \/ RefreshChallenge \/ Trigger \/ WaitResult \/ WaitTimeout
             \/ Judge
  BY <1>5, LineKept DEF CheckSession, Drain, RefreshChallenge, Trigger, WaitResult,
     WaitTimeout, Judge, Decide, ProcessorElsewhere
<1>6. CASE Answer
  BY <1>6, LineKept DEF Answer, ProcessorElsewhere
<1>7. CASE (\E w \in Writes : WriteStep(w)) \/ WatchStep \/ NotifyStep
  <2>1. GattElsewhere
    BY <1>7 DEF WriteStep, WriteDenied, WriteSignature, SendResult, WriteElsewhere,
       WatchStep, Approve, ReadChallenge, SubscribeChallenge, SubscribeCancel, NotifyStep,
       NotifyChallenge, LoseChallenge, NotifyCancel, LoseCancel, NotifyElsewhere
  <2> QED BY <2>1, LineKept DEF GattElsewhere
<1>8. CASE Clock
  BY <1>8, LineKept DEF Clock
<1>9. CASE UNCHANGED vars
  BY <1>9, LineKept DEF vars
<1> QED BY <1>1, <1>2, <1>3, <1>4, <1>5, <1>6, <1>7, <1>8, <1>9 DEF Next, PromptStep

\* What leaves the cancellations old: nobody takes a challenge, and no request comes
\* to wait for the watch.
LEMMA OldKept ==
  ASSUME IInv, CancelsAreOld, UNCHANGED <<cancelQueue, spent>>,
         issued' \in Nat, issued <= issued',
         pc' = "sendCancel" => pc = "sendCancel" /\ held' = held,
         pc' \in {"trigger", "wait", "poll", "judge"} =>
             pc \in {"trigger", "wait", "poll", "judge"} /\ UNCHANGED <<cur, started>>
  PROVE  CancelsAreOld'
BY DEF IInv, TypeOK, ChallengeTypeOK, CancelsAreOld

LEMMA RefreshLeavesOld ==
  ASSUME IInv, CancelsAreOld, RefreshChallenge
  PROVE  CancelsAreOld'
<1>1. /\ pc' = "trigger" /\ cur' = cur /\ cur \in Requests /\ issued \in Nat
      /\ issued' = issued + 1 /\ started'[cur] = issued + 1
      /\ UNCHANGED <<cancelQueue, spent>>
  BY DEF IInv, TypeOK, ChallengeTypeOK, RefreshChallenge, Refresh
<1> QED BY <1>1 DEF CancelsAreOld

LEMMA SendLeavesOld ==
  ASSUME IInv, CancelsAreOld, SendCancel
  PROVE  CancelsAreOld'
<1>1. /\ held.challenge \in (1 .. issued) \ spent /\ cancelQueue \in Seq(Nat)
      /\ cancelQueue' = Append(cancelQueue, held.challenge) /\ pc' = "idle"
      /\ UNCHANGED <<issued, spent>> /\ issued \in Nat
  BY DEF IInv, TypeOK, ChallengeTypeOK, CancelsAreOld, SendCancel, Drop
<1>2. \A i \in 1 .. Len(cancelQueue') :
         \/ cancelQueue'[i] = held.challenge
         \/ i \in 1 .. Len(cancelQueue) /\ cancelQueue'[i] = cancelQueue[i]
  BY <1>1, AppendKeeps
<1> QED BY <1>1, <1>2 DEF CancelsAreOld

\* What the processor takes is the challenge of the slot, which is newer.
LEMMA JudgeLeavesOld ==
  ASSUME IInv, CancelsAreOld, Judge
  PROVE  CancelsAreOld'
<1>1. /\ pc = "judge" /\ pc' = "answer" /\ UNCHANGED <<cancelQueue, issued>>
      /\ cur \in Requests /\ started[cur] <= challenge /\ challenge \in Nat
      /\ started[cur] \in Nat /\ issued \in Nat
  BY DEF IInv, TypeOK, ChallengeTypeOK, InHand, Judge, Decide, TakeIfMatches
<1>2. spent' = spent \/ spent' = spent \cup {challenge}
  BY DEF Judge, Basis, Matches
<1>3. \A i \in 1 .. Len(cancelQueue) : cancelQueue[i] < challenge
  BY <1>1 DEF CancelsAreOld
<1> QED BY <1>1, <1>2, <1>3 DEF CancelsAreOld

LEMMA NotifyLeavesOld ==
  ASSUME IInv, CancelsAreOld, NotifyCancel \/ LoseCancel
  PROVE  CancelsAreOld'
<1>1. /\ cancelQueue \in Seq(Nat) /\ cancelQueue # <<>> /\ cancelQueue' = Tail(cancelQueue)
      /\ UNCHANGED <<issued, spent, pc, held, cur, started>>
  BY DEF IInv, TypeOK, NotifyCancel, LoseCancel, NotifyElsewhere, GattElsewhere
<1>2. \A i \in 1 .. Len(cancelQueue') :
         i + 1 \in 1 .. Len(cancelQueue) /\ cancelQueue'[i] = cancelQueue[i + 1]
  BY <1>1, TailKeeps
<1> QED BY <1>1, <1>2 DEF CancelsAreOld

LEMMA NextLeavesOld == IInv /\ CancelsAreOld /\ [Next]_vars => CancelsAreOld'
<1> SUFFICES ASSUME IInv, CancelsAreOld, [Next]_vars PROVE CancelsAreOld'
  OBVIOUS
<1>0. issued \in Nat
  BY DEF IInv, TypeOK, ChallengeTypeOK
<1>1. ASSUME NEW r \in Requests, ClientStep(r) \/ HandlerStep(r) PROVE CancelsAreOld'
  <2>1. HandlerElsewhere
    BY <1>1 DEF ClientStep, HandlerStep, Accept, ReceiveIdentity, LoseIdentity, Enqueue,
       ClientLeaves, HandleClientMessage, DeliverResult
  <2> QED BY <1>0, <2>1, OldKept DEF HandlerElsewhere
<1>2. CASE Receive
  BY <1>0, <1>2, ReceiveTakesHead, OldKept DEF Receive
<1>3. CASE CheckReady("ready", notifyReady, "cancelReady")
             \/ CheckReady("cancelReady", cancelReady, "drain")
  BY <1>0, <1>3, OldKept DEF CheckReady, Decide
<1>4. CASE CheckCancelled \/ CheckSession \/ Drain \/ Answer
  BY <1>0, <1>4, OldKept DEF CheckCancelled, Drop, CheckSession, Decide, Drain, Answer
<1>5. CASE Trigger \/ PollCancel \/ PollPending \/ WaitResult \/ WaitTimeout
  BY <1>0, <1>5, OldKept DEF Trigger, PollCancel, PollPending, WaitResult, WaitTimeout,
     Decide
<1>6. CASE WaitCancelled
  <2>1. /\ UNCHANGED <<issued, spent, cancelQueue>> /\ challenge \in 0 .. issued
        /\ challenge \notin spent
        /\ \/ pc' = "idle"
           \/ pc' = "sendCancel" /\ held' = Cancel(challenge) /\ challenge # 0
    BY <1>6 DEF WaitCancelled, Drop, CanPeek, NoChallenge, IInv, TypeOK, ChallengeTypeOK,
                GrantsSound
  <2> QED BY <1>0, <2>1 DEF CancelsAreOld, Cancel
<1>7. CASE (\E w \in Writes : WriteStep(w)) \/ WatchStep \/ NotifyChallenge \/ LoseChallenge
  <2>1. /\ GattElsewhere /\ cancelQueue' = cancelQueue
        /\ issued' = issued \/ issued' = issued + 1
    BY <1>7 DEF WriteStep, WriteDenied, WriteSignature, SendResult, WriteElsewhere,
       WatchStep, Approve, ReadChallenge, Refresh, SubscribeChallenge, SubscribeCancel,
       NotifyChallenge, LoseChallenge, NotifyElsewhere
  <2> QED BY <1>0, <2>1, OldKept DEF GattElsewhere
<1>8. CASE NotifyCancel \/ LoseCancel
  BY <1>8, NotifyLeavesOld
<1>9. CASE Clock
  BY <1>0, <1>9, OldKept DEF Clock
<1>10. CASE UNCHANGED vars
  BY <1>0, <1>10, OldKept DEF vars
<1> QED BY <1>1, <1>2, <1>3, <1>4, <1>5, <1>6, <1>7, <1>8, <1>9, <1>10, RefreshLeavesOld,
           SendLeavesOld, JudgeLeavesOld DEF Next, PromptStep, NotifyStep

-----------------------------------------------------------------------------
(***************************************************************************)
(* A request whose client is gone.                                         *)
(***************************************************************************)
\* The processor is past it, or about to find that its client is gone, and nothing
\* puts it in line again.
GivenUp(r) ==
    /\ Cancelled(r)
    /\ basis[r] = "none"
    /\ cur = r => pc \in {"wait", "sendCancel"}
    /\ r \notin Waiting

LEMMA GoneIsGivenUp ==
  ASSUME IInv, NEW r \in Requests, cur = r, pc = "wait", Cancelled(r)
  PROVE  GivenUp(r)
BY DEF IInv, InHand, LineIsFresh, Waiting, GivenUp

\* What gives nobody up again: the line stays, and the request is not in hand.
LEMMA GivenUpKept ==
  ASSUME NEW r \in Requests, GivenUp(r), UNCHANGED <<task, addQueue, queue>>,
         basis'[r] = basis[r],
         cur' = r => cur = r /\ pc' \in {"wait", "sendCancel"}
  PROVE  GivenUp(r)'
BY DEF GivenUp, Cancelled, Waiting

LEMMA EnqueueKeepsGivenUp ==
  ASSUME IInv, NEW r \in Requests, GivenUp(r), NEW q \in Requests, Enqueue(q)
  PROVE  GivenUp(r)'
<1>1. /\ addQueue \in Seq(Requests) /\ addQueue' = Append(addQueue, q) /\ q # r
      /\ task'[r] = task[r] /\ UNCHANGED <<queue, basis, cur, pc>>
  BY DEF IInv, TypeOK, Enqueue, HandlerElsewhere, processorVars, historyVars, GivenUp,
         Cancelled
<1>2. \A i \in 1 .. Len(addQueue') :
         \/ addQueue'[i] = q
         \/ i \in 1 .. Len(addQueue) /\ addQueue'[i] = addQueue[i]
  BY <1>1, AppendKeeps
<1>3. r \notin Waiting'
  BY <1>1, <1>2 DEF GivenUp, Waiting
<1> QED BY <1>1, <1>3 DEF GivenUp, Cancelled

LEMMA ReceiveKeepsGivenUp ==
  ASSUME IInv, NEW r \in Requests, GivenUp(r), Receive
  PROVE  GivenUp(r)'
<1>1. /\ addQueue \in Seq(Requests) /\ addQueue # <<>> /\ queue = <<>> /\ queue' = <<>>
      /\ addQueue' = Tail(addQueue) /\ cur' = Head(addQueue)
      /\ UNCHANGED <<basis, task>>
  BY ReceiveTakesHead DEF IInv, TypeOK, LineIsFresh, Receive, ProcessorElsewhere
<1>2. /\ Head(addQueue) = addQueue[1] /\ 1 \in 1 .. Len(addQueue)
      /\ \A i \in 1 .. Len(addQueue') :
           i + 1 \in 1 .. Len(addQueue) /\ addQueue'[i] = addQueue[i + 1]
  BY <1>1, TailKeeps
<1>3. cur' # r /\ r \notin Waiting'
  BY <1>1, <1>2 DEF GivenUp, Waiting
<1> QED BY <1>1, <1>3 DEF GivenUp, Cancelled

LEMMA NextKeepsGivenUp ==
  ASSUME IInv, NEW r \in Requests, GivenUp(r), [Next]_vars
  PROVE  GivenUp(r)'
<1> USE DEF IInv, TypeOK
<1>1. ASSUME NEW q \in Requests, ClientStep(q) \/ HandlerStep(q) PROVE GivenUp(r)'
  <2>1. CASE Enqueue(q)
    BY <2>1, EnqueueKeepsGivenUp
  <2>2. CASE Accept(q) \/ ReceiveIdentity(q) \/ LoseIdentity(q) \/ ClientLeaves(q)
               \/ HandleClientMessage(q) \/ DeliverResult(q)
    <3>1. task'[r] = "done" /\ UNCHANGED addQueue /\ HandlerElsewhere
      BY <2>2 DEF Accept, ReceiveIdentity, LoseIdentity, ClientLeaves, HandleClientMessage,
         DeliverResult, GivenUp, Cancelled
    <3> QED BY <3>1 DEF HandlerElsewhere, GivenUp, Cancelled, Waiting
  <2> QED BY <1>1, <2>1, <2>2 DEF ClientStep, HandlerStep
<1>2. CASE Receive
  BY <1>2, ReceiveKeepsGivenUp
<1>3. ASSUME NEW here \in {"ready", "cancelReady"}, NEW ready, NEW next,
             CheckReady(here, ready, next)
      PROVE  GivenUp(r)'
  BY <1>3, GivenUpKept DEF CheckReady, Decide, ProcessorElsewhere, GivenUp
<1>4. CASE CheckCancelled \/ WaitCancelled \/ SendCancel \/ PollCancel \/ PollPending
  BY <1>4, GivenUpKept DEF CheckCancelled, WaitCancelled, SendCancel, PollCancel,
     PollPending, Drop, ProcessorElsewhere, ProcessorAssumption, GivenUp
<1>5. CASE CheckSession \/ Drain \/ RefreshChallenge \/ Trigger \/ WaitResult \/ WaitTimeout
             \/ Judge
  BY <1>5, GivenUpKept DEF CheckSession, Drain, RefreshChallenge, Trigger, WaitResult,
     WaitTimeout, Judge, Decide, ProcessorElsewhere, GivenUp
<1>6. CASE Answer
  BY <1>6, GivenUpKept DEF Answer, ProcessorElsewhere, ProcessorAssumption
<1>7. CASE (\E w \in Writes : WriteStep(w)) \/ WatchStep \/ NotifyStep
  <2>1. GattElsewhere
    BY <1>7 DEF WriteStep, WriteDenied, WriteSignature, SendResult, WriteElsewhere,
       WatchStep, Approve, ReadChallenge, SubscribeChallenge, SubscribeCancel, NotifyStep,
       NotifyChallenge, LoseChallenge, NotifyCancel, LoseCancel, NotifyElsewhere
  <2> QED BY <2>1, GivenUpKept DEF GattElsewhere, GivenUp
<1>8. CASE Clock
  BY <1>8, GivenUpKept DEF Clock, GivenUp
<1>9. CASE UNCHANGED vars
  BY <1>9, GivenUpKept DEF vars, GivenUp
<1> QED BY <1>1, <1>2, <1>3, <1>4, <1>5, <1>6, <1>7, <1>8, <1>9 DEF Next, PromptStep

-----------------------------------------------------------------------------
(* The invariant, and what follows from it. *)

\* IInv holds in every reachable state of every instance.
THEOREM Invariance == Spec => []IInv
<1> QED BY InitIInv, NextKeepsIInv, PTL DEF Spec

\* Every variable keeps its type: what the tasks store, send and receive.
THEOREM TypeCorrect == Spec => []TypeOK
<1>1. IInv => TypeOK
  BY DEF IInv
<1> QED BY <1>1, Invariance, PTL

\* The daemon answers success only for a request the user approved after it was
\* made, or within the session that such an approval opened.
THEOREM SuccessJustified == Spec => []SuccessIsJustified
<1>1. IInv => SuccessIsJustified
  BY DEF IInv, VerdictsSound, Justified, SuccessIsJustified
<1> QED BY <1>1, Invariance, PTL

\* One approval of the user's grants one request, and a challenge that was taken
\* is never current again.
THEOREM ChallengeDecides == Spec => []ChallengeDecidesOnce
<1>1. IInv => ChallengeDecidesOnce
  BY DEF IInv, GrantsSound, ChallengeDecidesOnce
<1> QED BY <1>1, Invariance, PTL

\* A client that waits for its answer has a processor that still owes it one.
THEOREM NothingDropped == Spec => []NoRequestDropped
<1>1. IInv => NoRequestDropped
  BY DEF IInv, VerdictsSound, NoRequestDropped
<1> QED BY <1>1, Invariance, PTL

\* No request falls between the line, the processor's hand and its client's channel.
THEOREM NothingLost == Spec => []NoRequestLost
<1>1. Init => NoRequestLost
  BY DEF Init, NoRequestLost
<1> QED BY <1>1, NextLosesNothing, Invariance, PTL DEF Spec

\* However late the watch hears of a cancellation, its challenge decides nothing.
THEOREM CancelledNeverDecides == Spec => []CancelledDecidesNothing
<1>1. Init => CancelsAreOld
  BY DEF Init, CancelsAreOld
<1>2. CancelsAreOld => CancelledDecidesNothing
  BY DEF CancelsAreOld, CancelledDecidesNothing
<1> QED BY <1>1, <1>2, NextLeavesOld, Invariance, PTL DEF Spec

\* The processor only waits for the watch with a challenge drawn for the request
\* in hand, or since.
THEOREM FreshChallenge == Spec => []WaitsOnFreshChallenge
<1>1. IInv => WaitsOnFreshChallenge
  BY DEF IInv, InHand, WaitsOnFreshChallenge
<1> QED BY <1>1, Invariance, PTL

\* Whatever the watch has answered, and however late, it decides nothing for a client
\* that was gone before the processor polled; nor does the timeout.
THEOREM GoneDecidesNothing == Spec => GoneClientDecidesNothing
<1> SUFFICES ASSUME NEW r \in Requests
             PROVE  Spec => [](cur = r /\ pc = "wait" /\ Cancelled(r) => [](basis[r] = "none"))
  BY DEF GoneClientDecidesNothing
<1>1. IInv /\ cur = r /\ pc = "wait" /\ Cancelled(r) => GivenUp(r)
  BY GoneIsGivenUp
<1>2. IInv /\ GivenUp(r) /\ [Next]_vars => GivenUp(r)'
  BY NextKeepsGivenUp
<1>3. GivenUp(r) => basis[r] = "none"
  BY DEF GivenUp
<1> QED BY <1>1, <1>2, <1>3, Invariance, PTL DEF Spec
=============================================================================
