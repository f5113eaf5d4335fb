------------------------- MODULE AuthContractProofs -------------------------
(***************************************************************************)
(* AuthProcessor implements AuthContract: every step of a task of the      *)
(* daemon is a step of the contract, or leaves what it speaks of alone.    *)
(***************************************************************************)
EXTENDS AuthProcessorProofs

USE DEF sessionVars, challengeVars, handlerVars, notifyVars, cancelVars,
        processorVars, writeVars, watchVars, historyVars, sharedVars

\* What the contract sees of a state.
Seen == <<issued, approved, started, grant, basis, reply>>

LEMMA UnseenStutters ==
  ASSUME UNCHANGED Seen
  PROVE  UNCHANGED Contract!vars
  BY DEF Seen, Contract!vars

\* A decision that is not the cache's changes no set of the contract.
LEMMA CachedIsCached ==
  ASSUME IInv, cur \in Requests, NEW why, basis[cur] = "none",
         basis' = [basis EXCEPT ![cur] = why]
  PROVE  {r \in Requests : basis[r] = "cache"}' =
           IF why = "cache" THEN {r \in Requests : basis[r] = "cache"} \cup {cur}
                            ELSE {r \in Requests : basis[r] = "cache"}
  BY DEF IInv, TypeOK

LEMMA InitRefines == Init => Contract!Init
  BY DEF Init, ChallengeInit, NoChallenge, Contract!Init

LEMMA DeliverResultRefines ==
  ASSUME IInv, NEW r \in Requests, DeliverResult(r)
  PROVE  \E answer \in {"success", "failure"} : Contract!Reply(r, answer)
<1> DEFINE answer == IF result[r] = "true" THEN "success" ELSE "failure"
<1>1. reply[r] = "none"
  BY DEF IInv, TypeOK, VerdictsSound, DeliverResult
<1>2. answer = "success" => Justified(r)
  BY DEF IInv, VerdictsSound
<1>3. Justified(r) => grant[r] # 0 \/ r \in {q \in Requests : basis[q] = "cache"}
  BY DEF IInv, TypeOK, Justified, GrantedByUser, NoChallenge
<1>4. UNCHANGED <<issued, approved, started, grant, basis>>
  BY DEF DeliverResult, HandlerElsewhere
<1>5. reply' = [reply EXCEPT ![r] = answer]
  BY DEF DeliverResult
<1>6. Contract!Reply(r, answer)
  BY <1>1, <1>2, <1>3, <1>4, <1>5 DEF Contract!Reply
<1> QED BY <1>6

LEMMA CheckSessionRefines ==
  ASSUME IInv, CheckSession
  PROVE  Contract!UseCache(cur) \/ UNCHANGED Contract!vars
<1>1. CASE IsVerified
  <2>1. /\ cur \in Requests /\ Untouched(cur)
        /\ basis' = [basis EXCEPT ![cur] = "cache"]
    BY <1>1 DEF IInv, TypeOK, InHand, CheckSession, Decide
  <2>2. reply[cur] = "none"
    BY <2>1 DEF IInv, VerdictsSound, Untouched
  <2>3. \E q \in Requests : grant[q] # 0
    BY <1>1 DEF IInv, GrantsSound, IsVerified, NoChallenge
  <2>4. {r \in Requests : basis[r] = "cache"}' = {r \in Requests : basis[r] = "cache"} \cup {cur}
    BY <2>1, CachedIsCached DEF Untouched
  <2>5. UNCHANGED <<issued, approved, started, grant, reply>>
    BY DEF CheckSession, ProcessorElsewhere
  <2> QED BY <2>1, <2>2, <2>3, <2>4, <2>5 DEF Untouched, NoChallenge, Contract!UseCache
<1>2. CASE ~IsVerified
  BY <1>2, UnseenStutters DEF CheckSession, ProcessorElsewhere, Seen
<1> QED BY <1>1, <1>2

LEMMA RefreshRefines ==
  ASSUME IInv, RefreshChallenge
  PROVE  Contract!Begin(cur)
<1>1. cur \in Requests /\ started[cur] = 0
  BY DEF IInv, TypeOK, InHand, Untouched, RefreshChallenge, NoChallenge
<1> QED BY <1>1 DEF RefreshChallenge, Refresh, ProcessorElsewhere, Contract!Begin

LEMMA JudgeRefines ==
  ASSUME IInv, Judge
  PROVE  (\E c \in approved : Contract!Grant(cur, c)) \/ UNCHANGED Contract!vars
<1>1. /\ cur \in Requests /\ basis[cur] = "none" /\ grant[cur] = 0
      /\ result[cur] = "none" /\ held \in AuthResult
      /\ started[cur] # 0 /\ started[cur] <= challenge
  BY DEF IInv, TypeOK, InHand, Judge, NoChallenge
<1>2. basis' = [basis EXCEPT ![cur] = Basis] /\ Basis # "cache"
  BY DEF Judge, Decide, Basis
<1>3. {r \in Requests : basis[r] = "cache"}' = {r \in Requests : basis[r] = "cache"}
  BY <1>1, <1>2, CachedIsCached
<1>4. UNCHANGED <<issued, approved, started, reply>>
  BY DEF Judge, TakeIfMatches, ProcessorElsewhere
<1>5. CASE Basis = "grant"
  <2>1. /\ held.challenge = challenge
        /\ held.challenge \in approved
    BY <1>1, <1>5 DEF IInv, MessagesVouched, Vouched, AuthResult, Basis, Matches
  <2>2. \A q \in Requests : grant[q] # held.challenge
    BY <1>5, <2>1 DEF IInv, GrantsSound, Basis, Matches, CanPeek
  <2>3. reply[cur] = "none"
    BY <1>1 DEF IInv, VerdictsSound
  <2>4. grant' = [grant EXCEPT ![cur] = held.challenge]
    BY <1>5 DEF Judge
  <2>5. Contract!Grant(cur, held.challenge)
    BY <1>1, <1>3, <1>4, <2>1, <2>2, <2>3, <2>4 DEF Contract!Grant
  <2> QED BY <2>1, <2>5
<1>6. CASE Basis # "grant"
  BY <1>3, <1>4, <1>6 DEF Judge, Contract!vars
<1> QED BY <1>5, <1>6

\* A refusal, whatever its reason.
LEMMA DecideRefines ==
  ASSUME IInv, NEW why, why # "cache", Decide(FALSE, why),
         cur \in Requests, basis[cur] = "none",
         UNCHANGED <<issued, approved, started, grant, reply>>
  PROVE  UNCHANGED Contract!vars
  BY CachedIsCached DEF Decide, Contract!vars

LEMMA ReceiveRefines ==
  ASSUME IInv, Receive
  PROVE  UNCHANGED Contract!vars
  BY ReceiveTakesHead, UnseenStutters DEF Receive, ProcessorElsewhere, Seen

LEMMA WaitTimeoutRefines ==
  ASSUME IInv, WaitTimeout
  PROVE  UNCHANGED Contract!vars
<1>1. cur \in Requests /\ basis[cur] = "none"
  BY DEF IInv, TypeOK, InHand, WaitTimeout
<1> QED BY <1>1, DecideRefines DEF WaitTimeout, ProcessorElsewhere

LEMMA CheckReadyRefines ==
  ASSUME IInv, NEW here \in {"ready", "cancelReady"}, NEW ready \in BOOLEAN,
         NEW next \in {"cancelReady", "drain"}, CheckReady(here, ready, next)
  PROVE  UNCHANGED Contract!vars
<1>1. cur \in Requests /\ basis[cur] = "none"
  BY DEF IInv, TypeOK, InHand, Untouched, CheckReady
<1>2. UNCHANGED <<issued, approved, started, grant, reply>>
  BY DEF CheckReady, ProcessorElsewhere
<1>3. CASE ready
  BY <1>2, <1>3, UnseenStutters DEF CheckReady, Seen
<1>4. CASE ~ready
  BY <1>1, <1>2, <1>4, DecideRefines DEF CheckReady
<1> QED BY <1>3, <1>4

\* The steps that change nothing the contract speaks of.
LEMMA OtherStepsStutter ==
  ASSUME \/ CheckCancelled \/ Drain \/ Trigger \/ WaitCancelled \/ SendCancel
         \/ PollCancel \/ PollPending \/ WaitResult \/ Answer \/ NotifyStep \/ Clock
         \/ SubscribeChallenge \/ SubscribeCancel
         \/ \E w \in Writes : WriteStep(w)
         \/ \E r \in Requests : \/ ClientStep(r) \/ Enqueue(r) \/ HandleClientMessage(r)
  PROVE  UNCHANGED Contract!vars
<1>1. CASE \/ CheckCancelled \/ Drain \/ Trigger \/ WaitCancelled \/ SendCancel
           \/ PollCancel \/ PollPending \/ WaitResult \/ Answer
  BY <1>1, UnseenStutters DEF CheckCancelled, Drain, Trigger, WaitCancelled, SendCancel,
     PollCancel, PollPending, WaitResult, Answer, ProcessorElsewhere, Seen
<1>2. CASE NotifyStep \/ SubscribeChallenge \/ SubscribeCancel
  BY <1>2, UnseenStutters DEF NotifyStep, SubscribeChallenge, SubscribeCancel,
     NotifyChallenge, LoseChallenge, NotifyCancel, LoseCancel, NotifyElsewhere,
     GattElsewhere, Seen
<1>3. CASE Clock
  BY <1>3, UnseenStutters DEF Clock, Seen
<1>4. CASE \E w \in Writes : WriteStep(w)
  BY <1>4, UnseenStutters DEF WriteStep, WriteDenied, WriteSignature, SendResult,
     WriteElsewhere, GattElsewhere, Seen
<1>5. CASE \E r \in Requests : \/ ClientStep(r) \/ Enqueue(r) \/ HandleClientMessage(r)
  BY <1>5, UnseenStutters DEF ClientStep, Accept, ReceiveIdentity, LoseIdentity,
     ClientLeaves, Enqueue, HandleClientMessage, HandlerElsewhere, Seen
<1> QED BY <1>1, <1>2, <1>3, <1>4, <1>5

LEMMA NextRefines ==
  ASSUME IInv, [Next]_vars
  PROVE  [Contract!Next]_(Contract!vars)
<1>1. CASE \E r \in Requests : DeliverResult(r)
  BY <1>1, DeliverResultRefines DEF Contract!Next
<1>2. CASE CheckSession
  <2>1. cur \in Requests
    BY <1>2 DEF IInv, TypeOK, CheckSession
  <2>2. Contract!UseCache(cur) => Contract!Next
    BY <2>1 DEF Contract!Next, Contract!UseCache
  <2> QED BY <1>2, <2>2, CheckSessionRefines
<1>3. CASE RefreshChallenge
  <2>1. cur \in Requests
    BY <1>3 DEF IInv, TypeOK, RefreshChallenge
  <2> QED BY <1>3, <2>1, RefreshRefines DEF Contract!Next
<1>4. CASE Judge
  <2>1. cur \in Requests
    BY <1>4 DEF IInv, TypeOK, Judge
  <2> QED BY <1>4, <2>1, JudgeRefines DEF Contract!Next
<1>5. CASE ReadChallenge
  BY <1>5 DEF ReadChallenge, Refresh, GattElsewhere, Contract!Issue, Contract!Next
<1>6. CASE \E c \in told : Approve(c)
  <2>1. PICK c \in told : Approve(c)
    BY <1>6
  <2>2. c \in 1 .. issued
    BY <2>1 DEF IInv, TypeOK
  <2>3. Contract!Approve(c)
    BY <2>1 DEF Approve, GattElsewhere, Contract!Approve
  <2> QED BY <2>2, <2>3 DEF Contract!Next
<1>7. CASE Receive \/ WaitTimeout
  BY <1>7, ReceiveRefines, WaitTimeoutRefines
<1>8. CASE \/ CheckReady("ready", notifyReady, "cancelReady")
           \/ CheckReady("cancelReady", cancelReady, "drain")
  <2>1. notifyReady \in BOOLEAN /\ cancelReady \in BOOLEAN
    BY DEF IInv, TypeOK
  <2>2. CheckReady("ready", notifyReady, "cancelReady") => UNCHANGED Contract!vars
    BY <2>1, CheckReadyRefines
  <2>3. CheckReady("cancelReady", cancelReady, "drain") => UNCHANGED Contract!vars
    BY <2>1, CheckReadyRefines
  <2> QED BY <1>8, <2>2, <2>3
<1>9. CASE UNCHANGED vars
  BY <1>9, UnseenStutters DEF vars, Seen
<1> QED
  BY <1>1, <1>2, <1>3, <1>4, <1>5, <1>6, <1>7, <1>8, <1>9, OtherStepsStutter
  DEF Next, HandlerStep, PromptStep, WatchStep

\* The daemon keeps its contract with the clients of its socket, on every instance.
THEOREM Refinement == Spec => ImplementsContract
<1> QED
  BY InitRefines, NextRefines, Invariance, PTL DEF Spec, ImplementsContract, Contract!Spec
=============================================================================
