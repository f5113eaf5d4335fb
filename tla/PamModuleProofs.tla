--------------------------- MODULE PamModuleProofs ---------------------------
(***************************************************************************)
(* Proofs about PamModule: its inductive invariant, and the properties     *)
(* that follow from it for every deadline and either action of SIGPIPE.    *)
(***************************************************************************)
EXTENDS PamModule, TLAPS

USE DEF PamAssumption, AfterLoop, Descriptor, WristResultCode

\* Nothing is open and nothing has run when pam_sm_authenticate is called.
LEMMA InitIInv == Init => IInv
<1> SUFFICES ASSUME Init PROVE IInv
  OBVIOUS
<1> USE PamAssumption DEF Init
<1>1. TypeOK
  <2>1. clock \in 0 .. AuthTimeout
    OBVIOUS
  <2>2. entered \in BOOLEAN /\ signal \in BOOLEAN /\ told \in BOOLEAN /\ alive \in BOOLEAN
    OBVIOUS
  <2>3. thread = "done" <=> state # "RUNNING"
    OBVIOUS
  <2>4. QED
    BY <2>1, <2>2, <2>3 DEF TypeOK
<1>2. Stages /\ ResultSound /\ CodeSound
  BY DEF Stages, ResultSound, CodeSound
<1>3. DescriptorsSound /\ DescriptorsClosed
  BY DEF DescriptorsSound, DescriptorsClosed
<1>4. QED
  BY <1>1, <1>2, <1>3 DEF IInv

\* A step of the main thread keeps the invariant.
LEMMA MainKeepsIInv ==
  ASSUME IInv, MainStep
  PROVE  IInv'
<1> USE PamAssumption
    DEF IInv, TypeOK, Stages, ResultSound, CodeSound, DescriptorsSound,
        DescriptorsClosed, threadVars, daemonVars
<1>1. CASE Refuse             BY <1>1 DEF Refuse
<1>2. CASE OpenPipe           BY <1>2 DEF OpenPipe
<1>3. CASE CreateThread       BY <1>3 DEF CreateThread, daemonVars
<1>4. CASE CreateThreadFails  BY <1>4 DEF CreateThreadFails
<1>5. CASE OpenTty            BY <1>5 DEF OpenTty
<1>6. CASE LoadState          BY <1>6 DEF LoadState
<1>7. CASE Report             BY <1>7 DEF Report
<1>8. CASE PollTty
  <2>1. TypeOK' /\ Stages'
    BY <1>8 DEF PollTty, EndsWithEnter
  <2>2. ResultSound'
    BY <1>8 DEF PollTty, EndsWithEnter
  <2>3. CodeSound' /\ DescriptorsSound' /\ DescriptorsClosed'
    BY <1>8 DEF PollTty, EndsWithEnter
  <2>4. QED
    BY <2>1, <2>2, <2>3
<1>9. CASE WriteCancelSignal  BY <1>9 DEF WriteCancelSignal
<1>10. CASE Cleanup           BY <1>10 DEF Cleanup
<1>11. CASE Join              BY <1>11 DEF Join
<1>12. CASE CloseReadEnd      BY <1>12 DEF CloseReadEnd
<1>13. QED
  BY <1>1, <1>2, <1>3, <1>4, <1>5, <1>6, <1>7, <1>8, <1>9, <1>10, <1>11, <1>12
     DEF MainStep

\* A step of the authentication thread keeps the invariant.
LEMMA ThreadKeepsIInv ==
  ASSUME IInv, ThreadStep
  PROVE  IInv'
<1> USE PamAssumption
    DEF IInv, TypeOK, Stages, ResultSound, CodeSound, DescriptorsSound,
        DescriptorsClosed, ThreadElsewhere, mainVars, daemonVars, Return, GiveUp
<1>1. CASE Connect             BY <1>1 DEF Connect
<1>2. CASE ConnectFails        BY <1>2 DEF ConnectFails
<1>3. CASE WriteIdentity       BY <1>3 DEF WriteIdentity
<1>4. CASE WriteIdentityFails
  <2>1. alive' \in BOOLEAN
    BY <1>4 DEF WriteIdentityFails, Survives
  <2>2. ASSUME NEW c \in {"WRITE_SOCKET_ERROR", "SOCKET_CLOSED_ERROR"}, GiveUp(c)
        PROVE  IInv'
    BY <1>4, <2>1, <2>2 DEF WriteIdentityFails
  <2>3. QED
    BY <1>4, <2>2 DEF WriteIdentityFails
<1>5. CASE ClockFails          BY <1>5 DEF ClockFails
<1>6. CASE CheckDeadline       BY <1>6 DEF CheckDeadline
<1>7. CASE PollTimesOut        BY <1>7 DEF PollTimesOut
<1>8. CASE PollFails           BY <1>8 DEF PollFails
<1>9. CASE PollCancelled       BY <1>9 DEF PollCancelled
<1>10. CASE WriteCancelled
  <2>1. alive' \in BOOLEAN
    BY <1>10 DEF WriteCancelled, Survives
  <2>2. QED
    BY <1>10, <2>1 DEF WriteCancelled
<1>11. CASE ReadResponse       BY <1>11 DEF ReadResponse, ResponseCode
<1>12. CASE StoreResult        BY <1>12 DEF StoreResult
<1>13. QED
  BY <1>1, <1>2, <1>3, <1>4, <1>5, <1>6, <1>7, <1>8, <1>9, <1>10, <1>11, <1>12
     DEF ThreadStep

\* A step of the clock, the user or the daemon keeps the invariant.
LEMMA EnvironmentKeepsIInv ==
  ASSUME IInv,
         \/ Tick
         \/ DaemonCloses
         \/ \E x \in {"enter", "text"} : Type(x)
         \/ \E b \in {"zero", "one"} : DaemonReplies(b)
  PROVE  IInv'
<1> USE PamAssumption
    DEF IInv, TypeOK, Stages, ResultSound, CodeSound, DescriptorsSound,
        DescriptorsClosed, mainVars, threadVars, daemonVars
<1>1. CASE Tick          BY <1>1 DEF Tick
<1>2. CASE DaemonCloses  BY <1>2 DEF DaemonCloses
<1>3. ASSUME NEW x \in {"enter", "text"}, Type(x) PROVE IInv'
  BY <1>3 DEF Type
<1>4. ASSUME NEW b \in {"zero", "one"}, DaemonReplies(b) PROVE IInv'
  BY <1>4 DEF DaemonReplies
<1>5. QED
  BY <1>1, <1>2, <1>3, <1>4

\* Every step, and a step that changes nothing, keeps the invariant.
LEMMA NextKeepsIInv == IInv /\ [Next]_vars => IInv'
<1> SUFFICES ASSUME IInv, [Next]_vars PROVE IInv'
  OBVIOUS
<1>1. CASE Next
  BY <1>1, MainKeepsIInv, ThreadKeepsIInv, EnvironmentKeepsIInv DEF Next
<1>2. CASE UNCHANGED vars
  BY <1>2 DEF IInv, TypeOK, Stages, ResultSound, CodeSound, DescriptorsSound,
              DescriptorsClosed, vars, mainVars, threadVars, daemonVars
<1>3. QED
  BY <1>1, <1>2

\* The invariant holds throughout every call of pam_sm_authenticate.
THEOREM PamInvariance == Spec => []IInv
  BY InitIInv, NextKeepsIInv, PTL DEF Spec

\* Every variable keeps its type, and the thread always ends by storing a state
\* the main thread's loop leaves on.
THEOREM PamTypeCorrect == Spec => []TypeOK
<1>1. IInv => TypeOK
  BY DEF IInv
<1>2. QED
  BY <1>1, PamInvariance, PTL

\* The call reports success only for the daemon's 0 and never after Enter, and is
\* ignored only for Enter, in whatever order the two threads take their steps.
THEOREM PamSuccess == Spec => []SuccessIsApproved
<1>1. IInv => SuccessIsApproved
  BY DEF IInv, TypeOK, ResultSound, CodeSound, SuccessIsApproved
<1>2. QED
  BY <1>1, PamInvariance, PTL

\* The failure that is logged is the one the thread met.
THEOREM PamReason == Spec => []ReasonIsReported
<1>1. IInv => ReasonIsReported
  BY DEF IInv, CodeSound, ReasonIsReported
<1>2. QED
  BY <1>1, PamInvariance, PTL

\* The thread never outlives the context and the pipe that it uses.
THEOREM PamContext == Spec => []ContextOutlivesThread
<1>1. IInv => ContextOutlivesThread
  BY DEF IInv, Stages, DescriptorsSound, ContextOutlivesThread
<1>2. QED
  BY <1>1, PamInvariance, PTL

\* A call that has returned has no descriptor left open.
THEOREM PamDescriptors == Spec => []DescriptorsClosed
<1>1. IInv => DescriptorsClosed
  BY DEF IInv
<1>2. QED
  BY <1>1, PamInvariance, PTL
=============================================================================
