------------------------------ MODULE PamModule ------------------------------
(***************************************************************************)
(* pam-module.c: one call of pam_sm_authenticate. Its main thread watches  *)
(* the terminal and the shared WristContext, a second thread talks to the  *)
(* daemon over the socket and stores its result there, and a pipe carries  *)
(* the main thread's cancel signal. The daemon's end of the socket does    *)
(* what verification_handler.rs can do to it: answer a byte, and close.    *)
(***************************************************************************)
EXTENDS Naturals

CONSTANTS
    AuthTimeout,    \* AUTH_TIMEOUT_SECONDS, in poll intervals of the socket
    SigpipeKills    \* the application may leave SIGPIPE at its default action

ASSUME PamAssumption == AuthTimeout \in Nat \ {0} /\ SigpipeKills \in BOOLEAN

VARIABLES
    main,           \* where pam_sm_authenticate is
    result,         \* its result
    logged,         \* the code print_wrist_result was given
    tty,            \* tty_fd
    typed,          \* what the terminal has to read
    entered,        \* history: Enter was read
    writeEnd,       \* cancel_pipe[1]
    readEnd,        \* cancel_pipe[0]
    signal,         \* a byte is in the pipe
    thread,         \* where wrist_auth_thread is
    code,           \* the result of handle_wrist_authentication
    state,          \* ctx.state
    resultCode,     \* ctx.result_code
    sock,           \* the thread's end of the socket
    clock,          \* time since started_ms, up to the deadline (bound)
    peer,           \* the daemon's end of the socket
    told,           \* the identity was written to the socket
    answer,         \* the byte the socket has to read
    replied,        \* history: the byte the daemon answered
    alive           \* no signal has killed the process

mainVars == <<main, result, logged, tty, typed, entered, writeEnd>>
threadVars == <<thread, code, state, resultCode, sock, clock, told>>
daemonVars == <<peer, answer, replied>>
vars == <<mainVars, readEnd, signal, threadVars, daemonVars, alive>>

WristResultCode ==
    {"SUCCESS", "FAILURE", "CANCELLED", "TIMEOUT", "OPEN_SOCKET_ERROR",
     "WRITE_SOCKET_ERROR", "SOCKET_CLOSED_ERROR", "READ_SOCKET_ERROR", "GET_TIME_ERROR"}

Descriptor == {"none", "open", "closed"}

\* The values every variable takes, and that the thread ends by leaving
\* WRIST_RUNNING, which the main thread's loop and pthread_join rely on.
TypeOK ==
    /\ main \in {"start", "create", "openTty", "loop", "poll", "signal", "report",
                 "cleanup", "join", "closeRead", "returned"}
    /\ result \in {"IGNORE", "SUCCESS", "AUTH_ERR", "USER_UNKNOWN"}
    /\ logged \in WristResultCode \cup {"none"}
    /\ tty \in Descriptor /\ writeEnd \in Descriptor /\ readEnd \in Descriptor
    /\ typed \in {"none", "enter", "text"}
    /\ sock \in Descriptor /\ peer \in Descriptor
    /\ entered \in BOOLEAN /\ signal \in BOOLEAN /\ told \in BOOLEAN /\ alive \in BOOLEAN
    /\ thread \in {"none", "connect", "write", "check", "poll", "cancel", "storeCode",
                   "storeState", "done"}
    /\ code \in WristResultCode \cup {"none"}
    /\ resultCode \in WristResultCode
    /\ state \in {"RUNNING", "SUCCESS", "FAILED"}
    /\ clock \in 0 .. AuthTimeout
    /\ answer \in {"none", "zero", "one"}
    /\ replied \in {"none", "zero", "one"}
    /\ thread = "done" <=> state # "RUNNING"

Init ==
    /\ main = "start"
    /\ result = "IGNORE"
    /\ logged = "none"
    /\ tty = "none" /\ writeEnd = "none" /\ readEnd = "none"
    /\ typed = "none"
    /\ entered = FALSE /\ signal = FALSE /\ told = FALSE /\ alive = TRUE
    /\ thread = "none"
    /\ code = "none"
    /\ state = "RUNNING"
    /\ resultCode = "FAILURE"
    /\ sock = "none" /\ peer = "none"
    /\ clock = 0
    /\ answer = "none" /\ replied = "none"

-----------------------------------------------------------------------------
(***************************************************************************)
(* The main thread.                                                        *)
(***************************************************************************)
\* No user, no passwd entry, or pipe2 fails.
Refuse ==
    /\ main = "start"
    /\ result' \in {"USER_UNKNOWN", "AUTH_ERR"}
    /\ main' = "returned"
    /\ UNCHANGED <<logged, tty, typed, entered, writeEnd, readEnd, signal, threadVars,
                   daemonVars, alive>>

\* The context is set up and pipe2 succeeds.
OpenPipe ==
    /\ main = "start"
    /\ main' = "create"
    /\ writeEnd' = "open"
    /\ readEnd' = "open"
    /\ UNCHANGED <<result, logged, tty, typed, entered, signal, threadVars, daemonVars, alive>>

CreateThread ==
    /\ main = "create"
    /\ main' = "openTty"
    /\ thread' = "connect"
    /\ UNCHANGED <<result, logged, tty, typed, entered, writeEnd, readEnd, signal, code,
                   state, resultCode, sock, clock, told, daemonVars, alive>>

CreateThreadFails ==
    /\ main = "create"
    /\ main' = "returned"
    /\ result' = "AUTH_ERR"
    /\ readEnd' = "closed"
    /\ writeEnd' = "closed"
    /\ UNCHANGED <<logged, tty, typed, entered, signal, threadVars, daemonVars, alive>>

\* open("/dev/tty"): without a terminal there is no fallback input.
OpenTty ==
    /\ main = "openTty"
    /\ main' = "loop"
    /\ tty' \in {"open", "none"}
    /\ UNCHANGED <<result, logged, typed, entered, writeEnd, readEnd, signal, threadVars,
                   daemonVars, alive>>

\* The head of the loop: one atomic_load of ctx.state. While it is
\* WRIST_RUNNING and there is no terminal the thread sleeps and looks again.
LoadState ==
    /\ main = "loop"
    /\ state = "RUNNING" => tty = "open"
    /\ main' = CASE state = "SUCCESS" -> "cleanup"
                 [] state = "FAILED"  -> "report"
                 [] OTHER             -> "poll"
    /\ result' = CASE state = "SUCCESS" -> "SUCCESS"
                   [] state = "FAILED"  -> "AUTH_ERR"
                   [] OTHER             -> result
    /\ UNCHANGED <<logged, tty, typed, entered, writeEnd, readEnd, signal, threadVars,
                   daemonVars, alive>>

\* print_wrist_result of a second atomic_load, of ctx.result_code.
Report ==
    /\ main = "report"
    /\ logged' = resultCode
    /\ main' = "cleanup"
    /\ UNCHANGED <<result, tty, typed, entered, writeEnd, readEnd, signal, threadVars,
                   daemonVars, alive>>

\* Mutant of EndsWithEnter: any key will do.
EndsWithEnter_AnyKey == typed # "none"

\* ends_with_enter of what was read.
EndsWithEnter == typed = "enter"

\* poll() of the terminal for 50 ms, and the read of what it has.
PollTty ==
    /\ main = "poll"
    /\ main' = IF EndsWithEnter THEN "signal" ELSE "loop"
    /\ entered' = (entered \/ typed = "enter")
    /\ typed' = "none"
    /\ UNCHANGED <<result, logged, tty, writeEnd, readEnd, signal, threadVars, daemonVars,
                   alive>>

\* write_cancel_signal, whose failure is logged and otherwise ignored.
WriteCancelSignal ==
    /\ main = "signal"
    /\ signal' \in BOOLEAN
    /\ main' = "cleanup"
    /\ UNCHANGED <<result, logged, tty, typed, entered, writeEnd, readEnd, threadVars,
                   daemonVars, alive>>

\* The two closes after the loop.
Cleanup ==
    /\ main = "cleanup"
    /\ tty' = IF tty = "open" THEN "closed" ELSE tty
    /\ writeEnd' = "closed"
    /\ main' = "join"
    /\ UNCHANGED <<result, logged, typed, entered, readEnd, signal, threadVars, daemonVars,
                   alive>>

\* Mutant of Join: the thread is left to itself.
Join_Detached ==
    /\ main = "join"
    /\ main' = "closeRead"
    /\ UNCHANGED <<result, logged, tty, typed, entered, writeEnd, readEnd, signal,
                   threadVars, daemonVars, alive>>

\* pthread_join
Join ==
    /\ main = "join"
    /\ thread = "done"
    /\ main' = "closeRead"
    /\ UNCHANGED <<result, logged, tty, typed, entered, writeEnd, readEnd, signal,
                   threadVars, daemonVars, alive>>

CloseReadEnd ==
    /\ main = "closeRead"
    /\ readEnd' = "closed"
    /\ main' = "returned"
    /\ UNCHANGED <<result, logged, tty, typed, entered, writeEnd, signal, threadVars,
                   daemonVars, alive>>

MainStep ==
    \/ Refuse \/ OpenPipe \/ CreateThread \/ CreateThreadFails \/ OpenTty \/ LoadState
    \/ Report \/ PollTty \/ WriteCancelSignal \/ Cleanup \/ Join \/ CloseReadEnd

\* The user types: a line that Enter ends, or something else.
Type(x) ==
    /\ typed = "none"
    /\ main # "returned"
    /\ typed' = x
    /\ UNCHANGED <<main, result, logged, tty, entered, writeEnd, readEnd, signal,
                   threadVars, daemonVars, alive>>

-----------------------------------------------------------------------------
(***************************************************************************)
(* The thread: handle_wrist_authentication and the stores of its result.   *)
(***************************************************************************)
ThreadElsewhere == UNCHANGED <<mainVars, readEnd, signal>>

\* handle_wrist_authentication closes the socket and returns c.
Return(c) ==
    /\ sock' = "closed"
    /\ code' = c
    /\ thread' = "storeCode"

\* Mutant of GiveUp: the error path forgets close(fd).
GiveUp_KeepsSocket(c) ==
    /\ code' = c
    /\ thread' = "storeCode"
    /\ UNCHANGED sock

\* Its early returns, which close the socket first.
GiveUp(c) == Return(c)

Connect ==
    /\ thread = "connect"
    /\ thread' = "write"
    /\ sock' = "open"
    /\ peer' = "open"
    /\ UNCHANGED <<code, state, resultCode, clock, told, answer, replied, alive>>
    /\ ThreadElsewhere

\* socket() or connect() fails, and open_socket has closed what it opened.
ConnectFails ==
    /\ thread = "connect"
    /\ thread' = "storeCode"
    /\ code' = "OPEN_SOCKET_ERROR"
    /\ UNCHANGED <<state, resultCode, sock, clock, told, daemonVars, alive>>
    /\ ThreadElsewhere

\* The loop of writes of the AuthIdentity, and the clock read that follows.
WriteIdentity ==
    /\ thread = "write"
    /\ peer = "open"
    /\ told' = TRUE
    /\ thread' = "check"
    /\ UNCHANGED <<code, state, resultCode, sock, clock, daemonVars, alive>>
    /\ ThreadElsewhere

\* A write to a socket whose other end is closed raises SIGPIPE: what that does
\* is the application's choice, made once, and a call writes to a closed socket
\* at most once.
Survives == IF SigpipeKills /\ peer = "closed" THEN BOOLEAN ELSE {TRUE}

\* A write fails or writes nothing. To a socket whose other end is closed it
\* also raises SIGPIPE.
WriteIdentityFails ==
    /\ thread = "write"
    /\ alive' \in Survives
    /\ \E c \in {"WRITE_SOCKET_ERROR", "SOCKET_CLOSED_ERROR"} : GiveUp(c)
    /\ UNCHANGED <<state, resultCode, clock, told, daemonVars>>
    /\ ThreadElsewhere

\* clock_gettime fails.
ClockFails ==
    /\ thread = "check"
    /\ GiveUp("GET_TIME_ERROR")
    /\ UNCHANGED <<state, resultCode, clock, told, daemonVars, alive>>
    /\ ThreadElsewhere

\* Mutant of DeadlinePassed: the loop has no deadline.
DeadlinePassed_Never == FALSE

\* now_ms >= deadline_ms
DeadlinePassed == clock >= AuthTimeout

\* The head of the loop.
CheckDeadline ==
    /\ thread = "check"
    /\ IF DeadlinePassed THEN GiveUp("TIMEOUT")
                         ELSE thread' = "poll" /\ UNCHANGED <<code, sock>>
    /\ UNCHANGED <<state, resultCode, clock, told, daemonVars, alive>>
    /\ ThreadElsewhere

\* Mutant of CancelReady: POLLHUP of the pipe is not looked at.
CancelReady_DataOnly == signal

\* fds[1].revents: a byte is in the pipe, or its write end is closed.
CancelReady == signal \/ writeEnd = "closed"

\* fds[0].revents: a byte to read, or the daemon has closed.
SocketReady == answer # "none" \/ peer = "closed"

\* poll() returns 0.
PollTimesOut ==
    /\ thread = "poll"
    /\ ~CancelReady /\ ~SocketReady
    /\ thread' = "check"
    /\ UNCHANGED <<code, state, resultCode, sock, clock, told, daemonVars, alive>>
    /\ ThreadElsewhere

PollFails ==
    /\ thread = "poll"
    /\ GiveUp("READ_SOCKET_ERROR")
    /\ UNCHANGED <<state, resultCode, clock, told, daemonVars, alive>>
    /\ ThreadElsewhere

\* poll() reports the pipe, which is looked at before the socket.
PollCancelled ==
    /\ thread = "poll"
    /\ CancelReady
    /\ thread' = "cancel"
    /\ UNCHANGED <<code, state, resultCode, sock, clock, told, daemonVars, alive>>
    /\ ThreadElsewhere

\* The write of AUTH_MSG_PAM_CANCELLED, whose failure is ignored and whose
\* SIGPIPE is not.
WriteCancelled ==
    /\ thread = "cancel"
    /\ alive' \in Survives
    /\ Return("CANCELLED")
    /\ UNCHANGED <<state, resultCode, clock, told, daemonVars>>
    /\ ThreadElsewhere

\* Mutant of ResponseCode: the length that read() returned is not checked.
ResponseCode_Unchecked == IF answer = "one" THEN "FAILURE" ELSE "SUCCESS"

\* What read() of the answer gives: a byte, or the end of the stream.
ResponseCode ==
    CASE answer = "none" -> "READ_SOCKET_ERROR"
      [] answer = "zero" -> "SUCCESS"
      [] answer = "one"  -> "FAILURE"

\* poll() reports the socket alone: read, close, return.
ReadResponse ==
    /\ thread = "poll"
    /\ ~CancelReady /\ SocketReady
    /\ answer' = "none"
    /\ Return(ResponseCode)
    /\ UNCHANGED <<state, resultCode, clock, told, peer, replied, alive>>
    /\ ThreadElsewhere

\* Mutant of StoreResult: the state is stored first.
StoreResult_StateFirst ==
    /\ \/ /\ thread = "storeCode"
          /\ state' = IF code = "SUCCESS" THEN "SUCCESS" ELSE "FAILED"
          /\ thread' = "storeState"
          /\ UNCHANGED resultCode
       \/ /\ thread = "storeState"
          /\ resultCode' = code
          /\ thread' = "done"
          /\ UNCHANGED state
    /\ UNCHANGED <<code, sock, clock, told, daemonVars, alive>>
    /\ ThreadElsewhere

\* The two atomic_store calls of wrist_auth_thread.
StoreResult ==
    /\ \/ /\ thread = "storeCode"
          /\ resultCode' = code
          /\ thread' = "storeState"
          /\ UNCHANGED state
       \/ /\ thread = "storeState"
          /\ state' = IF code = "SUCCESS" THEN "SUCCESS" ELSE "FAILED"
          /\ thread' = "done"
          /\ UNCHANGED resultCode
    /\ UNCHANGED <<code, sock, clock, told, daemonVars, alive>>
    /\ ThreadElsewhere

ThreadStep ==
    \/ Connect \/ ConnectFails \/ WriteIdentity \/ WriteIdentityFails \/ ClockFails
    \/ CheckDeadline \/ PollTimesOut \/ PollFails \/ PollCancelled \/ WriteCancelled
    \/ ReadResponse \/ StoreResult

\* CLOCK_MONOTONIC advances. Past the deadline it makes no difference.
Tick ==
    /\ thread \in {"check", "poll"}
    /\ clock < AuthTimeout
    /\ clock' = clock + 1
    /\ UNCHANGED <<mainVars, readEnd, signal, thread, code, state, resultCode, sock, told,
                   daemonVars, alive>>

-----------------------------------------------------------------------------
(***************************************************************************)
(* The daemon's handler of this connection.                                *)
(***************************************************************************)
\* It has the identity and a result, and writes its one byte.
DaemonReplies(b) ==
    /\ peer = "open" /\ sock = "open"
    /\ told
    /\ replied = "none"
    /\ answer' = b
    /\ replied' = b
    /\ UNCHANGED <<mainVars, readEnd, signal, threadVars, peer, alive>>

\* It returns, or the peer was not root, or the daemon stops.
DaemonCloses ==
    /\ peer = "open"
    /\ peer' = "closed"
    /\ UNCHANGED <<mainVars, readEnd, signal, threadVars, answer, replied, alive>>

Next ==
    /\ alive
    /\ \/ MainStep
       \/ ThreadStep
       \/ Tick
       \/ DaemonCloses
       \/ \E x \in {"enter", "text"} : Type(x)
       \/ \E b \in {"zero", "one"} : DaemonReplies(b)

Spec == Init /\ [][Next]_vars

\* Both threads run: connect() and the write of 260 bytes return because the
\* daemon's accept loop never waits. Nothing is asked of the daemon's answer, of
\* the user or of the clock.
FairSpec == Spec /\ WF_vars(alive /\ MainStep) /\ WF_vars(alive /\ ThreadStep)

-----------------------------------------------------------------------------
(***************************************************************************)
(* Properties.                                                             *)
(***************************************************************************)
\* PAM_SUCCESS is returned only when the daemon answered 0 on this call's own
\* connection and Enter was not taken first; the call is ignored only for Enter.
SuccessIsApproved ==
    /\ result = "SUCCESS" => replied = "zero" /\ ~entered
    /\ main = "returned" /\ result = "IGNORE" => entered

\* The failure that is logged is the one the thread met, not the value that
\* result_code was initialised with: the main thread reads it through two
\* separate atomics.
ReasonIsReported == logged # "none" => logged = code

\* The thread uses the context on pam_sm_authenticate's stack and the pipe's
\* read end: neither goes away while it runs.
ContextOutlivesThread ==
    thread \notin {"none", "done"} => main # "returned" /\ readEnd = "open"

\* Whatever path the call took, it leaves no descriptor open in the
\* application, and so the daemon's handler sees the end of the stream.
DescriptorsClosed ==
    main = "returned" => "open" \notin {sock, readEnd, writeEnd, tty}

\* Once Enter was read the call returns, though the signal could not be written
\* and though neither the daemon answers nor the deadline passes.
EnterReturns == entered ~> (main = "returned" \/ ~alive)

\* The call returns whatever the daemon does, if time passes.
AuthenticateReturns == WF_vars(Tick) => <>(main = "returned" \/ ~alive)

\* "press Enter to continue with the next authentication method": the process
\* lives to try it.
EnterContinues == entered => alive

-----------------------------------------------------------------------------
(***************************************************************************)
(* The inductive invariant: what the two threads rely on of each other.    *)
(***************************************************************************)
AfterLoop == {"cleanup", "join", "closeRead", "returned"}

\* How far one thread is says how far the other can be.
Stages ==
    /\ thread = "none" => main \in {"start", "create", "returned"}
    /\ main \in {"start", "create"} => thread = "none"
    /\ main \in {"closeRead", "returned"} => thread \in {"none", "done"}
    /\ main = "report" => state = "FAILED"

\* The main thread's result, and what made it so.
ResultSound ==
    /\ main \in {"start", "create", "openTty", "loop", "poll", "signal"} => result = "IGNORE"
    /\ main = "report" => result = "AUTH_ERR"
    /\ result = "SUCCESS" => state = "SUCCESS" /\ ~entered
    /\ result = "IGNORE" /\ main \in AfterLoop => entered
    /\ entered => main \in AfterLoop \cup {"signal"}
    /\ main = "signal" => entered

\* What the thread has stored is what it met, and a success is the daemon's.
CodeSound ==
    /\ answer # "none" => answer = replied
    /\ code = "SUCCESS" => replied = "zero"
    /\ thread \in {"storeCode", "storeState", "done"} => code # "none"
    /\ thread \in {"storeState", "done"} => resultCode = code
    /\ state = "SUCCESS" => code = "SUCCESS"
    /\ logged # "none" => thread = "done" /\ logged = code

\* Which descriptors are open where.
DescriptorsSound ==
    /\ main = "start" => "open" \notin {readEnd, writeEnd}
    /\ main \in {"start", "create", "openTty"} => tty = "none"
    /\ thread \notin {"none", "done"} => readEnd = "open"
    /\ thread \in {"none", "connect", "storeCode", "storeState", "done"} => sock # "open"
    /\ main \in {"join", "closeRead"} => "open" \notin {writeEnd, tty}
    /\ main = "create" => readEnd = "open"

\* TypeOK, the properties of this module and what they rest on hold in every
\* reachable state, and every step keeps them.
IInv ==
    /\ TypeOK
    /\ Stages
    /\ ResultSound
    /\ CodeSound
    /\ DescriptorsSound
    /\ DescriptorsClosed
=============================================================================
