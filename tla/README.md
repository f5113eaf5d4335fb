# A TLA+ model of wrist-hello

wrist-hello lets a Linux user approve `sudo`, a login or any other PAM
authentication on a watch. This directory holds a TLA+ specification of its
daemon and its PAM module, TLC configurations that check it on small instances,
and proofs, checked by TLAPS, that hold for every instance. Paths below are
relative to the repository.

## The system

| Component | State | Operations | Meets |
|---|---|---|---|
| `pam-module/pam-module.c` | a context of two atomics on the caller's stack, a pipe, a socket, the terminal | `pam_sm_authenticate` and its `wrist_auth_thread` | the daemon over `/run/wrist-hello/auth.sock`; the user at the terminal |
| `socket_server.rs`, `verification_handler.rs` | one task per connection | accept, check that the peer is root, read the identity, queue the request, then wait for the client or for the result | the processor over `add_queue` (100), a result channel and a cancel channel per request |
| `auth_processor.rs` | one task: the local queue, the request in hand | take a request, check the cache and the ready flags, draw a challenge, wait for the watch, judge its message, answer | everything below |
| `current_challenge.rs` | an optional challenge behind a mutex | `refresh`, `peek`, `take_if_matches` | the processor and the GATT handlers |
| `auth_session.rs` | `verified_at`, `expires_at` | `mark_verified`, `is_verified` | the processor, the wall clock |
| `characteristics/*.rs`, `notify_ready_guard.rs` | two ready flags, a stored notification permit | a read, a write and two subscriptions of the watch | the processor over `wrist_result` (1) and `cancel_notify` (1); the watch over BLE |
| `main.rs`, `wrist-hello.service` | the channels, flags and tasks; how far the start has come | start, stop on Ctrl-C, restart by systemd | bluetoothd, the socket's file and its directory |
| `advertisement_handle.rs` | the handle: a D-Bus advertisement or a controller instance | advertise, by BlueZ or by `btmgmt`; unregister | bluetoothd and the controller, which outlive the daemon |
| `wearos-app` `BleManager.kt` | `pendingApproval`; the BLE state and the queue of subscriptions | show a challenge, sign or deny it, forget a cancelled one; connect and subscribe | the daemon; the user at the watch |
| `wearos-app` `ForegroundService.kt` | the reconnect job and the reconnect request | react to the BLE state, reconnect after 5 s | `BleManager` |
| `wearos-app` the rest | none that outlives a call | screens, key store, QR code, boot receiver | |

What is hard in it, and what makes each part correct:

* **The request loop** shares its channels and the challenge slot with tasks
  that run whenever the watch writes. A late answer, one that slips in behind
  the drain, a cancellation together with an approval, or an approval written
  twice must never grant what the user did not approve, and no path may leave a
  client without an answer.
* **The challenge slot** is right if no challenge decides twice and the
  processor never waits with an old one.
* **The session** is right if no request is served from the cache when the
  window is over.
* **The ready flags** are right if they say whether a watch listens. Two notify
  handlers can be alive after a reconnect, and the flag is not a count.
* **The notify handlers** share one `Notify` and one receiver across links. No
  trigger may be lost between two polls, and challenges and cancellations must
  reach the watch in order, whichever handler takes them.
* **The daemon's life** is right if what it leaves behind, a socket file or an
  advertisement, neither keeps the next one from serving nor advertises nobody.
* **The PAM module** has two threads, two atomics, a pipe and a socket with
  their closing order; success must be the daemon's, Enter must end the call,
  and nothing may outlive it.
* **The watch's approval** is shared by three threads without a lock. A challenge
  must stay reachable while it waits, a cancelled one must not be signed, and
  every one must end. Its 30 s timeout is the same as the daemon's
  (`BleManager.kt:33`, `main.rs:35`).
* **The watch's link** is kept by a collector that is told of changes only, a job
  and a callback. While the link is down somebody must be about to try again,
  and a watch that shows itself connected must be subscribed.

`PROJECT.json` lists these hazards line by line, with the properties that cover
them.

## The modules

| Module | What it is |
|---|---|
| `AuthSession` | `auth_session.rs` and the wall clock |
| `CurrentChallenge` | `current_challenge.rs` |
| `AuthProcessor` | the daemon: extends the two above with the handlers, the processor, the GATT handlers and the channels, and states the properties |
| `AuthContract` | what the daemon promises its clients, without queues, caches and links |
| `AuthProcessorInv` | the inductive invariant of `AuthProcessor` |
| `PamModule` | one call of `pam_sm_authenticate`, its properties and its inductive invariant |
| `GattNotify` | the notify handlers of the challenge and cancel characteristics, link by link, with the flags, the `Notify` and the receiver; extends `CurrentChallenge` |
| `DaemonLifecycle` | start, stop, kill and restart of the process, its advertisement and its socket |
| `WatchApproval` | a challenge on the watch: `pendingApproval`, the notice, the taps, the cancellations |
| `WatchConnection` | the watch's link: `BleManager`'s connection and `ForegroundService`'s reconnection |
| `MCAuthProcessor`, `MCPamModule`, `MCGattNotify`, `MCDaemonLifecycle`, `MCWatchApproval`, `MCWatchConnection` | instances for TLC |
| `AuthSessionProofs`, `AuthProcessorProofs`, `AuthContractProofs`, `PamModuleProofs`, `GattNotifyProofs`, `DaemonLifecycleProofs`, `WatchApprovalProofs`, `WatchConnectionProofs` | the theorems |

`AuthProcessor` has the whole processor against handlers that take and notify in
one step, one per characteristic; `GattNotify` has the handlers step by step
against the part of the processor that triggers them. `AuthProcessor` lets the
watch write what it wants when it wants, which covers whatever `WatchApproval`
does with one; `WatchConnection` and `GattNotify` each let the other side come
and go at any time.

### How the daemon is modelled

The daemon's tasks run on a multi-threaded executor, so an action is what one
task does between two accesses to state it shares. `pc` says where the processor
is: `idle` at the head of the loop, `popped` with a request to look at,
`session`, `ready` and `cancelReady` for the three early checks (the two flags
are read one after the other), `drain`, one `try_recv` at a time, `refresh`,
`trigger`, `wait` at the `select!`, `sendCancel` for the send that follows a
cancellation, `judge` for `handle_wrist_result`, and `answer` for the send of the
result. A biased `select!` polls its branches in order, each a look of its own:
`PollCancel` finds no cancellation and goes on to `poll`, where the channel is
looked at (`WaitResult`), then the timer (`WaitTimeout`, so it requires an empty
channel), and `PollPending` goes back to wait. A cancellation that arrives between
the two looks loses to the result, here as in the code. Locking, matching and
emptying the challenge slot is one step because one mutex is held throughout.

Data are reduced to what the properties tell apart. A challenge is the number of
the `refresh` that drew it (32 random bytes do not repeat), so that "older than"
can be said; an identity is a value compared for equality; a signature is the
challenge that was signed, and it exists only for a challenge the user approved;
a message on a channel is its kind and its challenge. `task`, `left`, `result`
and `reply` describe a connection: its handler, whether the client wrote or hung
up, what is in its result channel, and the byte it was answered with.

The watch is the environment: it may write, for any challenge it was told, a
denial or, if its user approved, a signature, as late and as often as `Writes`
allows; it subscribes, and its link fails when the daemon next uses it. History
variables record what the properties speak about: `started`, `grant`, `basis`,
`spent`, `approved`, `told` and `late`.

### How the PAM module is modelled

`main` and `thread` are the two threads' program counters, one step per atomic
access, system call that the other side can observe, or error return. The pipe
is a byte (`signal`) and its two ends; `poll` is a guard on what is ready, with
the pipe looked at before the socket, as the code does. The daemon's end answers
at most one byte and may close at any time, which covers a reply, a peer that is
not root and a daemon that stops. A write to a socket whose other end is closed
kills the process when `SigpipeKills`. Time is counted in poll intervals up to
the deadline. `EINTR` retries and short writes of the 260 bytes are one step.

### How the notify handlers are modelled

A link has a number. Per link there is at most one handler of each
characteristic, and `teller` and `canceller` say where it is: `looping` at the
head of its loop, `waiting` or `receiving`, `woken`, `telling` with the value it
is about to notify, `ending` with its guard still to be dropped, `ended`. It sees
the link go only when its own `notify` fails (`Reaches`). `permit` and `waiters`
are tokio's `Notify`: `notify_one` wakes the oldest waiter or stores one permit,
and the first poll of `notified()` takes the permit or queues. `receivers` is the
fair mutex of the receiver, its holder first. The processor is `pc` from the two
loads of the flags to the send of a cancellation; the result of the wait is any
challenge the watch knows, or none. `overlap`, `toldLast`, `cancelledLast` and
`triggered` are history.

### How the daemon's life is modelled

`stage` follows `main()`: the GATT application, the D-Bus advertisement, the three
`btmgmt` commands of the fallback, the spawn of the server, Ctrl-C. A command may
do its work and still fail, as the comment at `advertisement_handle.rs:104` says.
`app` and `bluerAdv` go with the process, which bluetoothd watches; `instance`,
on the controller, and the socket's file stay. `Killed` is possible at every
stage, and SIGTERM, which systemd sends, is one of its causes. Another program's
instance may come and go.

### How the watch is modelled

`WatchApproval`: the coroutines of the challenges, the main thread with the
intents of the notice, and the binder thread are one program counter each, and a
step is what lies between two accesses to `pendingApproval`, a result or the
notice. A coroutine stands for the `PendingApproval` it made. The intents are
handled in the order of the taps, so that `Handled` is the number of the tap in
hand; `taps` and `approvedBy`, the tap that approved each coroutine, are history.
They say that a tap approves one challenge at most, and not that its notice was
that challenge's: an intent names none, and is for whatever is pending. The look at
`pendingApproval` and its clearing are two steps (`BleManager.kt:245-247`).
Notifications come in order, coroutines start in any order, and a stored permit
of the daemon's can have one challenge notified twice. The timeout is a step that
may be taken at any time.

`WatchConnection`: a `BluetoothGatt` is a member of `Clients`; `client` says how
far it is and whether its end was reported (`closing`) and it was given back
(`free`). `connectToPairedDevice()` is two steps for each of its three callers:
`callers` are those that have looked at the state and not yet set it, which they
do whatever it has become. Whether Bluetooth is on and a device bonded, and
whether the host's service is there, is open at every attempt. `refused` is a
`connectGatt` for which Android had no client left, whose end is reported and then
closed like that of a client (`ClientRefused`, `CloseRefused`), and `NotLent` what
it returned; refusals that are due together are reported as one. `described` is
which of the two characteristics has a CCCD at the host, any subset, fixed for a
behaviour: `enableNextNotify` passes over one without (`BleManager.kt:216-220`), so
that with none the watch is Connected as soon as the services are found. `queue` is
shared by all clients, and a failed descriptor of one (`ClientFails`), or its end,
empties it for the others. An error is its text, a member of `GattErrors`: a second
error with another text is a new value for the collector, one with the same is not.
`seen` is the last value the collector was given: `Collect` is enabled when it
differs, which is what a `StateFlow` does. `STATE_DISCONNECTED` is two steps, for the state is set before the client is closed and the field cleared.
`leaving` is `requestReconnect()` between its assignments and `disconnect()`.
`unnoticed` and `disturbed` record the ways the code can go wrong, so that the
properties can say that there are no others. `disturbed` is of the link there is:
`client` when a callback of one client filled or emptied the queue while another
worked through it, `host` when the host's application went, and the CCCDs with it.
The first is real: two callers that have both passed the look at the state
(`BleManager.kt:82`), or a client left open by an error (`:142`, `:168`) and the one
of the retry, share `notifyEnableQueue`; a descriptor of one that cannot be written
(`:167`, `:227`), or its end (`:126`), empties the queue of the other, whose next
write is then taken for its last (`:208-209`), and the watch is Connected without
the cancellations, against `docs/authentication-ja.md:95`.

## The runs

| Run | What it asks | Bounds |
|---|---|---|
| `core` | `SuccessIsJustified`, `ChallengeDecidesOnce`, `NoRequestDropped`, `WaitsOnFreshChallenge`, `NoRequestLost`, `CancelledDecidesNothing`, the session's window, the inductive invariant (with the types), and that the daemon implements `AuthContract` | two requests of two identities, one write, one read of the challenge, every channel of one slot, a TTL of 1 within 2 s |
| `live` | every request is answered; a client that leaves frees the processor without the timer; one that had left when the processor began to wait decides nothing (`GoneClientDecidesNothing`) | two requests, one write, the clock set at will within 1 s |
| `duplicate` *(violated)* | a second request of one identity is refused | two requests of one identity, two writes, a queue of two, no cache |
| `stale` *(violated)* | an answer to another challenge decides nothing | two requests, one write |
| `pam` | the result is justified, the reason is right, nothing outlives the call, Enter ends it, and so does the deadline; the inductive invariant | a deadline of three poll intervals, SIGPIPE kills |
| `pam_sigpipe` *(violated)* | Enter lets the process go on to the next method | as `pam` |
| `notify` | what a flag says, in which order the watch is told, that no trigger is lost (`NoTriggerLost`, and under fairness `TriggerReachesWatch`) and no send of a cancellation stuck | two links, two challenges, a cancel channel of one slot |
| `notify_reconnect` *(violated)* | a subscribed watch is ready | two links, one challenge |
| `daemon` | a serving daemon is advertised, an orderly stop leaves nothing, a stale socket does no harm | none: the state is finite |
| `link` | while a watch is down somebody is about to try again, or nobody was told (`DownIsPending`), and under fairness it tries again and again (`DownIsRetried`); a connected one is subscribed to what has a descriptor (`ConnectedIsSubscribed`) | one client and the attempts refused while it is lent, two texts of errors, any descriptors |
| `link_stuck` *(violated)* | "BLE reconnecting..." is followed by an attempt | one client, one text |
| `approval` | a challenge alone is reachable, none is signed without an Approve of its own, a cancelled one is not signed, the notice of a decided one closes, every one ends | two notifications, two challenges, two taps |

Two requests are enough for what one request can do to the next: a stale result,
a challenge left in the slot, a cached session, a place in line. One write is
enough for a result that comes at the wrong time; that a second write waits for
the slot of the first is in `duplicate` only, and otherwise in the theorems,
which hold for any number. A queue of one slot makes a handler wait to send; 100
would only hide that. With a TTL of 1 within 2 s a session opens, is used and
ends. `core` with two writes was also run, with the clock at most at 1 and a TTL of 1:
4.3 million states, no error; it takes five minutes and is left out. Two links
are what a reconnect is: the handler of the old one and that of
the new one; two challenges are one that was decided and one that is not, and a
cancel channel of one slot is what `main.rs:101` has. With one GATT client an
attempt made while it is left over, or connects a second time, is one that Android
refuses, whose callbacks come in between those of the client: the same collector,
job and callbacks, and the same queue emptied by another. The three invariants of
`link` were also run with two clients: 8.4 million states, no error, left out for
its length; their theorems hold for any number. Two texts of errors are the last
one and another. Two challenges on the watch are one
that waits and one that displaces it, or one notified twice; two taps are one
that is handled late and one that follows.

The symmetry of requests and writes is used in `core`, which checks safety;
the runs with liveness use none. Every bound is a constant, and the theorems hold
for all of their values.

Deadlock checking is off in the daemon's and the `notify` runs because the bounded
environment runs out of requests, links, writes and time, and in the PAM runs
because the call returns. It is on in the others.

### Fairness

`AuthProcessor!Fairness` is weak fairness of each verification handler, of the
processor, of the task that takes cancellations out of their channel, and of the
watch subscribing to cancellations again; `RequestsAreAnswered` takes the
fairness of the timer as its hypothesis. The first three are what the tokio
executor gives a task that can run. The timer is what `timeout` gives, and its
fairness is strong: once it has run out every poll of the `select!` finds it so,
while in between the processor is back to wait and `WaitTimeout` is not enabled.
The fourth is an assumption on the watch, and the code needs it: the send at
`auth_processor.rs:161` is outside the timeout, so with a cancellation still in
the channel and no watch the processor waits for ever. Nothing is assumed of
clients, of the user, of what the watch writes or of the clock.
`CancelFreesProcessor` is checked without the timer: it is the point of it.

`GattNotify!Fairness` is weak fairness of each notify handler and of the
processor's trigger and send, the executor again; nothing is assumed of the watch,
so that `SendCancelReturns` has to say "while a handler is alive".

`PamModule!FairSpec` is weak fairness of the two threads. It includes that
`connect` and the write of 260 bytes return, which the daemon's accept loop
provides by never waiting between two connections. `AuthenticateReturns` takes
the fairness of the clock as its hypothesis, `EnterReturns` does without.

`WatchFairness` is weak fairness of each thread: of the collector, of the reconnect
job with its delay, of the main thread once it is on its way to `disconnect()` or
in `connectToPairedDevice()`, and of the report that a link has ended or was
refused, which Android gives. Nothing is assumed of
connecting: the host may be away for ever. `WatchApproval!Fairness` is weak
fairness of each coroutine, whose `withTimeoutOrNull` is one of its steps; the
user may never tap.

### What the violated runs show

* `duplicate`: `docs/authentication-ja.md:57` promises that a duplicate of a
  queued request fails. The check (`auth_processor.rs:77`) searches the local
  queue, which the loop has always emptied: requests wait in the channel. The
  invariant `LineIsFresh`, proved, says `queue = <<>>` in every state.
* `stale`: `docs/authentication-ja.md:88` promises that only an answer to the
  challenge in progress is accepted. The code takes one message per request, and
  fails the request if it names another challenge (`auth_processor.rs:207`,
  `:231`). Both timeouts are 30 s and the watch's starts later, so the denial of
  an unanswered request reaches the daemon just when the next one is waiting.
* `pam_sigpipe`: `pam-module.c:320` and `docs/authentication-ja.md:33` promise
  that Enter goes on to the next method. When the daemon has already closed, the
  write that follows raises SIGPIPE (`pam-module.c:183`, and `:121` before it);
  an application with the default action for it ends there.
* `notify_reconnect`: `docs/authentication-ja.md:86` promises that a request is
  passed to the watch. After a reconnect the old link's handler is still the
  oldest waiter; it takes the next trigger, cannot notify, and its guard clears
  the flag that the new handler had set (`notify_ready_guard.rs:19`). Requests are
  then refused with a watch that waits for them, until it subscribes again.
* `link_stuck`: `ForegroundService.kt:74` says "BLE reconnecting...". The tap on
  reconnect comes before the collector has been given the first state, so no job
  was scheduled; the collector is then given Disconnected, uses the request up and
  finds no device (`ForegroundService.kt:76-78`); and `disconnect()`, which runs
  only now and has no client, sets Disconnected over that error
  (`BleManager.kt:98-101`), the value the collector was given last, which the
  state flow does not emit. No job, no request: nothing tries again.

None of them touches what a success means: none is given that was not approved.
`IsDuplicate` stays in the model as it is in the code, and so does the branch
behind it, which no run can take.

## The proofs

The theorems hold for every value of the constants under `ProcessorAssumption`,
`SessionAssumption`, `PamAssumption`, `NotifyAssumption`, `WatchAssumption` and
`ApprovalAssumption`, which ask for types, non-zero capacities, a non-zero
deadline, a `NoClient` and a `NotLent` that are no clients, and error texts that
are none of the other states.

**`AuthProcessorProofs`.** `Invariance` proves `Spec => []IInv`; each of the
other theorems follows from it, `NothingLost`, `CancelledNeverDecides` and
`GoneDecidesNothing` together with an invariant of their own. None of the
properties is inductive alone.
`SuccessIsJustified` speaks of the reply, and the reply was decided long before:
`VerdictsSound` carries the justification along the verdict and the result
channel, `GrantsSound` gives the grant that a cached answer refers to,
`MessagesVouched` says of every `Success` in a handler, in the channel or in the
processor's hand that the user approved its challenge, and `InHand` that the
request in hand was started no later than the challenge in the slot. `LineIsFresh`
says that a request in line has not been touched and is there once: without it a
request could be decided twice. The proof has one lemma per action, and under it
one step per conjunct that the action disturbs. `GoneDecidesNothing` is temporal:
once the processor is at the head of the `select!` with the cancellation in the
channel, `GivenUp` holds and stays: the processor waits, sends the cancellation,
or has dropped the request, and in none of these is it undone or decided, nor
taken up again, which is `LineIsFresh`. `NothingLost` is inductive
with `IInv`: a request leaves `Waiting` only for the processor's hand, and the
hand only with an answer in the result channel; that the two are distinct is
`LineIsFresh` and `InHand` again. `CancelledNeverDecides` needs `CancelsAreOld`:
the challenge of a cancellation was taken by nobody, and a request that waits for
the watch has drawn a later one, which is all that the slot can give.

**`AuthContractProofs`.** `Refinement` proves that `AuthProcessor` implements
`AuthContract` with `begun <- started` and `cached` the requests whose `basis` is
the cache. The contract's `Reply` needs a grant: `IInv` supplies it.
`RefreshChallenge` is `Begin`, `ReadChallenge` is `Issue`, `Judge` of a matching
success is `Grant`, `CheckSession` of an open session is `UseCache`,
`DeliverResult` is `Reply`, and the rest are stutters.

**`AuthSessionProofs`.** With a forward clock, an open window was opened in the
past, ends `Ttl` later and is as old as `age` says; expiry and `OnlyMarkReopens`
follow for every `Ttl`, 0 included.

**`PamModuleProofs`.** `PamInvariance` proves the module's `IInv`. `Stages` relates
the two program counters, `ResultSound` the main thread's result to the stored
state and to Enter, `CodeSound` the stored code to the daemon's byte, and
`DescriptorsSound` what is open where. The safety properties follow.

**`GattNotifyProofs`.** The invariant is `NotifyInv`. A flag is set by the latest
subscription and cleared by any guard: `TellersSound` and `CancellersSound` state
this with what `overlap` means, and give `ReadyHasHandler` and
`FlagExactWithoutOverlap`. `ToldInOrder` needs `TellsForward`: what the handler of
the link is about to tell is not older than what was told, because it peeked the
slot after that, and the slot holds the latest challenge (`ChallengeIsLatest`) or
nothing. `CancelsInOrder` needs `CancelsAscend`, the order of the cancellations
from the channel through the handlers to the watch, and `WaitedIsNewer`: the next
one to enter the channel is newer than all of them. `NoTriggerLost` is the safety
half of `TriggerReachesWatch`. It needs `WaitersQueue`: whoever sleeps is in the
queue and a permit is stored only when nobody does, so that a stored trigger is
never slept on; and `SlotHeld`: while a request waits the slot is not empty, so
that the handler which is woken has something to peek, and, by
`ChallengeIsLatest`, nothing older than what it was woken for.

**`DaemonLifecycleProofs`.** `HandleHolds` relates the handle to what bluetoothd
and the controller hold, `InstanceIsOld` says that an instance which this process
has not added was left by another, and `ServerIsOurs` that `bind` finds no file.

**`WatchApprovalProofs`.** In `ApprovalInv`, `StagesSound` says what the place a
coroutine has reached implies for its result, `PendingSound` that an undecided
coroutine is pending unless it met another, with the step between the look at
`pendingApproval` and its clearing, `TargetSound` which coroutines a tap in hand
can name, and `StoppedSound` that a cancelled one has its cancellation or denies.
`SignedByItsOwnTap` rests on a second invariant, `TapsInv`: `IntentsSound` (the
intents that wait are those of the last taps, in their order, and the one in hand
is that of the tap before them), `ApprovedSound` (a coroutine's tap was an Approve,
was handled, is no other coroutine's and is not the one in hand) and
`SignedSound`. A restart of the process keeps it, although the intents outlive it.

**`WatchConnectionProofs`.** `DownIsPending` is inductive together with
`WatchTypeOK` and `RunningIsUnnoticed`: while a job is still active after it has
connected, an end that the collector has seen already goes unnoticed, unless
somebody is connecting. It holds for any set of clients, the empty one included.
`ConnectedIsSubscribed` follows from `SubscribedInv`: `ConnectedHasLink` gives a
shown connection a client whose link is there or has just ended, and
`OneSubscribes` says that, while nothing is disturbed, one client at a time writes
descriptors and the queue holds what it has not written yet, and `CancelIsSecond`
that a client which writes the second descriptor finds the first one written, be
it by another client: so the end of its queue is the subscription to all that have
a descriptor, and to the challenges even where another client has emptied it.

Only model-checked: the liveness properties, which rest on fairness and are out of
the prover's reach, and of course the violated properties. Every invariant and every
action property of the passing runs is a theorem. The types of `PamModule` are a
conjunct of its `IInv`, like those of the daemon; those of `GattNotify` and of
`DaemonLifecycle` are theorems only, and no run repeats them.

## Not modelled

Poisoned mutexes and closed channels (they need a panic or the daemon's stop),
what the configuration holds beyond the TTL, malformed identities and responses
(rejected without a change of state), the layout of the identity and its
truncation, logging, and on the watch the user interface, the QR code and the key
store. `onDestroy` is left out: only a lost permission leads to it, and Android
ends the process of an application that loses one, which is `ServiceRestarts`.

`AuthProcessor!NotifyChallenge` takes the permit, reads the slot and notifies in
one step, and `NotifyCancel` receives and notifies in one step: `GattNotify` is
the module for what happens in between. The assignments of the state and of
the field `gatt` in `connectToPairedDevice()` (`BleManager.kt:92-93`) are one step.

A wall clock that is set back is in `live` alone. There it prolongs a session, and
revives one even with a TTL of 0 (`auth_session.rs:58`), against
`docs/authentication-ja.md:49`; the safety runs and the session's theorems are for
a clock that runs forward.

The parts are not composed into one system. End to end, a success of
`pam_sm_authenticate` needs the daemon's 0 on its connection (`PamSuccess`), the
daemon's 0 needs an approval (`SuccessJustified`), and the watch signs what is
approved there; that these three meet is argued here and not proved.

## Plan

1. `WristHello`: the composition of several `PamModule` calls, the daemon's
   contract and the watch, with one clock: 90 s for PAM, 30 s per request.
   Property: a success of `pam_sm_authenticate` is an approval on the watch, end
   to end, through `AuthContract`.
2. Contracts of `PamModule` and `WatchApproval`, as `AuthContract` is one of the
   daemon, with their refinement proofs: what item 1 composes.
