-------------------------- MODULE WatchConnection --------------------------
(***************************************************************************)
(* How the watch keeps its link: the connection part of BleManager.kt and  *)
(* the reconnection of ForegroundService.kt. Commands come on the main     *)
(* thread, GATT callbacks on a binder thread, and the collector of         *)
(* bleState and the reconnect job are coroutines: an action is what one of *)
(* them does between two accesses the others can see.                      *)
(*                                                                         *)
(* bleState is a StateFlow: a value equal to the last is not emitted, and  *)
(* a collector that is slow sees the latest value only. A BluetoothGatt is *)
(* a client of the one link to the host; a client that was not closed      *)
(* stays, and its callbacks go to the same BleManager.                     *)
(***************************************************************************)
EXTENDS Sequences

CONSTANTS
    Clients,    \* the GATT clients Android lends to an application (bound: 32)
    NoClient,
    NotLent,    \* what connectGatt() returns when all of them are lent
    GattErrors  \* the texts of the errors that a client can end in (bound)

ASSUME WatchAssumption ==
    /\ NoClient \notin Clients /\ NotLent \notin Clients /\ NotLent # NoClient
    /\ GattErrors \cap {"Connecting", "Connected", "Disconnected"} = {}

VARIABLES
    client,     \* per client: how far its connection is
    refused,    \* what connectGatt() found no client to lend for: to be reported, closed
    described,  \* the characteristics that have a CCCD at the host
    subscribed, \* the CCCDs that are set there
    bleState,   \* _bleState
    gatt,       \* BleManager.gatt
    queue,      \* notifyEnableQueue, without the characteristics that have no CCCD
    seen,       \* the last value the collector of bleState was given
    job,        \* reconnectJob
    requested,  \* reconnectRequested
    leaving,    \* requestReconnect is about to call disconnect()
    callers,    \* who is in connectToPairedDevice() and has looked at bleState
    unnoticed,  \* history: nobody was told of the connection's latest end
    disturbed   \* history: what interfered with the subscriptions of this link

managerVars == <<bleState, gatt, queue>>
serviceVars == <<seen, job, requested, leaving, callers>>
hostVars == <<described, subscribed>>
watchVars == <<client, refused, hostVars, managerVars, serviceVars, unnoticed, disturbed>>

Characteristics == {"challenge", "cancel"}

\* The main thread, the collector of bleState, and the reconnect job.
Callers == {"main", "collector", "job"}

\* Where nothing is connected and nothing tries to be: Disconnected, Error(..).
Down == {"Disconnected", "NoDevice"} \cup GattErrors

WatchTypeOK ==
    /\ client \in [Clients -> {"free", "connecting", "discovering", "challenge", "cancel",
                               "idle", "dropped", "closing"}]
    /\ refused \subseteq {"due", "closing"}
    /\ described \subseteq Characteristics
    /\ subscribed \subseteq Characteristics
    /\ bleState \in Down \cup {"Connecting", "Connected"}
    /\ gatt \in Clients \cup {NoClient, NotLent}
    /\ gatt \in Clients => client[gatt] # "free"
    /\ gatt = NotLent => refused # {}
    /\ queue \in {<<>>, <<"cancel">>}
    /\ seen \in Down \cup {"none", "Connecting", "Connected"}
    /\ job \in {"none", "delay", "running"}
    /\ requested \in BOOLEAN /\ leaving \in BOOLEAN
    /\ callers \subseteq Callers
    /\ leaving => "main" \notin callers
    /\ unnoticed \in BOOLEAN /\ disturbed \in {"nothing", "client", "host"}

\* onCreate: a new BleManager, whose state the collector has yet to see.
ServiceStarts ==
    /\ client' = [g \in Clients |-> "free"]
    /\ refused' = {}
    /\ described' = described
    /\ subscribed' = {}
    /\ bleState' = "Disconnected" /\ gatt' = NoClient /\ queue' = <<>>
    /\ seen' = "none" /\ job' = "none" /\ requested' = FALSE /\ leaving' = FALSE
    /\ callers' = {}
    /\ unnoticed' = FALSE /\ disturbed' = "nothing"

WatchInit ==
    /\ client = [g \in Clients |-> "free"]
    /\ refused = {}
    /\ described \in SUBSET Characteristics
    /\ subscribed = {}
    /\ bleState = "Disconnected" /\ gatt = NoClient /\ queue = <<>>
    /\ seen = "none" /\ job = "none" /\ requested = FALSE /\ leaving = FALSE
    /\ callers = {}
    /\ unnoticed = FALSE /\ disturbed = "nothing"

\* The clients that hold the link.
Linked == {g \in Clients : client[g] \in {"discovering", "challenge", "cancel", "idle"}}

\* The clients that write a descriptor.
Subscribing == {g \in Clients : client[g] \in Characteristics}

\* A callback fills or empties the queue that the clients in others work through.
Interferes(others) ==
    disturbed' = IF disturbed = "nothing" /\ others # {} THEN "client" ELSE disturbed

\* _bleState.value = v: the collector is not told what it was told last, and then
\* only a delay that still runs will look at it again.
SetState(v) ==
    /\ bleState' = v
    /\ unnoticed' = (v \in Down /\ v = seen' /\ job' # "delay")

-----------------------------------------------------------------------------
(***************************************************************************)
(* BleManager.                                                             *)
(***************************************************************************)
\* connectToPairedDevice(), up to its look at the state.
LookAtState(p) ==
    callers' = IF bleState \in Down THEN callers \cup {p} ELSE callers

\* Bluetooth is off, or no bonded device has SERVICE_UUID.
NoDeviceFound == SetState("NoDevice") /\ UNCHANGED <<gatt, client, refused>>

ConnectGatt(g) ==
    /\ client[g] = "free"
    /\ SetState("Connecting")
    /\ client' = [client EXCEPT ![g] = "connecting"]
    /\ gatt' = g
    /\ UNCHANGED refused

\* connectGatt() finds that Android has no client to lend.
NoClientLeft ==
    /\ \A g \in Clients : client[g] # "free"
    /\ SetState("Connecting")
    /\ refused' = refused \cup {"due"}
    /\ gatt' = NotLent
    /\ UNCHANGED client

\* The rest of it, whatever the state has become.
ConnectToPairedDevice(p) ==
    /\ p \in callers
    /\ callers' = callers \ {p}
    /\ UNCHANGED <<hostVars, queue, seen, job, requested, leaving, disturbed>>
    /\ \/ NoDeviceFound
       \/ \E g \in Clients : ConnectGatt(g)
       \/ NoClientLeft

\* STATE_CONNECTED, and the call of discoverServices().
ClientConnects(g) ==
    /\ client[g] = "connecting"
    /\ client' = [client EXCEPT ![g] = "discovering"]
    /\ gatt' = g
    /\ UNCHANGED <<refused, hostVars, bleState, queue, serviceVars, unnoticed, disturbed>>

\* The attempt fails, or the host, the radio or disconnect() ends the link of all.
\* A client whose end was reported has none.
LinkEnds(gone) ==
    /\ client' = [g \in Clients |-> IF g \in gone /\ client[g] # "closing" THEN "dropped"
                                    ELSE client[g]]
    /\ IF Linked \subseteq gone THEN subscribed' = {} /\ disturbed' = "nothing"
                               ELSE UNCHANGED <<subscribed, disturbed>>
    /\ UNCHANGED described

\* STATE_DISCONNECTED: the state is set first, and the collector may connect again
\* before the rest is done.
ClientDisconnects(g) ==
    /\ client[g] = "dropped"
    /\ UNCHANGED <<refused, hostVars, gatt, serviceVars>>
    /\ client' = [client EXCEPT ![g] = "closing"]
    /\ queue' = <<>>
    /\ SetState("Disconnected")
    /\ Interferes(Subscribing)

\* Mutant of CloseClient: the field is left as it is.
CloseClient_KeepsField(g) ==
    /\ client[g] = "closing"
    /\ client' = [client EXCEPT ![g] = "free"]
    /\ UNCHANGED <<refused, hostVars, bleState, gatt, queue, serviceVars, unnoticed,
                   disturbed>>

\* The client is closed, and the field forgotten, whichever client it names.
CloseClient(g) ==
    /\ client[g] = "closing"
    /\ client' = [client EXCEPT ![g] = "free"]
    /\ gatt' = NoClient
    /\ UNCHANGED <<refused, hostVars, bleState, queue, serviceVars, unnoticed, disturbed>>

\* The callback of an attempt that Android had no client for: STATE_DISCONNECTED, and
\* no client to report it of. Attempts that are due together are reported as one.
ClientRefused ==
    /\ "due" \in refused
    /\ UNCHANGED <<client, hostVars, gatt, serviceVars>>
    /\ refused' = (refused \ {"due"}) \cup {"closing"}
    /\ queue' = <<>>
    /\ SetState("Disconnected")
    /\ Interferes(Subscribing)

\* The rest of it: the field is forgotten, whichever client it names by now.
CloseRefused ==
    /\ "closing" \in refused
    /\ refused' = refused \ {"closing"}
    /\ gatt' = NoClient
    /\ UNCHANGED <<client, hostVars, bleState, queue, serviceVars, unnoticed, disturbed>>

\* enableNextNotify, with q in the queue: the first descriptor of q is being written,
\* and with none left the watch is Connected.
EnableNextNotify(g, q) ==
    IF q = <<>>
      THEN /\ SetState("Connected")
           /\ client' = [client EXCEPT ![g] = "idle"]
           /\ queue' = <<>>
      ELSE /\ client' = [client EXCEPT ![g] = Head(q)]
           /\ queue' = Tail(q)
           /\ UNCHANGED <<bleState, unnoticed>>

\* The two characteristics in the order they are enabled, without those that have no
\* CCCD: enableNextNotify passes over them.
ToEnable ==
    CASE described = Characteristics -> <<"challenge", "cancel">>
      [] described = {"challenge"} -> <<"challenge">>
      [] described = {"cancel"} -> <<"cancel">>
      [] described = {} -> <<>>

\* onServicesDiscovered with the service and both characteristics, and enableNotify.
DiscoverServices(g) ==
    /\ client[g] = "discovering"
    /\ EnableNextNotify(g, ToEnable)
    /\ Interferes(Subscribing)
    /\ UNCHANGED <<refused, hostVars, gatt, serviceVars>>

\* onServicesDiscovered with an error or without the characteristics, or a
\* descriptor that cannot be written, which empties the queue: the client is not closed.
ClientFails(g) ==
    /\ UNCHANGED <<refused, hostVars, gatt, serviceVars>>
    /\ client' = [client EXCEPT ![g] = "idle"]
    /\ \/ client[g] = "discovering" /\ UNCHANGED <<queue, disturbed>>
       \/ /\ client[g] \in Characteristics \/ (client[g] = "discovering" /\ described # {})
          /\ queue' = <<>>
          /\ Interferes(Subscribing \ {g})
    /\ \E e \in GattErrors : SetState(e)

\* Mutant of WriteDescriptor: Connected with the first subscription.
WriteDescriptor_First(g) ==
    /\ client[g] \in Characteristics
    /\ subscribed' = subscribed \cup {client[g]}
    /\ SetState("Connected")
    /\ client' = [client EXCEPT ![g] = IF queue = <<>> THEN "idle" ELSE Head(queue)]
    /\ queue' = IF queue = <<>> THEN queue ELSE Tail(queue)
    /\ UNCHANGED <<refused, described, gatt, serviceVars, disturbed>>

\* onDescriptorWrite, and enableNextNotify.
WriteDescriptor(g) ==
    /\ client[g] \in Characteristics
    /\ subscribed' = subscribed \cup {client[g]}
    /\ EnableNextNotify(g, queue)
    /\ UNCHANGED <<refused, described, gatt, serviceVars, disturbed>>

Callback(g) ==
    \/ ClientConnects(g) \/ ClientDisconnects(g) \/ CloseClient(g)
    \/ DiscoverServices(g) \/ ClientFails(g) \/ WriteDescriptor(g)

-----------------------------------------------------------------------------
(***************************************************************************)
(* ForegroundService.                                                      *)
(***************************************************************************)
\* Mutant of ScheduleReconnect: not while the field is set, which no end of a job resets.
ScheduleReconnect_Never == UNCHANGED job /\ unnoticed' = FALSE

\* scheduleReconnect(): not while a job is active, and one that has called
\* connectIfPossible but not returned is.
ScheduleReconnect ==
    /\ job' = IF job = "none" THEN "delay" ELSE job
    /\ unnoticed' = (job = "running")

\* The collector is given the state, and acts on it.
Collect ==
    /\ "collector" \notin callers
    /\ seen # bleState
    /\ seen' = bleState
    /\ \/ /\ bleState = "Connecting"
          /\ UNCHANGED <<job, requested, callers, unnoticed>>
       \/ /\ bleState = "Connected"
          /\ job' = "none"
          /\ UNCHANGED <<requested, callers, unnoticed>>
       \/ /\ bleState = "Disconnected" /\ requested
          /\ requested' = FALSE
          /\ LookAtState("collector")
          /\ UNCHANGED <<job, unnoticed>>
       \/ /\ bleState \in Down /\ ~(bleState = "Disconnected" /\ requested)
          /\ ScheduleReconnect
          /\ UNCHANGED <<requested, callers>>
    /\ UNCHANGED <<client, refused, hostVars, managerVars, leaving, disturbed>>

ServiceElsewhere ==
    UNCHANGED <<client, refused, hostVars, managerVars, seen, disturbed>>

\* The job's delay is over: connectIfPossible(). One that was cancelled before it
\* is done there is long gone when the next one's delay is over.
JobConnects ==
    /\ job = "delay"
    /\ "job" \notin callers
    /\ job' = "running"
    /\ LookAtState("job")
    /\ UNCHANGED <<requested, leaving, unnoticed>>
    /\ ServiceElsewhere

JobEnds ==
    /\ job = "running"
    /\ "job" \notin callers
    /\ job' = "none"
    /\ UNCHANGED <<requested, leaving, callers, unnoticed>>
    /\ ServiceElsewhere

\* onStartCommand without an action: connectIfPossible().
StartCommand ==
    /\ ~leaving /\ "main" \notin callers
    /\ LookAtState("main")
    /\ UNCHANGED <<job, requested, leaving, unnoticed>>
    /\ ServiceElsewhere

\* ACTION_RECONNECT, from a tap: requestReconnect() up to disconnect(). A job in
\* connectToPairedDevice() is cancelled, and goes on to its end.
RequestReconnect ==
    /\ ~leaving /\ "main" \notin callers
    /\ job' = "none"
    /\ requested' = TRUE
    /\ leaving' = TRUE
    /\ UNCHANGED <<callers, unnoticed>>
    /\ ServiceElsewhere

\* disconnect(), which tells nobody of a client whose end was reported already, and
\* does nothing to one that was never lent.
Disconnect ==
    /\ leaving
    /\ UNCHANGED <<refused, gatt, queue, seen, job, requested, callers>>
    /\ leaving' = FALSE
    /\ \/ /\ gatt = NoClient
          /\ SetState("Disconnected")
          /\ UNCHANGED <<client, hostVars, disturbed>>
       \/ /\ gatt = NotLent
          /\ unnoticed' = (unnoticed \/ "due" \notin refused)
          /\ UNCHANGED <<client, hostVars, bleState, disturbed>>
       \/ /\ gatt \in Clients
          /\ LinkEnds({gatt})
          /\ unnoticed' = (unnoticed \/ client[gatt] = "closing")
          /\ UNCHANGED bleState

\* An end, or a refusal, that is to be reported.
BinderStep ==
    \/ ClientRefused \/ CloseRefused
    \/ \E g \in Clients : ClientDisconnects(g) \/ CloseClient(g)

CollectorStep == Collect \/ ConnectToPairedDevice("collector")
JobStep == JobConnects \/ ConnectToPairedDevice("job") \/ JobEnds
MainStep == Disconnect \/ ConnectToPairedDevice("main")

-----------------------------------------------------------------------------
(***************************************************************************)
(* What happens to the watch.                                              *)
(***************************************************************************)
\* The host or the radio ends the link, or an attempt to connect, of all clients.
LinkLost ==
    /\ \E g \in Clients : client[g] \notin {"free", "dropped", "closing"}
    /\ LinkEnds({g \in Clients : client[g] # "free"})
    /\ UNCHANGED <<refused, managerVars, serviceVars, unnoticed>>

\* The process is killed, and the sticky service started again.
ServiceRestarts == ServiceStarts

WatchStep ==
    \/ \E g \in Clients : Callback(g)
    \/ ClientRefused \/ CloseRefused
    \/ CollectorStep \/ JobStep \/ MainStep
    \/ StartCommand \/ RequestReconnect
    \/ LinkLost \/ ServiceRestarts

\* The daemon goes, and comes back: its end takes the CCCDs with it and leaves the
\* link, which is bluetoothd's. How long it is away is in the failures of clients.
HostRestarts ==
    /\ subscribed # {}
    /\ subscribed' = {}
    /\ disturbed' = "host"
    /\ UNCHANGED <<client, refused, described, managerVars, serviceVars, unnoticed>>

WatchNext == WatchStep \/ HostRestarts

WatchSpec == WatchInit /\ [][WatchNext]_watchVars

\* The coroutines and the main thread run, and the end of a link is reported.
WatchFairness ==
    /\ WF_watchVars(CollectorStep)
    /\ WF_watchVars(JobStep)
    /\ WF_watchVars(MainStep)
    /\ WF_watchVars(BinderStep)

WatchFairSpec == WatchSpec /\ WatchFairness

-----------------------------------------------------------------------------
\* A watch that shows itself connected is subscribed to whatever of the challenges and
\* the cancellations has a descriptor, or its link has just ended. A client that fills or
\* empties the queue of another may cost it the cancellations, and never the challenges;
\* the host's application that goes, both (BleManager.kt:125-130, 160-173, 201-229).
ConnectedIsSubscribed ==
    bleState = "Connected" =>
        \/ \E g \in Clients : client[g] = "dropped"
        \/ disturbed = "host"
        \/ disturbed = "client" /\ described \ {"cancel"} \subseteq subscribed
        \/ described \subseteq subscribed

\* While the watch is down somebody is about to try again: the collector, a job,
\* disconnect() or the callback of a client; or nobody was told that it is down,
\* because the state was set to what the collector had seen, or told while the job
\* was still active, or the tap came while the client was being closed
\* (ForegroundService.kt:28-40, 58-90, 137-144).
DownIsPending ==
    bleState \in Down =>
        \/ seen # bleState
        \/ job # "none"
        \/ leaving
        \/ callers # {}
        \/ "due" \in refused
        \/ \E g \in Clients : client[g] = "dropped"
        \/ unnoticed

\* A watch does not stay down: it tries again, and again; unless the user taps, nobody
\* was told that it is down, or the service is started anew
\* (ForegroundService.kt:58-90, 137-144).
DownIsRetried == []<>(bleState \notin Down \/ unnoticed \/ leaving \/ seen = "none")

\* "BLE reconnecting..." (ForegroundService.kt:74): a watch that says so tries again,
\* once the user taps no more and the service lives.
ReconnectingConnects ==
    <>[](~leaving /\ seen # "none") => (seen = "Disconnected" ~> bleState # "Disconnected")
=============================================================================
