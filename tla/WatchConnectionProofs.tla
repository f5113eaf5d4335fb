------------------------ MODULE WatchConnectionProofs ------------------------
(***************************************************************************)
(* For any number of GATT clients: a watch that is down has somebody about *)
(* to try again, or was told nothing by its state flow.                    *)
(***************************************************************************)
EXTENDS WatchConnection, TLAPS

USE WatchAssumption

\* A job that found no device, or was refused at once, while the collector had
\* already seen the same state: its end goes unnoticed, as it is still active; or
\* somebody is connecting.
RunningIsUnnoticed ==
    job = "running" /\ bleState \in Down /\ seen = bleState => unnoticed \/ callers # {}

WatchInv == WatchTypeOK /\ RunningIsUnnoticed /\ DownIsPending

-----------------------------------------------------------------------------
LEMMA WatchTypeInit == WatchInit => WatchTypeOK
BY DEF WatchInit, WatchTypeOK, Down, Characteristics

\* What is enabled is what has a descriptor, in the order of the code.
LEMMA ToEnableIsDescribed ==
    ASSUME WatchTypeOK
    PROVE  \/ ToEnable = <<>> /\ described = {}
           \/ /\ ToEnable # <<>> /\ Head(ToEnable) = "challenge"
              /\ "challenge" \in described
              /\ Tail(ToEnable) = IF "cancel" \in described THEN <<"cancel">> ELSE <<>>
           \/ /\ ToEnable # <<>> /\ Head(ToEnable) = "cancel" /\ Tail(ToEnable) = <<>>
              /\ described = {"cancel"}
<1>1. CASE described = Characteristics
  <2>1. ToEnable = <<"challenge", "cancel">>
    BY <1>1 DEF Characteristics, ToEnable
  <2>2. Head(ToEnable) = "challenge" /\ Tail(ToEnable) = <<"cancel">> /\ ToEnable # <<>>
    BY <2>1
  <2>3. "challenge" \in described /\ "cancel" \in described
    BY <1>1 DEF Characteristics
  <2> QED BY <2>2, <2>3
<1>2. CASE described = {"challenge"}
  <2>1. ToEnable = <<"challenge">>
    BY <1>2 DEF Characteristics, ToEnable
  <2> QED BY <1>2, <2>1
<1>3. CASE described = {"cancel"}
  <2>1. ToEnable = <<"cancel">>
    BY <1>3 DEF Characteristics, ToEnable
  <2> QED BY <1>3, <2>1
<1>4. CASE described = {}
  <2>1. ToEnable = <<>>
    BY <1>4 DEF Characteristics, ToEnable
  <2> QED BY <1>4, <2>1
<1> QED
  <2>1. described \subseteq {"challenge", "cancel"}
    BY DEF WatchTypeOK, Characteristics
  <2> QED BY <1>1, <1>2, <1>3, <1>4, <2>1 DEF Characteristics

\* enableNextNotify() keeps the types.
LEMMA EnableTypes ==
    ASSUME WatchTypeOK, NEW g \in Clients, NEW q, EnableNextNotify(g, q),
           q = <<>> \/ (Head(q) \in Characteristics /\ Tail(q) \in {<<>>, <<"cancel">>}),
           client[g] # "free", subscribed' \subseteq Characteristics,
           disturbed' \in {"nothing", "client", "host"},
           UNCHANGED <<refused, described, gatt, serviceVars>>
    PROVE  WatchTypeOK'
<1>1. /\ bleState' \in Down \cup {"Connecting", "Connected"} /\ unnoticed' \in BOOLEAN
      /\ queue' \in {<<>>, <<"cancel">>}
  BY DEF EnableNextNotify, SetState, WatchTypeOK
<1>2. \E s \in {"challenge", "cancel", "idle"} : client' = [client EXCEPT ![g] = s]
  BY DEF EnableNextNotify, Characteristics
<1>3. /\ client' \in [Clients -> {"free", "connecting", "discovering", "challenge", "cancel",
                                  "idle", "dropped", "closing"}]
      /\ gatt' \in Clients => client'[gatt'] # "free"
  BY <1>2 DEF WatchTypeOK
<1> QED BY <1>1, <1>3 DEF WatchTypeOK, serviceVars

\* connectToPairedDevice() keeps the types.
LEMMA ConnectTypes ==
    ASSUME WatchTypeOK, NEW p \in Callers, ConnectToPairedDevice(p)
    PROVE  WatchTypeOK'
<1> USE DEF ConnectToPairedDevice, WatchTypeOK, SetState, Down, hostVars
<1>1. CASE NoDeviceFound
  BY <1>1 DEF NoDeviceFound
<1>2. ASSUME NEW g \in Clients, ConnectGatt(g) PROVE WatchTypeOK'
  BY <1>2 DEF ConnectGatt
<1>3. CASE NoClientLeft
  BY <1>3 DEF NoClientLeft
<1> QED BY <1>1, <1>2, <1>3

\* Who has looked is one of the callers.
LEMMA LookTypes ==
    ASSUME WatchTypeOK, NEW p \in Callers, LookAtState(p)
    PROVE  callers' \subseteq Callers
BY DEF WatchTypeOK, LookAtState

LEMMA WatchTypeInductive == WatchTypeOK /\ [WatchNext]_watchVars => WatchTypeOK'
<1> SUFFICES ASSUME WatchTypeOK, [WatchNext]_watchVars PROVE WatchTypeOK'
  OBVIOUS
<1>1. ASSUME NEW g \in Clients, Callback(g) PROVE WatchTypeOK'
  <2>1. CASE ClientConnects(g)
    BY <2>1 DEF WatchTypeOK, ClientConnects, serviceVars, hostVars
  <2>2. CASE ClientDisconnects(g)
    BY <2>2 DEF WatchTypeOK, ClientDisconnects, SetState, Down, serviceVars, hostVars,
                Interferes
  <2>3. CASE DiscoverServices(g)
    <3>1. \/ ToEnable = <<>>
          \/ Head(ToEnable) \in Characteristics /\ Tail(ToEnable) \in {<<>>, <<"cancel">>}
      BY ToEnableIsDescribed DEF Characteristics
    <3>2. disturbed' \in {"nothing", "client", "host"} /\ subscribed' \subseteq Characteristics
      BY <2>3 DEF DiscoverServices, Interferes, WatchTypeOK, hostVars
    <3> QED BY <2>3, <3>1, <3>2, EnableTypes DEF DiscoverServices, hostVars
  <2>4. CASE ClientFails(g)
    <3>1. /\ bleState' \in Down /\ unnoticed' \in BOOLEAN
          /\ queue' \in {<<>>, <<"cancel">>} /\ disturbed' \in {"nothing", "client", "host"}
      BY <2>4 DEF WatchTypeOK, ClientFails, SetState, Down, Interferes
    <3>2. client[g] # "free" /\ client' = [client EXCEPT ![g] = "idle"]
      BY <2>4 DEF ClientFails, Characteristics
    <3>3. UNCHANGED <<refused, hostVars, gatt, serviceVars>>
      BY <2>4 DEF ClientFails
    <3> QED BY <3>1, <3>2, <3>3 DEF WatchTypeOK, serviceVars, hostVars
  <2>5. CASE WriteDescriptor(g)
    <3>1. queue = <<>> \/ (Head(queue) \in Characteristics /\ Tail(queue) = <<>>)
      <4>1. CASE queue = <<"cancel">>
        BY <4>1 DEF Characteristics
      <4> QED BY <4>1 DEF WatchTypeOK
    <3>2. client[g] # "free" /\ subscribed' \subseteq Characteristics
      BY <2>5 DEF WriteDescriptor, WatchTypeOK, Characteristics
    <3> QED BY <2>5, <3>1, <3>2, EnableTypes DEF WriteDescriptor, WatchTypeOK
  <2>6. CASE CloseClient(g)
    BY <2>6 DEF WatchTypeOK, CloseClient, serviceVars, hostVars
  <2> QED BY <1>1, <2>1, <2>2, <2>3, <2>4, <2>5, <2>6 DEF Callback
<1>2. CASE ClientRefused \/ CloseRefused
  <2>1. CASE ClientRefused
    <3>1. /\ bleState' = "Disconnected" /\ unnoticed' \in BOOLEAN /\ disturbed' \in {"nothing", "client", "host"}
          /\ queue' = <<>> /\ refused' \subseteq {"due", "closing"} /\ refused' # {}
          /\ UNCHANGED <<client, hostVars, gatt, serviceVars>>
      BY <2>1 DEF WatchTypeOK, ClientRefused, SetState, Interferes
    <3> QED BY <3>1 DEF WatchTypeOK, Down, serviceVars, hostVars
  <2>2. CASE CloseRefused
    BY <2>2 DEF WatchTypeOK, CloseRefused, serviceVars, hostVars
  <2> QED BY <1>2, <2>1, <2>2
<1>3. CASE Collect
  <2>1. seen' \in Down \cup {"none", "Connecting", "Connected"}
    BY <1>3 DEF WatchTypeOK, Collect
  <2>2. /\ job' \in {"none", "delay", "running"} /\ requested' \in BOOLEAN
        /\ unnoticed' \in BOOLEAN
    BY <1>3 DEF WatchTypeOK, Collect, ScheduleReconnect
  <2>3. callers' \in {callers, callers \cup {"collector"}}
    BY <1>3 DEF Collect, LookAtState
  <2>4. callers' \subseteq Callers /\ (leaving => "main" \notin callers')
    BY <2>3 DEF WatchTypeOK, Callers
  <2> QED BY <1>3, <2>1, <2>2, <2>4 DEF WatchTypeOK, Collect, managerVars, hostVars
<1>4. CASE JobConnects
  <2>1. callers' \in {callers, callers \cup {"job"}}
    BY <1>4 DEF JobConnects, LookAtState
  <2>2. callers' \subseteq Callers /\ (leaving => "main" \notin callers')
    BY <2>1 DEF WatchTypeOK, Callers
  <2> QED BY <1>4, <2>2 DEF WatchTypeOK, JobConnects, ServiceElsewhere, managerVars, hostVars
<1>5. CASE JobEnds
  BY <1>5 DEF WatchTypeOK, JobEnds, ServiceElsewhere, managerVars, hostVars
<1>6. CASE Disconnect
  <2>1. CASE gatt = NoClient
    BY <1>6, <2>1 DEF WatchTypeOK, Disconnect, SetState, Down, hostVars
  <2>2. CASE LinkEnds({gatt}) /\ gatt \in Clients
    <3>1. subscribed' \subseteq Characteristics /\ disturbed' \in {"nothing", "client", "host"}
      BY <2>2 DEF WatchTypeOK, LinkEnds
    <3>2. client' = [g \in Clients |-> IF g \in {gatt} /\ client[g] # "closing"
                                         THEN "dropped" ELSE client[g]]
      BY <2>2 DEF LinkEnds
    <3>3. /\ leaving' \in BOOLEAN /\ unnoticed' \in BOOLEAN
          /\ leaving' => "main" \notin callers'
          /\ UNCHANGED <<refused, gatt, queue, seen, job, requested, callers, bleState,
                         described>>
      BY <1>6, <2>2 DEF Disconnect, WatchTypeOK, LinkEnds
    <3> QED BY <3>1, <3>2, <3>3 DEF WatchTypeOK
  <2>3. CASE gatt = NotLent
    BY <1>6, <2>3 DEF WatchTypeOK, Disconnect, hostVars
  <2> QED BY <1>6, <2>1, <2>2, <2>3 DEF Disconnect
<1>7. CASE StartCommand
  <2>1. callers' \subseteq Callers
    BY <1>7, LookTypes DEF StartCommand, Callers
  <2> QED BY <1>7, <2>1 DEF WatchTypeOK, StartCommand, ServiceElsewhere, managerVars, hostVars
<1>8. CASE RequestReconnect
  BY <1>8 DEF WatchTypeOK, RequestReconnect, ServiceElsewhere, managerVars, hostVars
<1>9. CASE LinkLost
  BY <1>9 DEF WatchTypeOK, LinkLost, LinkEnds, managerVars, serviceVars
<1>10. CASE ServiceRestarts
  BY <1>10 DEF WatchTypeOK, ServiceRestarts, ServiceStarts, Down
<1>11. ASSUME NEW p \in Callers, ConnectToPairedDevice(p) PROVE WatchTypeOK'
  BY <1>11, ConnectTypes
<1>12. CASE HostRestarts
  BY <1>12 DEF WatchTypeOK, HostRestarts, managerVars, serviceVars
<1>13. CASE UNCHANGED watchVars
  BY <1>13 DEF WatchTypeOK, watchVars, managerVars, serviceVars, hostVars
<1> QED BY <1>1, <1>2, <1>3, <1>4, <1>5, <1>6, <1>7, <1>8, <1>9, <1>10, <1>11, <1>12, <1>13
        DEF WatchNext, WatchStep, CollectorStep, JobStep, MainStep, Callers

-----------------------------------------------------------------------------
\* A state that is set to what the collector has seen goes unnoticed, but for a
\* delay that runs.
LEMMA SetStateIsPending ==
    ASSUME NEW v, SetState(v)
    PROVE  bleState' \in Down => seen' # bleState' \/ job' = "delay" \/ unnoticed'
BY DEF SetState

LEMMA ConnectIsPending ==
    ASSUME NEW p \in Callers, ConnectToPairedDevice(p)
    PROVE  bleState' \in Down => seen' # bleState' \/ job' = "delay" \/ unnoticed'
BY SetStateIsPending DEF ConnectToPairedDevice, NoDeviceFound, ConnectGatt, NoClientLeft

\* A step that sets the state leaves it pending.
LEMMA PendingIsInv ==
    ASSUME bleState' \in Down => seen' # bleState' \/ job' = "delay" \/ unnoticed'
    PROVE  RunningIsUnnoticed' /\ DownIsPending'
BY DEF RunningIsUnnoticed, DownIsPending

LEMMA WatchInvInductive == WatchInv /\ [WatchNext]_watchVars => WatchInv'
<1> SUFFICES ASSUME WatchInv, [WatchNext]_watchVars
             PROVE  RunningIsUnnoticed' /\ DownIsPending'
  BY WatchTypeInductive DEF WatchInv
<1>1. ASSUME NEW g \in Clients, Callback(g) PROVE RunningIsUnnoticed' /\ DownIsPending'
  <2>1. CASE ClientDisconnects(g)
    BY <2>1, SetStateIsPending, PendingIsInv DEF ClientDisconnects
  <2>2. CASE ClientFails(g)
    <3>1. PICK e \in GattErrors : SetState(e)
      BY <2>2 DEF ClientFails
    <3> QED BY <3>1, SetStateIsPending, PendingIsInv
  <2>3. CASE SetState("Connected")
    BY <2>3, SetStateIsPending, PendingIsInv
  <2>4. ASSUME UNCHANGED <<bleState, serviceVars, refused, unnoticed>>,
               \A h \in Clients : client[h] = "dropped" => client'[h] = "dropped"
        PROVE  RunningIsUnnoticed' /\ DownIsPending'
    BY <2>4 DEF WatchInv, RunningIsUnnoticed, DownIsPending, serviceVars
  <2>5. CASE (DiscoverServices(g) \/ WriteDescriptor(g)) /\ UNCHANGED <<bleState, unnoticed>>
    <3>1. PICK s : client' = [client EXCEPT ![g] = s]
      BY <2>5 DEF DiscoverServices, WriteDescriptor, EnableNextNotify
    <3>2. client[g] # "dropped" /\ UNCHANGED <<serviceVars, refused>>
      BY <2>5 DEF DiscoverServices, WriteDescriptor, Characteristics
    <3> QED BY <2>5, <3>1, <3>2, <2>4 DEF WatchInv, WatchTypeOK
  <2>6. CASE ClientConnects(g)
    BY <2>6, <2>4 DEF ClientConnects, WatchInv, WatchTypeOK
  <2>8. CASE CloseClient(g)
    BY <2>8, <2>4 DEF CloseClient, WatchInv, WatchTypeOK
  <2>9. DiscoverServices(g) \/ WriteDescriptor(g) =>
            SetState("Connected") \/ UNCHANGED <<bleState, unnoticed>>
    BY DEF DiscoverServices, WriteDescriptor, EnableNextNotify
  <2> QED BY <1>1, <2>1, <2>2, <2>3, <2>5, <2>6, <2>8, <2>9 DEF Callback
<1>2. CASE ClientRefused \/ CloseRefused
  <2>1. CASE ClientRefused
    BY <2>1, SetStateIsPending, PendingIsInv DEF ClientRefused
  <2>2. CASE CloseRefused
    <3>1. /\ UNCHANGED <<client, bleState, serviceVars, unnoticed>>
          /\ "due" \in refused => "due" \in refused'
      BY <2>2 DEF CloseRefused
    <3> QED BY <3>1 DEF WatchInv, RunningIsUnnoticed, DownIsPending, serviceVars
  <2> QED BY <1>2, <2>1, <2>2
<1>3. CASE Collect
  <2>1. bleState' = bleState
    BY <1>3 DEF Collect, managerVars
  <2>2. CASE LookAtState("collector")
    <3>1. bleState \in Down => callers' # {}
      BY <2>2 DEF LookAtState
    <3> QED BY <2>1, <3>1 DEF RunningIsUnnoticed, DownIsPending
  <2>3. CASE ScheduleReconnect
    <3>1. job' = "delay" \/ unnoticed'
      BY <2>3 DEF ScheduleReconnect, WatchInv, WatchTypeOK
    <3> QED BY <3>1, PendingIsInv
  <2>4. CASE bleState \in {"Connecting", "Connected"}
    BY <2>1, <2>4, PendingIsInv DEF Down
  <2> QED BY <1>3, <2>2, <2>3, <2>4 DEF Collect
<1>4. CASE JobConnects
  <2>1. bleState' = bleState /\ (bleState \in Down => callers' # {})
    BY <1>4 DEF JobConnects, ServiceElsewhere, managerVars, LookAtState
  <2> QED BY <2>1 DEF RunningIsUnnoticed, DownIsPending
<1>5. CASE JobEnds
  BY <1>5 DEF JobEnds, WatchInv, RunningIsUnnoticed, DownIsPending, ServiceElsewhere,
              managerVars
<1>6. CASE Disconnect
  <2>1. CASE SetState("Disconnected")
    BY <2>1, SetStateIsPending, PendingIsInv
  <2>2. CASE /\ gatt \in Clients /\ LinkEnds({gatt}) /\ bleState' = bleState
             /\ unnoticed' = (unnoticed \/ client[gatt] = "closing")
    <3>1. client'[gatt] = "dropped" \/ unnoticed'
      BY <2>2 DEF LinkEnds
    <3>2. UNCHANGED <<seen, job, callers, refused>>
      BY <1>6 DEF Disconnect
    <3>3. unnoticed => unnoticed'
      BY <2>2
    <3>4. RunningIsUnnoticed'
      BY <2>2, <3>2, <3>3 DEF WatchInv, RunningIsUnnoticed
    <3> QED BY <2>2, <3>1, <3>4 DEF DownIsPending
  <2>3. CASE /\ gatt = NotLent /\ UNCHANGED <<client, bleState>>
             /\ unnoticed' = (unnoticed \/ "due" \notin refused)
    <3>1. UNCHANGED <<seen, job, callers, refused>>
      BY <1>6 DEF Disconnect
    <3>2. "due" \in refused' \/ unnoticed'
      BY <2>3, <3>1
    <3> QED BY <2>3, <3>1, <3>2 DEF WatchInv, RunningIsUnnoticed, DownIsPending
  <2> QED BY <1>6, <2>1, <2>2, <2>3 DEF Disconnect
<1>7. CASE StartCommand
  <2>1. bleState' = bleState /\ (bleState \in Down => callers' # {})
    BY <1>7 DEF StartCommand, ServiceElsewhere, managerVars, LookAtState
  <2> QED BY <2>1 DEF RunningIsUnnoticed, DownIsPending
<1>8. CASE RequestReconnect
  BY <1>8 DEF RequestReconnect, RunningIsUnnoticed, DownIsPending
<1>9. CASE LinkLost
  <2>1. PICK g \in Clients : client[g] \notin {"free", "dropped", "closing"}
    BY <1>9 DEF LinkLost
  <2>2. client'[g] = "dropped" /\ UNCHANGED <<bleState, seen, job, callers, refused, unnoticed>>
    BY <1>9, <2>1 DEF LinkLost, LinkEnds, managerVars, serviceVars
  <2> QED BY <2>2 DEF WatchInv, RunningIsUnnoticed, DownIsPending
<1>10. CASE ServiceRestarts
  BY <1>10, PendingIsInv DEF ServiceRestarts, ServiceStarts
<1>11. ASSUME NEW p \in Callers, ConnectToPairedDevice(p)
       PROVE  RunningIsUnnoticed' /\ DownIsPending'
  BY <1>11, ConnectIsPending, PendingIsInv
<1>12. CASE HostRestarts
  BY <1>12 DEF HostRestarts, WatchInv, RunningIsUnnoticed, DownIsPending, managerVars,
               serviceVars
<1>13. CASE UNCHANGED watchVars
  BY <1>13 DEF watchVars, WatchInv, RunningIsUnnoticed, DownIsPending, managerVars,
               serviceVars
<1> QED BY <1>1, <1>2, <1>3, <1>4, <1>5, <1>6, <1>7, <1>8, <1>9, <1>10, <1>11, <1>12, <1>13
        DEF WatchNext, WatchStep, CollectorStep, JobStep, MainStep, Callers

-----------------------------------------------------------------------------
(***************************************************************************)
(* The subscriptions of a watch that shows itself connected.               *)
(***************************************************************************)
\* Who has shown a watch connected is linked, or its end is to be reported.
ConnectedHasLink ==
    bleState = "Connected" => \E g \in Clients : g \in Linked \/ client[g] = "dropped"

\* One client at a time writes descriptors, and the queue holds what it has not written.
OneSubscribes ==
    /\ \A g, h \in Subscribing : g = h
    /\ \A g \in Clients :
         /\ client[g] = "challenge" =>
              queue = IF "cancel" \in described THEN <<"cancel">> ELSE <<>>
         /\ client[g] = "cancel" => queue = <<>>

\* Whoever writes the second descriptor has, or another client has, written the first.
CancelIsSecond ==
    \A g \in Clients :
        client[g] = "cancel" /\ "challenge" \in described => "challenge" \in subscribed

Subscriptions ==
    /\ ConnectedHasLink
    /\ disturbed = "nothing" => OneSubscribes
    /\ disturbed # "host" => CancelIsSecond
    /\ ConnectedIsSubscribed

SubscribedInv == WatchTypeOK /\ Subscriptions

\* The clients disturb each other at most.
Disturbs == disturbed' = disturbed \/ (disturbed = "nothing" /\ disturbed' = "client")

\* A step that leaves the clients, the queue and the host alone.
LEMMA SubscribedElsewhere ==
    ASSUME SubscribedInv, UNCHANGED <<client, queue, hostVars, disturbed>>,
           bleState' = bleState \/ bleState' # "Connected"
    PROVE  Subscriptions'
BY DEF SubscribedInv, Subscriptions, ConnectedHasLink, OneSubscribes, CancelIsSecond,
       ConnectedIsSubscribed, Subscribing, Linked, hostVars

\* A client that writes no descriptor, before or after, is nobody's concern while
\* the watch is not shown connected, or the client stays what it is to the link.
LEMMA OtherClientMoves ==
    ASSUME SubscribedInv, NEW g \in Clients, NEW s,
           client[g] \notin Characteristics, s \notin Characteristics,
           client' = [client EXCEPT ![g] = s],
           UNCHANGED hostVars, Disturbs,
           queue' = queue \/ (queue' = <<>> /\ (Subscribing # {} => disturbed' # "nothing")),
           \/ bleState' # "Connected"
           \/ bleState' = bleState /\ client[g] \notin {"discovering", "idle", "dropped"}
    PROVE  Subscriptions'
<1> USE DEF SubscribedInv, Subscriptions, WatchTypeOK, hostVars, Disturbs
<1>1. \A h \in Clients : client'[h] = IF h = g THEN s ELSE client[h]
  OBVIOUS
<1>2. Subscribing' = Subscribing
  BY <1>1 DEF Subscribing
<1>3. ConnectedHasLink'
  <2>1. ASSUME bleState' = "Connected"
        PROVE  \E h \in Clients : h # g /\ (h \in Linked \/ client[h] = "dropped")
    BY <2>1 DEF ConnectedHasLink, Linked, Characteristics
  <2> QED BY <1>1, <2>1 DEF ConnectedHasLink, Linked
<1>4. disturbed' = "nothing" => OneSubscribes'
  BY <1>1, <1>2 DEF OneSubscribes, Subscribing, Characteristics
<1>5. disturbed' # "host" => CancelIsSecond'
  BY <1>1 DEF CancelIsSecond, Characteristics
<1>6. ConnectedIsSubscribed'
  BY <1>1 DEF ConnectedIsSubscribed
<1> QED BY <1>3, <1>4, <1>5, <1>6

\* A link that ends: somebody's end is to be reported, or nobody had the link.
LEMMA EndIsSubscribed ==
    ASSUME SubscribedInv, NEW gone \in SUBSET Clients, LinkEnds(gone),
           UNCHANGED <<queue, bleState>>
    PROVE  Subscriptions'
<1> USE DEF SubscribedInv, WatchTypeOK
<1>1. \A h \in Clients : client'[h] = IF h \in gone /\ client[h] # "closing" THEN "dropped"
                                      ELSE client[h]
  BY DEF LinkEnds
<1>2. \A h \in Clients : client'[h] \in Characteristics =>
                            client'[h] = client[h] /\ h \in Linked /\ h \notin gone
  BY <1>1 DEF Linked, Characteristics
<1>3. \/ \A h \in Clients : client'[h] \notin Characteristics
      \/ UNCHANGED <<hostVars, disturbed>>
  BY <1>2 DEF LinkEnds, hostVars
<1>4. \A h \in Clients : \/ client'[h] = "dropped"
                         \/ h \in Linked => h \in Linked' /\ h \notin gone
  BY <1>1 DEF Linked
<1>5. ConnectedHasLink'
  <2>1. ASSUME NEW h \in Clients, h \in Linked \/ client[h] = "dropped"
        PROVE  h \in Linked' \/ client'[h] = "dropped"
    BY <1>1, <2>1 DEF Linked
  <2> QED BY <2>1 DEF Subscriptions, ConnectedHasLink
<1>6. CASE \A h \in Clients : client'[h] \notin Characteristics
  <2>1. OneSubscribes' /\ CancelIsSecond'
    BY <1>6 DEF OneSubscribes, CancelIsSecond, Subscribing, Characteristics
  <2>2. ConnectedIsSubscribed'
    <3>1. CASE UNCHANGED <<hostVars, disturbed>>
      BY <1>1, <3>1 DEF Subscriptions, ConnectedIsSubscribed, hostVars
    <3>2. CASE Linked \subseteq gone
      BY <1>1, <1>4, <3>2 DEF Subscriptions, ConnectedHasLink, ConnectedIsSubscribed
    <3> QED BY <3>1, <3>2 DEF LinkEnds, hostVars
  <2> QED BY <1>5, <2>1, <2>2 DEF Subscriptions
<1>7. CASE UNCHANGED <<hostVars, disturbed>>
  <2>1. disturbed' = "nothing" => OneSubscribes'
    BY <1>2, <1>7 DEF Subscriptions, OneSubscribes, Subscribing, Characteristics, hostVars
  <2>2. disturbed' # "host" => CancelIsSecond'
    BY <1>2, <1>7 DEF Subscriptions, CancelIsSecond, Characteristics, hostVars
  <2>3. ConnectedIsSubscribed'
    BY <1>1, <1>7 DEF Subscriptions, ConnectedIsSubscribed, hostVars
  <2> QED BY <1>5, <2>1, <2>2, <2>3 DEF Subscriptions
<1> QED BY <1>3, <1>6, <1>7

LEMMA SubscribedCallback ==
    ASSUME SubscribedInv, NEW g \in Clients, Callback(g)
    PROVE  Subscriptions'
<1> USE DEF SubscribedInv
<1>1. CASE ClientConnects(g)
  BY <1>1, OtherClientMoves DEF ClientConnects, Characteristics, Disturbs
<1>2. CASE ClientDisconnects(g)
  <2>1. Disturbs /\ (Subscribing # {} => disturbed' # "nothing")
    BY <1>2 DEF ClientDisconnects, Interferes, Disturbs
  <2> QED BY <1>2, <2>1, OtherClientMoves DEF ClientDisconnects, Characteristics, SetState
<1>3. CASE CloseClient(g)
  BY <1>3, OtherClientMoves DEF CloseClient, Characteristics, Disturbs
<1>4. CASE DiscoverServices(g)
  <2>1. /\ client[g] = "discovering" /\ EnableNextNotify(g, ToEnable) /\ UNCHANGED hostVars
        /\ Disturbs /\ (disturbed' = "nothing" => Subscribing = {})
    BY <1>4 DEF DiscoverServices, Interferes, Disturbs
  <2>2. CASE ToEnable = <<>>
    <3>1. /\ queue' = <<>> /\ bleState' = "Connected" /\ described = {}
          /\ \A h \in Clients : client'[h] = IF h = g THEN "idle" ELSE client[h]
      BY <2>1, <2>2, ToEnableIsDescribed DEF EnableNextNotify, SetState, WatchTypeOK
    <3>2. ConnectedHasLink'
      BY <3>1 DEF ConnectedHasLink, Linked
    <3>3. disturbed' = "nothing" => OneSubscribes'
      BY <2>1, <3>1 DEF OneSubscribes, Subscribing, Characteristics
    <3>4. CancelIsSecond' /\ ConnectedIsSubscribed'
      BY <2>1, <3>1 DEF CancelIsSecond, ConnectedIsSubscribed, hostVars
    <3> QED BY <3>2, <3>3, <3>4 DEF Subscriptions
  <2>3. CASE ToEnable # <<>>
    <3> DEFINE c == Head(ToEnable)
    <3>1. /\ queue' = Tail(ToEnable) /\ bleState' = bleState
          /\ \A h \in Clients : client'[h] = IF h = g THEN c ELSE client[h]
      BY <2>1, <2>3 DEF EnableNextNotify, WatchTypeOK
    <3>2. \/ /\ c = "challenge"
             /\ Tail(ToEnable) = IF "cancel" \in described THEN <<"cancel">> ELSE <<>>
          \/ c = "cancel" /\ Tail(ToEnable) = <<>> /\ "challenge" \notin described
      BY <2>3, ToEnableIsDescribed
    <3> HIDE DEF c
    <3>3. ConnectedHasLink'
      BY <2>1, <3>1, <3>2 DEF Subscriptions, ConnectedHasLink, Linked
    <3>4. ASSUME disturbed' = "nothing"
          PROVE  \A h \in Clients : client'[h] \in Characteristics => h = g
      BY <2>1, <3>1, <3>4 DEF Subscribing
    <3>5. disturbed' = "nothing" => OneSubscribes'
      BY <2>1, <3>1, <3>2, <3>4 DEF OneSubscribes, Subscribing, Characteristics, hostVars
    <3>6. disturbed' # "host" => CancelIsSecond'
      BY <2>1, <3>1, <3>2 DEF Subscriptions, CancelIsSecond, Disturbs, hostVars
    <3>7. ConnectedIsSubscribed'
      BY <2>1, <3>1 DEF Subscriptions, ConnectedIsSubscribed, Disturbs, hostVars
    <3> QED BY <3>3, <3>5, <3>6, <3>7 DEF Subscriptions
  <2> QED BY <2>2, <2>3
<1>5. CASE ClientFails(g)
  <2>1. /\ bleState' # "Connected" /\ UNCHANGED hostVars /\ Disturbs
        /\ client' = [client EXCEPT ![g] = "idle"]
        /\ \A h \in Clients : client'[h] = IF h = g THEN "idle" ELSE client[h]
    BY <1>5 DEF ClientFails, SetState, WatchTypeOK, Interferes, Disturbs
  <2>2. CASE client[g] = "discovering"
    <3>1. queue' = queue \/ (queue' = <<>> /\ (Subscribing # {} => disturbed' # "nothing"))
      BY <1>5, <2>2 DEF ClientFails, Subscribing, Characteristics, Interferes
    <3> QED BY <2>1, <2>2, <3>1, OtherClientMoves DEF Characteristics
  <2>3. CASE g \in Subscribing
    <3>1. ASSUME disturbed' = "nothing"
          PROVE  \A h \in Clients : client'[h] \notin Characteristics
      BY <2>1, <2>3, <3>1 DEF Subscriptions, OneSubscribes, Subscribing, Characteristics,
         Disturbs
    <3>2. disturbed' # "host" => CancelIsSecond'
      BY <2>1 DEF Subscriptions, CancelIsSecond, Disturbs, hostVars
    <3> QED BY <2>1, <3>1, <3>2 DEF Subscriptions, OneSubscribes, ConnectedHasLink,
            ConnectedIsSubscribed, Subscribing, Characteristics
  <2> QED BY <1>5, <2>2, <2>3 DEF ClientFails, Subscribing, Characteristics
<1>6. CASE WriteDescriptor(g)
  <2>1. /\ g \in Subscribing /\ UNCHANGED <<described, disturbed>>
        /\ subscribed' = subscribed \cup {client[g]} /\ EnableNextNotify(g, queue)
    BY <1>6 DEF WriteDescriptor, Subscribing
  <2>2. CASE queue = <<>>
    <3>1. /\ bleState' = "Connected" /\ queue' = queue
          /\ \A h \in Clients : client'[h] = IF h = g THEN "idle" ELSE client[h]
      BY <2>1, <2>2 DEF EnableNextNotify, SetState, WatchTypeOK
    <3>2. ASSUME disturbed = "nothing"
          PROVE  \A h \in Clients : client'[h] \notin Characteristics
      BY <2>1, <3>1, <3>2 DEF Subscriptions, OneSubscribes, Subscribing, Characteristics
    <3>3. disturbed # "host" /\ "challenge" \in described => "challenge" \in subscribed'
      BY <2>1 DEF Subscriptions, CancelIsSecond, Subscribing, Characteristics
    <3>4. disturbed = "nothing" /\ "cancel" \in described => "cancel" \in subscribed'
      <4>1. <<"cancel">> # <<>>
        OBVIOUS
      <4> QED BY <2>1, <2>2, <4>1 DEF Subscriptions, OneSubscribes, Subscribing,
              Characteristics
    <3>5. disturbed' = "nothing" => OneSubscribes'
      BY <2>1, <3>2 DEF OneSubscribes, Subscribing, Characteristics
    <3>6. disturbed' # "host" => CancelIsSecond'
      BY <2>1, <3>1 DEF Subscriptions, CancelIsSecond
    <3>7. ConnectedIsSubscribed'
      BY <2>1, <3>3, <3>4 DEF ConnectedIsSubscribed, Characteristics, WatchTypeOK
    <3> QED BY <3>1, <3>5, <3>6, <3>7 DEF Subscriptions, ConnectedHasLink, Linked
  <2>3. CASE queue = <<"cancel">>
    <3>1. Head(queue) = "cancel" /\ Tail(queue) = <<>> /\ queue # <<>>
      BY <2>3
    <3>2. /\ bleState' = bleState /\ queue' = <<>>
          /\ \A h \in Clients : client'[h] = IF h = g THEN "cancel" ELSE client[h]
      BY <2>1, <3>1 DEF EnableNextNotify, WatchTypeOK
    <3>3. ASSUME disturbed = "nothing" PROVE Subscribing' = {g}
      BY <2>1, <3>2, <3>3 DEF Subscriptions, OneSubscribes, Subscribing, Characteristics
    <3>4. disturbed' = "nothing" => OneSubscribes'
      BY <2>1, <3>2, <3>3 DEF OneSubscribes, Subscribing, Characteristics
    <3>5. ConnectedHasLink'
      BY <2>1, <3>2 DEF Subscriptions, ConnectedHasLink, Linked, Subscribing, Characteristics
    <3>6. disturbed # "host" /\ "challenge" \in described => "challenge" \in subscribed'
      BY <2>1 DEF Subscriptions, CancelIsSecond, Subscribing, Characteristics
    <3>7. ConnectedIsSubscribed'
      <4>1. \A h \in Clients : client[h] = "dropped" => client'[h] = "dropped"
        BY <2>1, <3>2 DEF Subscribing, Characteristics
      <4> QED BY <2>1, <3>2, <4>1 DEF Subscriptions, ConnectedIsSubscribed
    <3> QED BY <2>1, <3>4, <3>5, <3>6, <3>7 DEF Subscriptions, CancelIsSecond
  <2> QED BY <2>2, <2>3 DEF WatchTypeOK
<1> QED BY <1>1, <1>2, <1>3, <1>4, <1>5, <1>6 DEF Callback

LEMMA SubscribedInductive == SubscribedInv /\ [WatchNext]_watchVars => SubscribedInv'
<1> SUFFICES ASSUME SubscribedInv, [WatchNext]_watchVars
             PROVE  Subscriptions'
  BY WatchTypeInductive DEF SubscribedInv
<1>1. ASSUME NEW g \in Clients, Callback(g)
      PROVE  Subscriptions'
  BY <1>1, SubscribedCallback
<1>2. CASE ClientRefused \/ CloseRefused
  <2>1. CASE ClientRefused
    <3>1. /\ UNCHANGED <<client, hostVars>> /\ bleState' = "Disconnected" /\ queue' = <<>>
          /\ Disturbs /\ (disturbed' = "nothing" => Subscribing = {})
      BY <2>1 DEF ClientRefused, SetState, Interferes, Disturbs
    <3>2. disturbed' = "nothing" => OneSubscribes'
      BY <3>1 DEF OneSubscribes, Subscribing, Characteristics
    <3>3. disturbed' # "host" => CancelIsSecond'
      BY <3>1 DEF SubscribedInv, Subscriptions, CancelIsSecond, Disturbs, hostVars
    <3> QED BY <3>1, <3>2, <3>3 DEF Subscriptions, ConnectedHasLink, ConnectedIsSubscribed
  <2>2. CASE CloseRefused
    BY <2>2, SubscribedElsewhere DEF CloseRefused
  <2> QED BY <1>2, <2>1, <2>2
<1>3. CASE Collect \/ JobConnects \/ JobEnds \/ StartCommand \/ RequestReconnect
  BY <1>3, SubscribedElsewhere DEF Collect, JobConnects, JobEnds, StartCommand,
     RequestReconnect, ServiceElsewhere, managerVars
<1>4. ASSUME NEW p \in Callers, ConnectToPairedDevice(p)
      PROVE  Subscriptions'
  <2>1. UNCHANGED <<hostVars, queue, disturbed>>
    BY <1>4 DEF ConnectToPairedDevice
  <2>2. CASE NoDeviceFound
    BY <2>1, <2>2, SubscribedElsewhere DEF NoDeviceFound, SetState
  <2>3. ASSUME NEW g \in Clients, ConnectGatt(g)
        PROVE  Subscriptions'
    BY <2>1, <2>3, OtherClientMoves DEF ConnectGatt, SetState, Characteristics, Disturbs
  <2>4. CASE NoClientLeft
    BY <2>1, <2>4, SubscribedElsewhere DEF NoClientLeft, SetState
  <2> QED BY <1>4, <2>2, <2>3, <2>4 DEF ConnectToPairedDevice
<1>5. CASE Disconnect
  <2>1. CASE gatt = NoClient \/ gatt = NotLent
    BY <1>5, <2>1, SubscribedElsewhere DEF Disconnect, SetState
  <2>2. CASE gatt \in Clients
    BY <1>5, <2>2, EndIsSubscribed DEF Disconnect
  <2> QED BY <1>5, <2>1, <2>2 DEF Disconnect
<1>6. CASE LinkLost
  BY <1>6, EndIsSubscribed DEF LinkLost, managerVars
<1>7. CASE ServiceRestarts
  BY <1>7 DEF ServiceRestarts, ServiceStarts, Subscriptions, ConnectedHasLink, OneSubscribes,
              CancelIsSecond, ConnectedIsSubscribed, Subscribing, Characteristics
<1>8. CASE HostRestarts
  BY <1>8 DEF HostRestarts, SubscribedInv, Subscriptions, ConnectedHasLink,
              ConnectedIsSubscribed, Linked, managerVars
<1>9. CASE UNCHANGED watchVars
  BY <1>9, SubscribedElsewhere DEF watchVars, managerVars
<1> QED BY <1>1, <1>2, <1>3, <1>4, <1>5, <1>6, <1>7, <1>8, <1>9
        DEF WatchNext, WatchStep, CollectorStep, JobStep, MainStep, Callers

-----------------------------------------------------------------------------
\* Type correctness; the field never names a client that was closed.
THEOREM WatchTypeCorrect == WatchSpec => []WatchTypeOK
BY WatchTypeInit, WatchTypeInductive, PTL DEF WatchSpec

\* Whatever the host, the radio, the user and Android do, a watch that is down is
\* never left alone, unless its state flow had nothing to tell.
THEOREM WatchDownIsPending == WatchSpec => []DownIsPending
<1>1. WatchInit => WatchInv
  BY WatchTypeInit DEF WatchInit, WatchInv, RunningIsUnnoticed, DownIsPending
<1>2. WatchInv => DownIsPending
  BY DEF WatchInv
<1> QED BY <1>1, <1>2, WatchInvInductive, PTL DEF WatchSpec

\* A watch that shows itself connected hears of the challenges and of the cancellations
\* that have a descriptor, with any number of clients left over from errors; what one of
\* those can take from it are the cancellations.
THEOREM WatchConnectedIsSubscribed == WatchSpec => []ConnectedIsSubscribed
<1>1. WatchInit => SubscribedInv
  BY WatchTypeInit DEF WatchInit, SubscribedInv, Subscriptions, ConnectedHasLink,
     OneSubscribes, CancelIsSecond, ConnectedIsSubscribed, Subscribing, Characteristics
<1>2. SubscribedInv => ConnectedIsSubscribed
  BY DEF SubscribedInv, Subscriptions
<1> QED BY <1>1, <1>2, SubscribedInductive, PTL DEF WatchSpec
=============================================================================
