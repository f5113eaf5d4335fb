------------------------ MODULE DaemonLifecycleProofs ------------------------
(***************************************************************************)
(* What the daemon's process promises of its traces: it is advertised      *)
(* while it serves, an orderly stop leaves no advertisement, and the file  *)
(* of a killed process never keeps the next from its socket.               *)
(***************************************************************************)
EXTENDS DaemonLifecycle, TLAPS

\* The advertisement that the handle stands for is there.
HandleHolds ==
    /\ stage \in {"spawn", "serving", "stopping"} <=> handle # "none"
    /\ handle = "bluer" <=> bluerAdv
    /\ handle = "btmgmt" /\ ~trusted => instance

\* An instance that this process has not added was left by another.
InstanceIsOld ==
    stage \in {"down", "gatt", "advertise", "rmAdv", "addAdv"} \/ handle = "bluer" =>
        (instance => leaked)

\* The server is a task of the process that serves, and binds where no file is.
ServerIsOurs ==
    /\ server # "none" => stage \in {"serving", "stopping"}
    /\ server = "removed" => socket = "none"
    /\ server = "failed" => ~runDir

DaemonInv == DaemonTypeOK /\ HandleHolds /\ InstanceIsOld /\ ServerIsOurs

LEMMA DaemonInvInit == DaemonInit => DaemonInv
BY DEF DaemonInit, DaemonInv, DaemonTypeOK, HandleHolds, InstanceIsOld, ServerIsOurs

LEMMA DaemonInvInductive == DaemonInv /\ [DaemonNext]_daemonVars => DaemonInv'
<1> SUFFICES ASSUME DaemonInv, [DaemonNext]_daemonVars PROVE DaemonInv'
  OBVIOUS
<1> USE DEF DaemonInv, DaemonTypeOK, HandleHolds, InstanceIsOld, ServerIsOurs
<1>1. CASE StartProcess
  BY <1>1 DEF StartProcess, advVars
<1>2. CASE StartStep
  <2>1. CASE ServeGatt
    BY <2>1 DEF ServeGatt, advVars, serverVars
  <2>2. CASE Advertise
    <3>1. CASE bluerAdv' = TRUE /\ handle' = "bluer" /\ stage' = "spawn"
      <4>1. bluerAdv' /\ handle = "none"
        BY <2>2, <3>1 DEF Advertise
      <4> QED BY <2>2, <3>1, <4>1 DEF Advertise, serverVars
    <3>2. CASE stage' = "rmAdv" /\ UNCHANGED <<handle, bluerAdv>>
      BY <2>2, <3>2 DEF Advertise, serverVars
    <3> QED BY <2>2, <3>1, <3>2 DEF Advertise
  <2>3. CASE RemoveOldInstance
    <3>1. instance' \in BOOLEAN /\ leaked' \in BOOLEAN /\ (instance' => leaked')
      <4>1. CASE instance' = FALSE
        BY <2>3, <4>1 DEF RemoveOldInstance
      <4>2. CASE instance' = instance
        <5>1. instance => leaked
          BY <2>3 DEF RemoveOldInstance
        <5> QED BY <2>3, <4>2, <5>1, Zenon DEF RemoveOldInstance
      <4> QED BY <2>3, <4>1, <4>2 DEF RemoveOldInstance
    <3> QED BY <2>3, <3>1 DEF RemoveOldInstance, serverVars
  <2>4. CASE AddInstance
    BY <2>4 DEF AddInstance, serverVars
  <2>5. CASE TrustAdvInfo
    BY <2>5 DEF TrustAdvInfo, AdvertisementExists, serverVars
  <2>6. CASE SpawnServer
    BY <2>6 DEF SpawnServer, advVars
  <2> QED BY <1>2, <2>1, <2>2, <2>3, <2>4, <2>5, <2>6 DEF StartStep
<1>3. CASE StartFails
  BY <1>3 DEF StartFails, ProcessEnds
<1>4. CASE ServerStep
  <2>1. CASE RemoveSocketFile
    BY <2>1 DEF RemoveSocketFile, advVars
  <2>2. CASE BindSocket
    BY <2>2 DEF BindSocket, advVars
  <2> QED BY <1>4, <2>1, <2>2 DEF ServerStep
<1>5. CASE StopServing
  BY <1>5 DEF StopServing, advVars, serverVars
<1>6. CASE Unregister
  <2>1. stage = "stopping" /\ ProcessEnds
    BY <1>6 DEF Unregister
  <2>2. instance' \in BOOLEAN /\ leaked' \in BOOLEAN /\ (instance' => leaked')
    <3>1. CASE instance' = FALSE /\ leaked' = FALSE
      BY <3>1
    <3>2. CASE leaked' = instance /\ UNCHANGED instance
      BY <3>2, Zenon
    <3>3. CASE handle = "bluer" /\ UNCHANGED <<instance, leaked>>
      BY <3>3
    <3> QED BY <1>6, <3>1, <3>2, <3>3 DEF Unregister
  <2> QED BY <2>1, <2>2 DEF ProcessEnds
<1>7. CASE Killed
  BY <1>7 DEF Killed, ProcessEnds
<1>8. CASE RemoveDirectory
  BY <1>8 DEF RemoveDirectory, advVars
<1>9. CASE OtherAdvertises
  BY <1>9 DEF OtherAdvertises, advVars, serverVars
<1>10. CASE UNCHANGED daemonVars
  BY <1>10 DEF daemonVars, advVars, serverVars
<1> QED BY <1>1, <1>2, <1>3, <1>4, <1>5, <1>6, <1>7, <1>8, <1>9, <1>10 DEF DaemonNext

LEMMA DaemonInvInvariant == DaemonSpec => []DaemonInv
BY DaemonInvInit, DaemonInvInductive, PTL DEF DaemonSpec

\* Type correctness; the socket's file is live exactly while the server listens.
THEOREM DaemonTypeCorrect == DaemonSpec => []DaemonTypeOK
<1>1. DaemonInv => DaemonTypeOK
  BY DEF DaemonInv
<1> QED BY <1>1, DaemonInvInvariant, PTL

\* A daemon that serves can be found, through D-Bus or btmgmt and whatever became
\* of the btmgmt child, unless another program's instance deceived it.
THEOREM DaemonServesAdvertised == DaemonSpec => []ServingIsAdvertised
<1>1. DaemonInv => ServingIsAdvertised
  BY DEF DaemonInv, DaemonTypeOK, HandleHolds, ServingIsAdvertised, Advertised
<1> QED BY <1>1, DaemonInvInvariant, PTL

\* An instance without a process was left by one that did not end in order.
THEOREM DaemonStopsClean == DaemonSpec => []OnlyUncleanEndsLeak
<1>1. DaemonInv => OnlyUncleanEndsLeak
  BY DEF DaemonInv, HandleHolds, InstanceIsOld, OnlyUncleanEndsLeak, Advertised
<1> QED BY <1>1, DaemonInvInvariant, PTL

\* A server that could not bind lacks its directory; a stale file is no reason.
THEOREM DaemonBindsAgain == DaemonSpec => []StaleSocketIsHarmless
<1>1. DaemonInv => StaleSocketIsHarmless
  BY DEF DaemonInv, ServerIsOurs, StaleSocketIsHarmless
<1> QED BY <1>1, DaemonInvInvariant, PTL
=============================================================================
