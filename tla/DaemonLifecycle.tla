--------------------------- MODULE DaemonLifecycle ---------------------------
(***************************************************************************)
(* The life of the daemon's process: main.rs from the registration with    *)
(* BlueZ to the stop on Ctrl-C, with advertisement_handle.rs, the start of *)
(* socket_server.rs, and the restarts of wrist-hello.service.              *)
(*                                                                         *)
(* What bluetoothd holds for the process, the GATT application and a D-Bus *)
(* advertisement, goes with it. The advertisement that btmgmt adds to the  *)
(* controller and the socket's file stay until somebody removes them. The  *)
(* process can be killed at any point: SIGTERM, which systemd stops it     *)
(* with, is not handled.                                                   *)
(***************************************************************************)

VARIABLES
    stage,      \* where main() is
    app,        \* the GATT application is registered
    handle,     \* the AdvertisementHandle
    bluerAdv,   \* the D-Bus advertisement is registered
    instance,   \* the controller has advertising instance 1, of SERVICE_UUID
    foreign,    \* it has another program's instance
    server,     \* where SocketServer::spawn() is
    socket,     \* the file at SOCKET_PATH
    runDir,     \* its directory, RuntimeDirectory of the service
    trusted,    \* history: advinfo was believed because of another's instance
    leaked      \* history: a process ended and left its instance behind

advVars == <<handle, bluerAdv, instance>>
serverVars == <<server, socket, runDir>>
daemonVars == <<stage, app, advVars, foreign, serverVars, trusted, leaked>>

DaemonTypeOK ==
    /\ stage \in {"down", "gatt", "advertise", "rmAdv", "addAdv", "advInfo", "spawn",
                  "serving", "stopping"}
    /\ handle \in {"none", "bluer", "btmgmt"}
    /\ server \in {"none", "starting", "removed", "listening", "failed"}
    /\ socket \in {"none", "stale", "live"}
    /\ socket = "live" <=> server = "listening"
    /\ app \in BOOLEAN /\ bluerAdv \in BOOLEAN /\ instance \in BOOLEAN
    /\ foreign \in BOOLEAN /\ runDir \in BOOLEAN /\ trusted \in BOOLEAN
    /\ leaked \in BOOLEAN

DaemonInit ==
    /\ stage = "down"
    /\ app = FALSE
    /\ handle = "none" /\ bluerAdv = FALSE /\ instance = FALSE
    /\ foreign = FALSE
    /\ server = "none" /\ socket = "none" /\ runDir = FALSE
    /\ trusted = FALSE
    /\ leaked = FALSE

\* The watch can find the host.
Advertised == bluerAdv \/ instance

\* What the end of the process leaves, whatever ended it.
ProcessEnds ==
    /\ stage' = "down"
    /\ app' = FALSE
    /\ handle' = "none"
    /\ bluerAdv' = FALSE
    /\ server' = "none"
    /\ socket' = IF socket = "live" THEN "stale" ELSE socket
    /\ trusted' = FALSE
    /\ UNCHANGED <<foreign, runDir>>

-----------------------------------------------------------------------------
\* systemd starts the process in its directory; by hand there may be none.
StartProcess ==
    /\ stage = "down"
    /\ stage' = "gatt"
    /\ runDir' \in {TRUE, runDir}
    /\ UNCHANGED <<app, advVars, foreign, server, socket, trusted, leaked>>

\* The configuration is loaded, the adapter powered, the application served.
ServeGatt ==
    /\ stage = "gatt"
    /\ stage' = "advertise"
    /\ app' = TRUE
    /\ UNCHANGED <<advVars, foreign, serverVars, trusted, leaked>>

\* adapter.advertise() registers over D-Bus; where it fails, btmgmt is tried.
Advertise ==
    /\ stage = "advertise"
    /\ \/ /\ stage' = "spawn"
          /\ handle' = "bluer"
          /\ bluerAdv' = TRUE
       \/ /\ stage' = "rmAdv"
          /\ UNCHANGED <<handle, bluerAdv>>
    /\ UNCHANGED <<app, instance, foreign, serverVars, trusted, leaked>>

\* btmgmt rm-adv 1, whose result is ignored.
RemoveOldInstance ==
    /\ stage = "rmAdv"
    /\ stage' = "addAdv"
    /\ instance' \in {FALSE, instance}
    /\ leaked' = (leaked /\ instance')
    /\ UNCHANGED <<app, handle, bluerAdv, foreign, serverVars, trusted>>

\* btmgmt add-adv 1. The command may time out after it has done its work.
AddInstance ==
    /\ stage = "addAdv"
    /\ \/ /\ stage' = "spawn"
          /\ handle' = "btmgmt"
          /\ instance' = TRUE
       \/ /\ stage' = "advInfo"
          /\ instance' \in {TRUE, instance}
          /\ UNCHANGED handle
    /\ UNCHANGED <<app, bluerAdv, foreign, serverVars, trusted, leaked>>

\* Mutant of AdvertisementExists: the failed command is believed to have worked.
AdvertisementExists_Always == TRUE

\* btmgmt_advertisement_exists: the list of instances is not empty.
AdvertisementExists == instance \/ foreign

\* A failed add-adv is forgiven if the controller advertises at all.
TrustAdvInfo ==
    /\ stage = "advInfo"
    /\ AdvertisementExists
    /\ stage' = "spawn"
    /\ handle' = "btmgmt"
    /\ trusted' = (foreign /\ ~instance)
    /\ UNCHANGED <<app, bluerAdv, instance, foreign, serverVars, leaked>>

\* An error of main() before the server starts: the configuration, BlueZ, not
\* root, advinfo fails or lists nothing.
StartFails ==
    /\ stage \in {"gatt", "rmAdv", "advInfo"}
    /\ ProcessEnds
    /\ leaked' = instance
    /\ UNCHANGED instance

\* The server task is spawned, and main() waits for Ctrl-C whatever becomes of it.
SpawnServer ==
    /\ stage = "spawn"
    /\ stage' = "serving"
    /\ server' = "starting"
    /\ UNCHANGED <<app, advVars, foreign, socket, runDir, trusted, leaked>>

\* Mutant of RemoveSocketFile: bind() is tried at once.
RemoveSocketFile_Skipped ==
    /\ server = "starting"
    /\ server' = "removed"
    /\ UNCHANGED <<stage, app, advVars, foreign, socket, runDir, trusted, leaked>>

RemoveSocketFile ==
    /\ server = "starting"
    /\ server' = "removed"
    /\ socket' = "none"
    /\ UNCHANGED <<stage, app, advVars, foreign, runDir, trusted, leaked>>

\* bind() fails on a file that exists and without the directory.
BindSocket ==
    /\ server = "removed"
    /\ IF socket = "none" /\ runDir
         THEN server' = "listening" /\ socket' = "live"
         ELSE server' = "failed" /\ UNCHANGED socket
    /\ UNCHANGED <<stage, app, advVars, foreign, runDir, trusted, leaked>>

\* Ctrl-C: the application is dropped first.
StopServing ==
    /\ stage = "serving"
    /\ stage' = "stopping"
    /\ app' = FALSE
    /\ UNCHANGED <<advVars, foreign, serverVars, trusted, leaked>>

\* Mutant of Unregister: the btmgmt handle is only dropped.
Unregister_DropOnly ==
    /\ stage = "stopping"
    /\ UNCHANGED instance
    /\ leaked' = (leaked /\ instance')
    /\ ProcessEnds

\* advertisement_handle.unregister(), and main() returns. rm-adv may fail.
Unregister ==
    /\ stage = "stopping"
    /\ \/ /\ handle = "btmgmt"
          /\ instance' = FALSE
          /\ leaked' = FALSE
       \/ /\ handle = "btmgmt"
          /\ leaked' = instance
          /\ UNCHANGED instance
       \/ /\ handle = "bluer"
          /\ UNCHANGED <<instance, leaked>>
    /\ ProcessEnds

\* The process is killed, or it panics.
Killed ==
    /\ stage # "down"
    /\ ProcessEnds
    /\ leaked' = instance
    /\ UNCHANGED instance

\* systemd removes the directory of a service that has stopped.
RemoveDirectory ==
    /\ stage = "down"
    /\ runDir
    /\ runDir' = FALSE
    /\ socket' = "none"
    /\ UNCHANGED <<stage, app, advVars, foreign, server, trusted, leaked>>

\* Another program advertises, or stops.
OtherAdvertises ==
    /\ foreign' = ~foreign
    /\ UNCHANGED <<stage, app, advVars, serverVars, trusted, leaked>>

StartStep ==
    \/ ServeGatt \/ Advertise \/ RemoveOldInstance \/ AddInstance \/ TrustAdvInfo
    \/ SpawnServer

ServerStep == RemoveSocketFile \/ BindSocket

DaemonNext ==
    \/ StartProcess \/ StartStep \/ StartFails \/ ServerStep
    \/ StopServing \/ Unregister \/ Killed \/ RemoveDirectory \/ OtherAdvertises

DaemonSpec == DaemonInit /\ [][DaemonNext]_daemonVars

-----------------------------------------------------------------------------
\* A daemon that serves is advertised, though its btmgmt child had to be killed;
\* except where advinfo listed another program's instance, which the code takes
\* for its own (advertisement_handle.rs:104-109, 130).
ServingIsAdvertised == stage = "serving" /\ ~trusted => Advertised

\* After an orderly stop nothing is advertised: an instance without a process was
\* left by one that was killed, failed to start, or whose rm-adv failed, and the
\* D-Bus path of a later run does not remove it (advertisement_handle.rs:22-45).
OnlyUncleanEndsLeak == stage = "down" /\ Advertised => leaked

\* The file of a killed process never keeps the next one from its socket: without
\* a socket, main() goes on only where the directory is missing
\* (socket_server.rs:33-36, main.rs:150-154).
StaleSocketIsHarmless == server = "failed" => ~runDir
=============================================================================
