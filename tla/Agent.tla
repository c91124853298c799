-------------------------------- MODULE Agent ---------------------------------
(***************************************************************************)
(* The life of one agent process: what main adds to the manager, in which  *)
(* order it comes up, and how it ends.  The watchdog is that of module     *)
(* Watchdog; of the list of peers and of the peer health server only Start *)
(* is here.                                                                *)
(*                                                                         *)
(* The manager (external, controller-runtime) starts what was added once   *)
(* its caches have synced, each in a goroutine of its own, and stops when  *)
(* a signal arrives or one of them returns an error: it cancels their      *)
(* context and waits for them, but not for ever.                           *)
(***************************************************************************)
EXTENDS Watchdog

VARIABLES
    synced,    \* the manager's caches have synced
    runnable,  \* of peers and server: "new", "running" or "failed"
    mishap     \* the process was killed, or could not disarm (history)

manager == <<synced, runnable, mishap>>
vars == <<watchdog, manager>>

AgentInit ==
    /\ Init
    /\ synced = FALSE
    /\ runnable = [r \in {"peers", "server"} |-> "new"]
    /\ mishap = FALSE

SyncCaches ==
    /\ Alive
    /\ ~synced
    /\ synced' = TRUE
    /\ UNCHANGED <<watchdog, runnable, mishap>>

(***************************************************************************)
(* Start of the list of peers and of the server.                           *)
(***************************************************************************)
Becomes(r, state) ==
    /\ Alive
    /\ synced
    /\ runnable' = [runnable EXCEPT ![r] = state]
    /\ UNCHANGED <<watchdog, synced, mishap>>

\* It may fail to get its own node, or to find its hostname on it.
PeersStart ==
    /\ runnable["peers"] = "new"
    /\ Becomes("peers", "running") \/ Becomes("peers", "failed")

\* The certificates may not be there, the port may be taken.
ServerStart ==
    /\ runnable["server"] = "new"
    /\ Becomes("server", "running") \/ Becomes("server", "failed")

ServeFails ==
    /\ runnable["server"] = "running"
    /\ Becomes("server", "failed")

(***************************************************************************)
(* The watchdog and the callers of Reboot, which run once synced.          *)
(***************************************************************************)
WatchdogStarts ==
    /\ synced
    /\ StartFails \/ StartOpens \/ StartFeeding
    /\ UNCHANGED manager

WatchdogFeeds == (FeedEnter \/ Feed) /\ UNCHANGED manager

AsksForReboot(c) ==
    /\ synced
    /\ RebootChecks(c) \/ SoftwareReboot(c)
    /\ UNCHANGED manager

StopsWatchdog(c) == Stop(c) /\ UNCHANGED manager

WatchdogReturns ==
    /\ StartReturns
    /\ mishap' = (isStarted /\ ~isStopped /\ ~isStopped')
    /\ UNCHANGED <<synced, runnable>>

(***************************************************************************)
(* The end of the process: mgr.Start returns and so does main, or it just  *)
(* ends.                                                                   *)
(***************************************************************************)
Terminate ==
    /\ Alive
    /\ proc = "up"
    /\ proc' = "terminating"
    /\ UNCHANGED <<host, process, device, manager>>

\* Faulty variant: an error of the server is only logged.
ManagerStopsForPeers ==
    /\ runnable["peers"] = "failed"
    /\ Terminate

ManagerStops ==
    /\ \E r \in DOMAIN runnable : runnable[r] = "failed"
    /\ Terminate

Gone ==
    /\ synced' = FALSE
    /\ runnable' = [r \in DOMAIN runnable |-> "new"]

\* The watchdog returns long before the manager gives up waiting.
MainReturns ==
    /\ Alive
    /\ proc = "terminating"
    /\ synced /\ HasWatchdog => start = "returned"
    /\ proc' = "down"
    /\ Gone
    /\ UNCHANGED <<host, process, device, mishap>>

\* By the system, or by the panic of a caller of Reboot.
Killed ==
    /\ Alive
    /\ proc' = "down"
    /\ mishap' = TRUE
    /\ Gone
    /\ UNCHANGED <<host, process, device>>

Panics(c) ==
    /\ StopPanics(c)
    /\ mishap' = TRUE
    /\ Gone

AgentStarts ==
    /\ RestartPod \/ HostBoots
    /\ mishap' = FALSE
    /\ Gone

DeviceReboots == DeviceFires /\ Gone /\ UNCHANGED mishap

AgentNext ==
    \/ SyncCaches \/ PeersStart \/ ServerStart \/ ServeFails
    \/ WatchdogStarts \/ WatchdogFeeds \/ WatchdogReturns
    \/ \E c \in Callers : AsksForReboot(c) \/ StopsWatchdog(c) \/ Panics(c)
    \/ Terminate \/ ManagerStops \/ MainReturns \/ Killed \/ AgentStarts
    \/ Tick /\ UNCHANGED manager
    \/ DeviceReboots

Spec == AgentInit /\ [][AgentNext]_vars

\* Goroutines of a live process run, and the device does what it is for.
\* Nothing forces a caller to call Reboot, caches to sync, a pod to be
\* stopped, or one to be started again.
FairSpec ==
    /\ Spec
    /\ WF_vars(WatchdogStarts)
    /\ WF_vars(WatchdogFeeds)
    /\ \A c \in Callers : WF_vars(StopsWatchdog(c) \/ Panics(c))
    /\ WF_vars(WatchdogReturns)
    /\ WF_vars(ManagerStops)
    /\ WF_vars(MainReturns)
    /\ WF_vars(Tick /\ UNCHANGED manager)
    /\ WF_vars(DeviceReboots)

-------------------------------------------------------------------------------

\* An agent whose list of peers or whose server has failed does not go on
\* without it: its process ends, whatever the watchdog is doing.
FailedRunnableEndsAgent ==
    (host = "up" /\ \E r \in DOMAIN runnable : runnable[r] = "failed")
        ~> (host = "rebooting" \/ proc = "down")

\* A process that has started the watchdog and ends in order, for a signal
\* or because something it runs has failed, at whatever point of Start that
\* happens, leaves a device behind that does not reboot the host, unless
\* Reboot was called or disarming failed.
EndedAgentDisarms ==
    proc = "down" /\ ~mishap /\ isStarted /\ armed
        => \E c \in Callers : caller[c] # "idle"
===============================================================================
