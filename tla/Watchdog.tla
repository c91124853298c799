------------------------------- MODULE Watchdog -------------------------------
(***************************************************************************)
(* The synchronized watchdog, its linux implementation, and the rebooter   *)
(* that stops it, inside one agent process on one host.                    *)
(*                                                                         *)
(* Start, the feeding goroutine and the callers of Reboot interleave.      *)
(* Whatever runs under swd.mutex is one action; swd.stop is assigned after *)
(* Start has released the mutex, which is a step of its own.  Time is in   *)
(* ticks, and the device reboots the host when it has not been fed for     *)
(* Timeout ticks.                                                          *)
(***************************************************************************)
EXTENDS Naturals

CONSTANTS
    Callers,          \* goroutines that call Reboot: reconciler, API check
    HasWatchdog,      \* the watchdog device exists, so NewLinux succeeded
    Timeout,          \* the device's timeout, in ticks
    Lag,              \* how late a goroutine of a live process may run
    MaxFeedFailures   \* how many feeds in a row may fail

Period == Timeout \div 3

ASSUME DeviceAssumption == HasWatchdog \in BOOLEAN /\ Timeout \in Nat
ASSUME LagAssumption ==
    /\ Lag \in Nat
    /\ MaxFeedFailures \in Nat
    /\ (MaxFeedFailures + 1) * (Period + Lag) + Lag < Timeout

VARIABLES
    host,       \* "up" or "rebooting"
    proc,       \* the agent process: "up", "terminating" or "down"
    start,      \* where Start is: "new", "unlocked", "blocked", "returned"
    isStarted, isStopped,  \* fields of synchronizedWatchdog
    stopSet,    \* swd.stop # nil
    cancelled,  \* feedCtx is done: swd.stop has been called
    feeder,     \* the feeding goroutine: "none", "sleeping" or "entered"
    wait,       \* ticks since the feeding goroutine last entered its function
    failures,   \* feeds that have failed since the last one that did not
    caller,     \* where each caller of Reboot is
    armed,      \* the device counts
    age         \* ticks since the device was fed

swd == <<isStarted, isStopped, stopSet, cancelled>>
feeding == <<feeder, wait, failures>>
process == <<start, swd, feeding, caller>>
device == <<armed, age>>
watchdog == <<host, proc, process, device>>

Alive == host = "up" /\ proc # "down"

Init ==
    /\ host = "up" /\ proc = "up"
    /\ start = "new"
    /\ isStarted = FALSE /\ isStopped = FALSE
    /\ stopSet = FALSE /\ cancelled = FALSE
    /\ feeder = "none" /\ wait = 0 /\ failures = 0
    /\ caller = [c \in Callers |-> "idle"]
    /\ armed = FALSE /\ age = 0

(***************************************************************************)
(* Start.  The first part runs under the mutex and covers linuxWatchdog's  *)
(* start: opening the device arms it.                                      *)
(***************************************************************************)
StartFails ==
    /\ Alive
    /\ HasWatchdog
    /\ start = "new"
    /\ start' = "returned"
    /\ \/ UNCHANGED device                  \* the device cannot be opened
       \/ armed' = FALSE /\ age' = 0        \* no timeout: disarmed again
       \/ armed' = TRUE /\ age' = 0         \* no timeout, and no disarming
    /\ UNCHANGED <<host, proc, swd, feeding, caller>>

\* The first feed is due as soon as the feeding goroutine runs.
StartOpens ==
    /\ Alive
    /\ HasWatchdog
    /\ start = "new"
    /\ start' = "unlocked"
    /\ isStarted' = TRUE
    /\ armed' = TRUE
    /\ age' = 0
    /\ wait' = Period
    /\ UNCHANGED <<host, proc, isStopped, stopSet, cancelled, feeder, failures,
                   caller>>

StartFeeding ==
    /\ Alive
    /\ start = "unlocked"
    /\ start' = "blocked"
    /\ stopSet' = TRUE
    /\ feeder' = "sleeping"
    /\ UNCHANGED <<host, proc, isStarted, isStopped, cancelled, wait, failures,
                   caller, device>>

\* Faulty variant: disarm without looking at isStopped.
StartReturnsDisarming ==
    /\ Alive
    /\ proc = "terminating"
    /\ start = "blocked"
    /\ start' = "returned"
    /\ armed' = FALSE
    /\ cancelled' = TRUE
    /\ isStopped' = TRUE
    /\ UNCHANGED <<host, proc, isStarted, stopSet, feeding, caller, age>>

\* Faulty variant: stop feeding, without disarming.
StartReturnsArmed ==
    /\ Alive
    /\ proc = "terminating"
    /\ start = "blocked"
    /\ start' = "returned"
    /\ cancelled' = TRUE
    /\ isStopped' = TRUE
    /\ UNCHANGED <<host, proc, isStarted, stopSet, feeding, caller, device>>

\* The pod is being stopped: disarm, unless a reboot has been asked for.
StartReturns ==
    /\ Alive
    /\ proc = "terminating"
    /\ start = "blocked"
    /\ start' = "returned"
    /\ \/ /\ isStarted /\ ~isStopped
          /\ armed' = FALSE
          /\ cancelled' = TRUE
          /\ isStopped' = TRUE
          /\ UNCHANGED age
       \/ /\ isStarted /\ ~isStopped        \* writing "V" fails
          /\ UNCHANGED <<isStopped, cancelled, device>>
       \/ /\ isStarted /\ ~isStopped        \* closing reports an error
          /\ armed' = FALSE
          /\ UNCHANGED <<isStopped, cancelled, age>>
       \/ /\ ~(isStarted /\ ~isStopped)
          /\ UNCHANGED <<isStopped, cancelled, device>>
    /\ UNCHANGED <<host, proc, isStarted, stopSet, feeding, caller>>

(***************************************************************************)
(* The feeding goroutine: every Period it looks at its context, enters its *)
(* function, and there waits for the mutex, which Stop may get first.      *)
(***************************************************************************)
FeedEnter ==
    /\ Alive
    /\ feeder = "sleeping"
    /\ ~cancelled
    /\ wait >= Period
    /\ feeder' = "entered"
    /\ wait' = 0
    /\ UNCHANGED <<host, proc, start, swd, failures, caller, device>>

\* Faulty variants: feed whether stopped or not; feed only once stopped.
FeedUnchecked ==
    /\ Alive
    /\ feeder = "entered"
    /\ feeder' = "sleeping"
    /\ failures' = 0
    /\ age' = 0
    /\ UNCHANGED <<host, proc, start, swd, wait, caller, armed>>

FeedInverted ==
    /\ Alive
    /\ feeder = "entered"
    /\ feeder' = "sleeping"
    /\ age' = IF isStopped THEN 0 ELSE age
    /\ UNCHANGED <<host, proc, start, swd, wait, failures, caller, armed>>

Feed ==
    /\ Alive
    /\ feeder = "entered"
    /\ feeder' = "sleeping"
    /\ \/ /\ isStopped
          /\ UNCHANGED <<failures, device>>
       \/ /\ ~isStopped
          /\ failures < MaxFeedFailures
          /\ failures' = failures + 1
          /\ UNCHANGED device
       \/ /\ ~isStopped
          /\ failures' = 0
          /\ age' = 0
          /\ UNCHANGED armed
    /\ UNCHANGED <<host, proc, start, swd, wait, caller>>

(***************************************************************************)
(* Reboot, by any of its callers: first IsStarted, then Stop or a software *)
(* reboot.                                                                 *)
(***************************************************************************)
\* Faulty variant: a watchdog that exists is taken for one that was started.
RebootChecksDevice(c) ==
    /\ Alive
    /\ caller[c] \in {"idle", "returned"}
    /\ caller' = [caller EXCEPT ![c] = IF HasWatchdog THEN "stop" ELSE "software"]
    /\ UNCHANGED <<host, proc, start, swd, feeding, device>>

RebootChecks(c) ==
    /\ Alive
    /\ caller[c] \in {"idle", "returned"}
    /\ caller' = [caller EXCEPT ![c] =
                    IF HasWatchdog /\ isStarted THEN "stop" ELSE "software"]
    /\ UNCHANGED <<host, proc, start, swd, feeding, device>>

\* Faulty variant: return early while there is nothing to cancel yet.
StopIfSet(c) ==
    /\ Alive
    /\ caller[c] = "stop"
    /\ IF isStarted /\ ~isStopped /\ stopSet
       THEN cancelled' = TRUE /\ isStopped' = TRUE
       ELSE UNCHANGED <<isStopped, cancelled>>
    /\ caller' = [caller EXCEPT ![c] = "returned"]
    /\ UNCHANGED <<host, proc, start, isStarted, stopSet, feeding, device>>

Stop(c) ==
    /\ Alive
    /\ caller[c] = "stop"
    /\ \/ /\ ~isStarted \/ isStopped
          /\ UNCHANGED <<isStopped, cancelled>>
       \/ /\ isStarted /\ ~isStopped
          /\ stopSet
          /\ cancelled' = TRUE
          /\ isStopped' = TRUE
    /\ caller' = [caller EXCEPT ![c] = "returned"]
    /\ UNCHANGED <<host, proc, start, isStarted, stopSet, feeding, device>>

\* Calling a nil swd.stop ends the process.
StopPanics(c) ==
    /\ Alive
    /\ caller[c] = "stop"
    /\ isStarted /\ ~isStopped
    /\ ~stopSet
    /\ proc' = "down"
    /\ UNCHANGED <<host, process, device>>

\* Faulty variant: the error is returned to a caller that does not know it.
SoftwareRebootFailing(c) ==
    /\ Alive
    /\ caller[c] = "software"
    /\ caller' = [caller EXCEPT ![c] = "failed"]
    /\ UNCHANGED <<host, proc, start, swd, feeding, device>>

\* The error of a failed software reboot is swallowed.
SoftwareReboot(c) ==
    /\ Alive
    /\ caller[c] = "software"
    /\ \/ host' = "rebooting" /\ UNCHANGED caller
       \/ caller' = [caller EXCEPT ![c] = "returned"] /\ UNCHANGED host
    /\ UNCHANGED <<proc, start, swd, feeding, device>>

(***************************************************************************)
(* The host.  A process that goes away without disarming leaves the device *)
(* armed; the process that replaces it opens the device again.  What ends  *)
(* a process, and when, is in module Agent.                                *)
(***************************************************************************)
NewProcess ==
    /\ proc' = "up"
    /\ start' = "new"
    /\ isStarted' = FALSE /\ isStopped' = FALSE
    /\ stopSet' = FALSE /\ cancelled' = FALSE
    /\ feeder' = "none" /\ wait' = 0 /\ failures' = 0
    /\ caller' = [c \in Callers |-> "idle"]

RestartPod ==
    /\ host = "up"
    /\ proc = "down"
    /\ NewProcess
    /\ UNCHANGED <<host, device>>

DeviceFires ==
    /\ host = "up"
    /\ armed
    /\ age >= Timeout
    /\ host' = "rebooting"
    /\ UNCHANGED <<proc, process, device>>

HostBoots ==
    /\ host = "rebooting"
    /\ host' = "up"
    /\ NewProcess
    /\ armed' = FALSE
    /\ age' = 0

\* Between Start's unlock and the cancellation the feeding goroutine has
\* something to do on time (external: how promptly goroutines are scheduled).
FeederBusy ==
    /\ Alive
    /\ \/ start = "unlocked"
       \/ feeder = "sleeping" /\ ~cancelled

FeedOnTime ==
    /\ FeederBusy => wait < Period + Lag
    /\ Alive /\ feeder = "entered" => wait < Lag

\* Time matters while the device counts.
Tick ==
    /\ host = "up"
    /\ armed
    /\ age < Timeout
    /\ FeedOnTime
    /\ age' = age + 1
    /\ wait' = IF FeederBusy \/ feeder = "entered" THEN wait + 1 ELSE wait
    /\ UNCHANGED <<host, proc, start, swd, feeder, failures, caller, armed>>

-------------------------------------------------------------------------------

\* The fields of the watchdog and the places of Start, of the feeding
\* goroutine and of the callers of Reboot are among those the code has.
TypeOK ==
    /\ host \in {"up", "rebooting"}
    /\ proc \in {"up", "terminating", "down"}
    /\ start \in {"new", "unlocked", "blocked", "returned"}
    /\ isStarted \in BOOLEAN /\ isStopped \in BOOLEAN
    /\ stopSet \in BOOLEAN /\ cancelled \in BOOLEAN /\ armed \in BOOLEAN
    /\ feeder \in {"none", "sleeping", "entered"}
    /\ failures \in 0..MaxFeedFailures
    /\ caller \in [Callers -> {"idle", "stop", "software", "returned"}]
    /\ wait \in Nat /\ age \in Nat

\* A watchdog that was started does not expire while its process lives and
\* Stop has not been called: feeding every third of the timeout leaves room
\* for MaxFeedFailures failed feeds in a row and for Lag.
FedInTime ==
    Alive /\ isStarted /\ ~isStopped /\ armed => age < Timeout

\* Once stopped, by Stop or by disarming it, the watchdog is not touched any
\* more by its process: a feed that was waiting for the mutex does not feed
\* it, and the end of the pod does not disarm what Stop left to fire.
StopIsFinal ==
    [][isStopped /\ isStopped' => armed' = armed /\ age' >= age]_watchdog

\* A watchdog stopped by Stop reboots the host, unless a new process of the
\* agent takes the device over before it fires.
StopLeadsToReboot ==
    (host = "up" /\ isStopped /\ armed) ~> (host = "rebooting" \/ ~isStopped)

\* A call of Reboot that found the watchdog started gets the host rebooted,
\* unless the process ends, or is told to end, on the way.
RebootCarriedOut ==
    \A c \in Callers :
        (host = "up" /\ proc = "up" /\ caller[c] = "stop")
            ~> (host = "rebooting" \/ proc # "up" \/ caller[c] = "idle")

\* A call of Reboot that went for the watchdog returns with the watchdog
\* stopped, whether this call, another one or the end of Start stopped it.
RebootReturnsStopped ==
    [][\A c \in Callers :
         caller[c] = "stop" /\ caller'[c] = "returned" => isStopped']_watchdog

\* Stop finds the function that cancels the feeding set whenever it is about
\* to call it.
StopIsSet ==
    \A c \in Callers :
        Alive /\ caller[c] = "stop" /\ isStarted /\ ~isStopped => stopSet
===============================================================================
