----------------------------- MODULE AgentProofs ------------------------------
(***************************************************************************)
(* The watchdog inside the agent, for any timeout of the device, any lag   *)
(* and number of failed feeds that leave room in it, any number of callers *)
(* of Reboot and any way the process ends.                                 *)
(*                                                                         *)
(* The invariant has four parts over the types: Control says which states  *)
(* of Start, of the feeding goroutine and of the flags go together; Calls  *)
(* what Stop finds when it is called; Timing bounds the age of the device  *)
(* by the failed feeds and the time since the goroutine last ran; Ending   *)
(* says who is answerable for an armed device.                             *)
(***************************************************************************)
EXTENDS Agent, TLAPS

Control ==
    /\ isStopped => isStarted
    /\ ~isStopped => ~cancelled
    /\ isStarted => start # "new"
    /\ start \in {"new", "unlocked"} => feeder = "none" /\ failures = 0
    /\ isStarted /\ start # "unlocked" => feeder # "none"

Calls ==
    /\ isStarted /\ start # "unlocked" => stopSet
    /\ \A c \in Callers : caller[c] = "stop" => isStarted

\* The longest time a number of feeds takes.
Rounds(n) == n * (Period + Lag)

Counting == Alive /\ isStarted /\ ~isStopped /\ armed

Timing ==
    Counting =>
        /\ start = "unlocked" => wait = Period + age /\ wait <= Period + Lag
        /\ feeder = "sleeping" =>
               age <= Rounds(failures) + wait /\ wait <= Period + Lag
        /\ feeder = "entered" =>
               age <= Rounds(failures + 1) + wait /\ wait <= Lag

AskedFor == \E c \in Callers : caller[c] # "idle"

Ending ==
    /\ Alive /\ isStarted => synced /\ HasWatchdog
    /\ isStopped /\ start # "returned" => AskedFor
    /\ start = "returned" /\ isStarted /\ armed /\ ~mishap => AskedFor
    /\ proc = "down" /\ isStarted /\ ~mishap => start = "returned"

-------------------------------------------------------------------------------

\* What a step is, for a proof by cases.
LEMMA Steps ==
    ASSUME AgentNext
    PROVE  \/ SyncCaches \/ PeersStart \/ ServerStart \/ ServeFails
           \/ StartFails /\ UNCHANGED manager
           \/ synced /\ StartOpens /\ UNCHANGED manager
           \/ StartFeeding /\ UNCHANGED manager
           \/ FeedEnter /\ UNCHANGED manager
           \/ Feed /\ UNCHANGED manager
           \/ WatchdogReturns
           \/ \E c \in Callers :
                \/ RebootChecks(c) /\ UNCHANGED manager
                \/ SoftwareReboot(c) /\ UNCHANGED manager
                \/ Stop(c) /\ UNCHANGED manager
                \/ Panics(c)
           \/ Terminate \/ MainReturns \/ Killed
           \/ RestartPod /\ Gone /\ mishap' = FALSE
           \/ HostBoots /\ Gone /\ mishap' = FALSE
           \/ Tick /\ UNCHANGED manager
           \/ DeviceReboots
BY DEF AgentNext, WatchdogStarts, WatchdogFeeds, AsksForReboot, StopsWatchdog,
       ManagerStops, AgentStarts

\* Period is a third of the timeout, rounded down.
LEMMA PeriodIsNat == Period \in Nat
BY DeviceAssumption DEF Period

\* The two kinds of types: flags, and the rest.
Flags ==
    /\ isStarted \in BOOLEAN /\ isStopped \in BOOLEAN
    /\ stopSet \in BOOLEAN /\ cancelled \in BOOLEAN /\ armed \in BOOLEAN

\* Every assignment to a flag is TRUE or FALSE.
LEMMA FlagsStep ==
    ASSUME Flags, AgentNext
    PROVE  Flags'
<1> USE DEF Flags, watchdog, process, device, swd, feeding
<1>1. CASE SyncCaches \/ PeersStart \/ ServerStart \/ ServeFails
  BY <1>1 DEF SyncCaches, PeersStart, ServerStart, ServeFails, Becomes
<1>2. CASE StartFails
  BY <1>2, Zenon DEF StartFails
<1>3. CASE StartOpens
  BY <1>3, Zenon DEF StartOpens
<1>4. CASE StartFeeding
  BY <1>4, Zenon DEF StartFeeding
<1>5. CASE WatchdogReturns
  BY <1>5, Zenon DEF WatchdogReturns, StartReturns
<1>6. CASE FeedEnter
  BY <1>6 DEF FeedEnter
<1>7. CASE Feed
  BY <1>7 DEF Feed
<1>8. ASSUME NEW c \in Callers,
             RebootChecks(c) \/ SoftwareReboot(c) \/ Stop(c) \/ Panics(c)
      PROVE  Flags'
  BY <1>8, Zenon DEF RebootChecks, SoftwareReboot, Stop, Panics, StopPanics
<1>9. CASE Terminate \/ MainReturns \/ Killed
  BY <1>9 DEF Terminate, MainReturns, Killed
<1>10. CASE RestartPod
  BY <1>10, Zenon DEF RestartPod, NewProcess
<1>11. CASE HostBoots
  BY <1>11, Zenon DEF HostBoots, NewProcess
<1>12. CASE Tick
  BY <1>12 DEF Tick
<1>13. CASE DeviceReboots
  BY <1>13 DEF DeviceReboots, DeviceFires
<1> QED
  BY <1>1, <1>2, <1>3, <1>4, <1>5, <1>6, <1>7, <1>8, <1>9, <1>10, <1>11, <1>12,
     <1>13, Steps

Ranges ==
    /\ host \in {"up", "rebooting"}
    /\ proc \in {"up", "terminating", "down"}
    /\ start \in {"new", "unlocked", "blocked", "returned"}
    /\ feeder \in {"none", "sleeping", "entered"}
    /\ failures \in 0..MaxFeedFailures
    /\ caller \in [Callers -> {"idle", "stop", "software", "returned"}]
    /\ wait \in Nat /\ age \in Nat

\* Goroutines only go to places they have, and nothing is counted below zero.
LEMMA RangesStep ==
    ASSUME Ranges, AgentNext
    PROVE  Ranges'
<1> USE PeriodIsNat, LagAssumption
        DEF Ranges, watchdog, process, device, swd, feeding
<1>1. CASE SyncCaches \/ PeersStart \/ ServerStart \/ ServeFails
  BY <1>1 DEF SyncCaches, PeersStart, ServerStart, ServeFails, Becomes
<1>2. CASE StartFails \/ StartOpens \/ StartFeeding
  BY <1>2 DEF StartFails, StartOpens, StartFeeding
<1>3. CASE WatchdogReturns
  BY <1>3 DEF WatchdogReturns, StartReturns
<1>4. CASE FeedEnter \/ Feed
  BY <1>4 DEF FeedEnter, Feed
<1>5. ASSUME NEW c \in Callers,
             RebootChecks(c) \/ SoftwareReboot(c) \/ Stop(c) \/ Panics(c)
      PROVE  Ranges'
  BY <1>5 DEF RebootChecks, SoftwareReboot, Stop, Panics, StopPanics
<1>6. CASE Terminate \/ MainReturns \/ Killed
  BY <1>6 DEF Terminate, MainReturns, Killed
<1>7. CASE RestartPod \/ HostBoots
  BY <1>7 DEF RestartPod, HostBoots, NewProcess
<1>8. CASE Tick
  BY <1>8 DEF Tick
<1>9. CASE DeviceReboots
  BY <1>9 DEF DeviceReboots, DeviceFires
<1> QED
  BY <1>1, <1>2, <1>3, <1>4, <1>5, <1>6, <1>7, <1>8, <1>9, Steps

\* The control: flags are set in the order Start, Stop and the feeding
\* goroutine go through them.
LEMMA ControlStep ==
    ASSUME Flags, Ranges, Control, AgentNext
    PROVE  Control'
<1> USE LagAssumption
        DEF Flags, Ranges, Control, watchdog, process, device, swd, feeding
<1>1. CASE SyncCaches \/ PeersStart \/ ServerStart \/ ServeFails
  BY <1>1 DEF SyncCaches, PeersStart, ServerStart, ServeFails, Becomes
<1>2. CASE StartFails
  BY <1>2 DEF StartFails
<1>3. CASE StartOpens
  BY <1>3 DEF StartOpens
<1>4. CASE StartFeeding
  BY <1>4 DEF StartFeeding
<1>5. CASE WatchdogReturns
  BY <1>5 DEF WatchdogReturns, StartReturns
<1>6. CASE FeedEnter \/ Feed
  BY <1>6 DEF FeedEnter, Feed
<1>7. ASSUME NEW c \in Callers,
             RebootChecks(c) \/ SoftwareReboot(c) \/ Stop(c) \/ Panics(c)
      PROVE  Control'
  BY <1>7 DEF RebootChecks, SoftwareReboot, Stop, Panics, StopPanics
<1>8. CASE Terminate \/ MainReturns \/ Killed
  BY <1>8 DEF Terminate, MainReturns, Killed
<1>9. CASE RestartPod \/ HostBoots
  BY <1>9 DEF RestartPod, HostBoots, NewProcess
<1>10. CASE Tick
  BY <1>10 DEF Tick
<1>11. CASE DeviceReboots
  BY <1>11 DEF DeviceReboots, DeviceFires
<1> QED
  BY <1>1, <1>2, <1>3, <1>4, <1>5, <1>6, <1>7, <1>8, <1>9, <1>10, <1>11, Steps

\* Start sets swd.stop after isStarted, and Reboot looks at isStarted before it
\* calls Stop.
LEMMA CallsStep ==
    ASSUME Flags, Ranges, Control, Calls, AgentNext
    PROVE  Calls'
<1> USE DEF Flags, Ranges, Control, Calls, watchdog, process, device, swd, feeding
<1>1. CASE SyncCaches \/ PeersStart \/ ServerStart \/ ServeFails
  BY <1>1 DEF SyncCaches, PeersStart, ServerStart, ServeFails, Becomes
<1>2. CASE StartFails
  BY <1>2 DEF StartFails
<1>3. CASE StartOpens
  BY <1>3 DEF StartOpens
<1>4. CASE StartFeeding
  BY <1>4 DEF StartFeeding
<1>5. CASE WatchdogReturns
  BY <1>5 DEF WatchdogReturns, StartReturns
<1>6. CASE FeedEnter \/ Feed
  BY <1>6 DEF FeedEnter, Feed
<1>7. ASSUME NEW c \in Callers,
             RebootChecks(c) \/ SoftwareReboot(c) \/ Stop(c) \/ Panics(c)
      PROVE  Calls'
  BY <1>7 DEF RebootChecks, SoftwareReboot, Stop, Panics, StopPanics
<1>8. CASE Terminate \/ MainReturns \/ Killed
  BY <1>8 DEF Terminate, MainReturns, Killed
<1>9. CASE RestartPod \/ HostBoots
  BY <1>9 DEF RestartPod, HostBoots, NewProcess
<1>10. CASE Tick
  BY <1>10 DEF Tick
<1>11. CASE DeviceReboots
  BY <1>11 DEF DeviceReboots, DeviceFires
<1> QED
  BY <1>1, <1>2, <1>3, <1>4, <1>5, <1>6, <1>7, <1>8, <1>9, <1>10, <1>11, Steps

\* The arithmetic: the rounds add up, and all of them fit into the timeout.
LEMMA RoundsAdd ==
    /\ Rounds(0) = 0
    /\ \A n \in Nat : Rounds(n) \in Nat /\ Rounds(n + 1) = Rounds(n) + Period + Lag
    /\ Rounds(MaxFeedFailures + 1) + Lag < Timeout
BY PeriodIsNat, LagAssumption DEF Rounds

\* Fewer rounds do not take longer.
LEMMA RoundsGrow ==
    ASSUME NEW m \in Nat, NEW n \in Nat, m <= n
    PROVE  Rounds(m) <= Rounds(n)
<1> DEFINE p == Period + Lag
<1>1. p \in Nat /\ n - m \in Nat /\ n = m + (n - m)
  BY PeriodIsNat, LagAssumption
<1>2. (n - m) * p >= 0
  BY <1>1
<1>3. n * p = m * p + (n - m) * p
  BY <1>1
<1> QED  BY <1>1, <1>2, <1>3 DEF Rounds

\* The device is fed by the time the bound runs out.
LEMMA TimingStep ==
    ASSUME Flags, Ranges, Control, Timing, AgentNext
    PROVE  Timing'
<1> USE PeriodIsNat, LagAssumption, RoundsAdd
        DEF Flags, Ranges, Control, Timing, Counting, Alive,
            watchdog, process, device, swd, feeding
<1>1. CASE SyncCaches \/ PeersStart \/ ServerStart \/ ServeFails
  BY <1>1 DEF SyncCaches, PeersStart, ServerStart, ServeFails, Becomes
<1>2. CASE StartFails
  BY <1>2 DEF StartFails
<1>3. CASE StartOpens
  BY <1>3 DEF StartOpens
<1>4. CASE StartFeeding
  BY <1>4 DEF StartFeeding
<1>5. CASE WatchdogReturns
  <2>1. start = "blocked" /\ start' = "returned" /\ UNCHANGED <<host, proc, isStarted, feeding>>
    BY <1>5 DEF WatchdogReturns, StartReturns
  <2>2. isStopped' \/ ~armed' \/ UNCHANGED <<isStopped, armed, age>>
    BY <1>5 DEF WatchdogReturns, StartReturns
  <2> QED  BY <2>1, <2>2
<1>6. CASE FeedEnter
  BY <1>6 DEF FeedEnter
<1>7. CASE Feed
  <2>1. CASE isStopped
    BY <1>7, <2>1 DEF Feed
  <2>2. CASE ~isStopped /\ failures' = failures + 1 /\ UNCHANGED device
    <3>1. Rounds(failures') = Rounds(failures) + Period + Lag
      BY <2>2
    <3>2. UNCHANGED <<host, proc, start, isStarted, isStopped, wait>> /\ feeder' = "sleeping"
      BY <1>7 DEF Feed
    <3> QED  BY <1>7, <2>2, <3>1, <3>2 DEF Feed
  <2>3. CASE ~isStopped /\ failures' = 0 /\ age' = 0
    <3>1. UNCHANGED <<host, proc, start, isStarted, isStopped, wait, armed>> /\ feeder' = "sleeping"
      BY <1>7, <2>3 DEF Feed
    <3>2. Rounds(failures') = 0
      BY <2>3
    <3> QED  BY <1>7, <2>3, <3>1, <3>2 DEF Feed
  <2> QED  BY <1>7, <2>1, <2>2, <2>3 DEF Feed
<1>8. ASSUME NEW c \in Callers,
             RebootChecks(c) \/ SoftwareReboot(c) \/ Stop(c) \/ Panics(c)
      PROVE  Timing'
  BY <1>8 DEF RebootChecks, SoftwareReboot, Stop, Panics, StopPanics
<1>9. CASE Terminate \/ MainReturns \/ Killed
  BY <1>9 DEF Terminate, MainReturns, Killed
<1>10. CASE RestartPod \/ HostBoots
  BY <1>10 DEF RestartPod, HostBoots, NewProcess
<1>11. CASE Tick
  BY <1>11, SMTT(30) DEF Tick, FeedOnTime, FeederBusy
<1>12. CASE DeviceReboots
  BY <1>12 DEF DeviceReboots, DeviceFires
<1> QED
  BY <1>1, <1>2, <1>3, <1>4, <1>5, <1>6, <1>7, <1>8, <1>9, <1>10, <1>11, <1>12,
     Steps

\* An armed device is left behind by a process that was killed or could not
\* disarm it, or because a reboot was asked for.
LEMMA EndingStep ==
    ASSUME Flags, Ranges, Control, Ending, AgentNext
    PROVE  Ending'
<1> USE DEF Flags, Ranges, Control, Ending, Alive, watchdog, process, device, swd,
            feeding, manager
<1>1. CASE SyncCaches \/ PeersStart \/ ServerStart \/ ServeFails
  BY <1>1 DEF SyncCaches, PeersStart, ServerStart, ServeFails, Becomes, AskedFor
<1>2. CASE StartFails /\ UNCHANGED manager
  BY <1>2 DEF StartFails, AskedFor
<1>3. CASE synced /\ StartOpens /\ UNCHANGED manager
  BY <1>3 DEF StartOpens, AskedFor
<1>4. CASE StartFeeding /\ UNCHANGED manager
  BY <1>4 DEF StartFeeding, AskedFor
<1>5. CASE WatchdogReturns
  <2>1. /\ UNCHANGED <<host, proc, isStarted, caller, synced>>
        /\ start # "returned" /\ start' = "returned" /\ proc # "down"
    BY <1>5 DEF WatchdogReturns, StartReturns
  <2>2. \/ ~armed'
        \/ ~isStarted
        \/ isStopped
        \/ mishap'
    BY <1>5, Zenon DEF WatchdogReturns, StartReturns
  <2> QED  BY <2>1, <2>2 DEF AskedFor
<1>6. CASE FeedEnter /\ UNCHANGED manager
  BY <1>6 DEF FeedEnter, AskedFor
<1>7. CASE Feed /\ UNCHANGED manager
  BY <1>7 DEF Feed, AskedFor
<1>8. ASSUME NEW c \in Callers,
             \/ RebootChecks(c) /\ UNCHANGED manager
             \/ SoftwareReboot(c) /\ UNCHANGED manager
             \/ Stop(c) /\ UNCHANGED manager
             \/ Panics(c)
      PROVE  Ending'
  <2>1. CASE RebootChecks(c) /\ UNCHANGED manager
    <3>1. caller'[c] # "idle"
      BY <2>1 DEF RebootChecks
    <3> QED  BY <2>1, <3>1 DEF RebootChecks, AskedFor
  <2>2. CASE SoftwareReboot(c) /\ UNCHANGED manager
    <3>1. \A d \in Callers : caller[d] # "idle" => caller'[d] # "idle"
      BY <2>2 DEF SoftwareReboot
    <3> QED  BY <2>2, <3>1 DEF SoftwareReboot, AskedFor
  <2>3. CASE Stop(c) /\ UNCHANGED manager
    <3>1. caller'[c] # "idle"
      BY <2>3 DEF Stop
    <3> QED  BY <2>3, <3>1 DEF Stop, AskedFor
  <2>4. CASE Panics(c)
    BY <2>4 DEF Panics, StopPanics, AskedFor
  <2> QED  BY <1>8, <2>1, <2>2, <2>3, <2>4
<1>9. CASE Terminate
  BY <1>9 DEF Terminate, AskedFor
<1>10. CASE MainReturns
  BY <1>10 DEF MainReturns, AskedFor
<1>11. CASE Killed
  BY <1>11 DEF Killed, AskedFor
<1>12. CASE RestartPod \/ HostBoots
  BY <1>12 DEF RestartPod, HostBoots, NewProcess
<1>13. CASE Tick /\ UNCHANGED manager
  BY <1>13 DEF Tick, AskedFor
<1>14. CASE DeviceReboots
  BY <1>14 DEF DeviceReboots, DeviceFires, AskedFor
<1> QED
  BY <1>1, <1>2, <1>3, <1>4, <1>5, <1>6, <1>7, <1>8, <1>9, <1>10, <1>11, <1>12,
     <1>13, <1>14, Steps

-------------------------------------------------------------------------------

IInv == Flags /\ Ranges /\ Control /\ Calls /\ Timing /\ Ending

\* The invariant is inductive.
LEMMA Inductive == Spec => []IInv
<1>1. AgentInit => IInv
  <2> SUFFICES ASSUME AgentInit
               PROVE  IInv
    OBVIOUS
  <2> USE DEF AgentInit, Init
  <2>1. Flags
    BY Zenon DEF Flags
  <2>2. Ranges
    BY LagAssumption DEF Ranges
  <2>3. Control /\ Calls /\ Timing
    BY DEF Control, Calls, Timing, Counting
  <2>4. Ending
    BY DEF Ending
  <2> QED  BY <2>1, <2>2, <2>3, <2>4 DEF IInv
<1>2. IInv /\ [AgentNext]_vars => IInv'
  <2>1. ASSUME IInv, AgentNext
        PROVE  IInv'
    BY <2>1, FlagsStep, RangesStep, ControlStep, CallsStep, TimingStep,
       EndingStep DEF IInv
  <2>2. ASSUME IInv, UNCHANGED vars
        PROVE  IInv'
    BY <2>2 DEF vars, watchdog, process, device, swd, feeding, manager, IInv,
                Flags, Ranges, Control, Calls, Timing, Counting, Ending, Alive, AskedFor
  <2> QED  BY <2>1, <2>2
<1> QED  BY <1>1, <1>2, PTL DEF Spec

\* The fields of the watchdog and the places of its goroutines and of the
\* callers of Reboot are those the code has.
THEOREM TypeCorrect == Spec => []TypeOK
<1>1. IInv => TypeOK
  BY DEF IInv, Flags, Ranges, TypeOK
<1> QED  BY <1>1, Inductive, PTL

\* Feeding every third of the timeout keeps the device from expiring under a
\* live agent, whatever the timeout is (Start, GetTimeout).
THEOREM NoStrayReboot == Spec => []FedInTime
<1>1. IInv => FedInTime
  <2> SUFFICES ASSUME IInv, Counting
               PROVE  age < Timeout
    BY DEF FedInTime, Counting
  <2> USE PeriodIsNat, LagAssumption, DeviceAssumption, RoundsAdd
          DEF IInv, Ranges, Timing
  <2>0. /\ failures \in Nat /\ failures + 1 \in Nat /\ MaxFeedFailures + 1 \in Nat
        /\ failures + 1 <= MaxFeedFailures + 1
    OBVIOUS
  <2>1. Rounds(failures + 1) <= Rounds(MaxFeedFailures + 1)
    BY <2>0, RoundsGrow
  <2>2. Rounds(failures) + Period + Lag + Lag < Timeout
    BY <2>0, <2>1
  <2>3. CASE start = "unlocked"
    BY <2>0, <2>2, <2>3
  <2>4. CASE feeder = "sleeping"
    BY <2>0, <2>2, <2>4
  <2>5. CASE feeder = "entered"
    BY <2>0, <2>1, <2>2, <2>5
  <2> QED  BY <2>3, <2>4, <2>5 DEF Control, Counting
<1> QED  BY <1>1, Inductive, PTL

\* Nobody touches a stopped watchdog (the look at isStopped in the feeding
\* function, and the one before the device is disarmed).
THEOREM NeverTouchedAgain == Spec => StopIsFinal
<1>1. ASSUME IInv, AgentNext, isStopped, isStopped'
      PROVE  armed' = armed /\ age' >= age
  <2>0. start # "new" /\ isStarted /\ age \in Nat
    BY <1>1 DEF IInv, Flags, Ranges, Control
  <2> SUFFICES UNCHANGED device \/ (armed' = armed /\ age' = age + 1)
    BY <2>0 DEF device
  <2> USE DEF watchdog, process
  <2>1. CASE SyncCaches \/ PeersStart \/ ServerStart \/ ServeFails
    BY <2>1 DEF SyncCaches, PeersStart, ServerStart, ServeFails, Becomes
  <2>2. CASE StartFails \/ StartOpens \/ StartFeeding
    BY <2>0, <2>2, Zenon DEF StartFails, StartOpens, StartFeeding
  <2>3. CASE WatchdogReturns
    BY <1>1, <2>3, Zenon DEF WatchdogReturns, StartReturns
  <2>4. CASE FeedEnter \/ Feed
    BY <1>1, <2>4, Zenon DEF FeedEnter, Feed
  <2>5. ASSUME NEW c \in Callers,
               RebootChecks(c) \/ SoftwareReboot(c) \/ Stop(c) \/ Panics(c)
        PROVE  UNCHANGED device
    BY <2>5, Zenon DEF RebootChecks, SoftwareReboot, Stop, Panics, StopPanics
  <2>6. CASE Terminate \/ MainReturns \/ Killed \/ DeviceReboots
    BY <2>6, Zenon DEF Terminate, MainReturns, Killed, DeviceReboots, DeviceFires
  <2>7. CASE RestartPod \/ HostBoots
    BY <1>1, <2>7, Zenon DEF RestartPod, HostBoots, NewProcess
  <2>8. CASE Tick
    BY <2>8, Zenon DEF Tick
  <2> QED  BY <1>1, <2>1, <2>2, <2>3, <2>4, <2>5, <2>6, <2>7, <2>8, Steps
<1>2. IInv /\ [AgentNext]_vars
        => [isStopped /\ isStopped' => armed' = armed /\ age' >= age]_watchdog
  BY <1>1 DEF vars
<1> QED  BY <1>2, Inductive, PTL DEF Spec, StopIsFinal

\* An agent that ends in order leaves no device that reboots the host, unless
\* a reboot was asked for (the end of Start).
THEOREM NothingLeftArmed == Spec => []EndedAgentDisarms
<1>1. IInv => EndedAgentDisarms
  BY DEF IInv, Ending, AskedFor, EndedAgentDisarms
<1> QED  BY <1>1, Inductive, PTL

\* Where a call of Stop can find swd.stop not set: between Start's unlock and
\* its assignment, and at no other time of the process.
NilStopOnlyWhileStarting == StopIsSet \/ start = "unlocked"

\* The window in which Stop would call a nil function is that one gap of Start.
THEOREM NilStopWindow == Spec => []NilStopOnlyWhileStarting
<1>1. IInv => NilStopOnlyWhileStarting
  BY DEF IInv, Calls, NilStopOnlyWhileStarting, StopIsSet
<1> QED  BY <1>1, Inductive, PTL

\* Stop never returns without effect: it is not called before isStarted is set,
\* and a stopped watchdog stays so until the next process.
THEOREM StopTakesEffect == Spec => RebootReturnsStopped
<1>1. ASSUME IInv, AgentNext, NEW c \in Callers, caller[c] = "stop", caller'[c] = "returned"
      PROVE  isStopped'
  <2>0. isStarted /\ caller \in [Callers -> {"idle", "stop", "software", "returned"}]
    BY <1>1 DEF IInv, Calls, Ranges
  <2> USE DEF watchdog, process, device, swd, feeding
  <2>1. CASE \E d \in Callers : Stop(d)
    <3>1. PICK d \in Callers : Stop(d)
      BY <2>1
    <3> QED  BY <1>1, <2>0, <3>1 DEF Stop
  <2>2. CASE \E d \in Callers : RebootChecks(d) \/ SoftwareReboot(d) \/ Panics(d)
    <3>1. PICK d \in Callers : RebootChecks(d) \/ SoftwareReboot(d) \/ Panics(d)
      BY <2>2
    <3> QED  BY <1>1, <2>0, <3>1 DEF RebootChecks, SoftwareReboot, Panics, StopPanics
  <2>3. CASE SyncCaches \/ PeersStart \/ ServerStart \/ ServeFails
    BY <1>1, <2>3 DEF SyncCaches, PeersStart, ServerStart, ServeFails, Becomes
  <2>4. CASE StartFails \/ StartOpens \/ StartFeeding \/ WatchdogReturns
    BY <1>1, <2>4 DEF StartFails, StartOpens, StartFeeding, WatchdogReturns, StartReturns
  <2>5. CASE FeedEnter \/ Feed \/ Tick \/ DeviceReboots
    BY <1>1, <2>5 DEF FeedEnter, Feed, Tick, DeviceReboots, DeviceFires
  <2>6. CASE Terminate \/ MainReturns \/ Killed
    BY <1>1, <2>6 DEF Terminate, MainReturns, Killed
  <2>7. CASE RestartPod \/ HostBoots
    BY <1>1, <2>7 DEF RestartPod, HostBoots, NewProcess
  <2> QED  BY <1>1, <2>1, <2>2, <2>3, <2>4, <2>5, <2>6, <2>7, Steps
<1>2. IInv /\ [AgentNext]_vars
        => [\A c \in Callers :
              caller[c] = "stop" /\ caller'[c] = "returned" => isStopped']_watchdog
  BY <1>1 DEF vars
<1> QED  BY <1>2, Inductive, PTL DEF Spec, RebootReturnsStopped
===============================================================================
