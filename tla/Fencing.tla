------------------------------- MODULE Fencing --------------------------------
(***************************************************************************)
(* Whether the workload of a node has stopped by the time at which the     *)
(* other agents delete the node: the API check of module ApiCheck, the     *)
(* reboot it and the reconciler on the node ask for, and the deadline that *)
(* NodeRemediation!SetDeadline stores and NodeRemediation!Remove waits     *)
(* for, on one clock.                                                      *)
(*                                                                         *)
(* The clock is what is left until the deadline, in units of five seconds  *)
(* in the instances.  It runs while the workload does.  A check or a batch *)
(* of questions takes the longest it can when the node has lost the API    *)
(* server; while the node is connected, Lag lets time pass.                *)
(***************************************************************************)
EXTENDS ApiCheck, Integers

CONSTANTS
    Losses,           \* what the node may lose: the API server, or peers too
    CheckInterval, ApiServerTimeout, PeerDialTimeout, PeerRequestTimeout,
    TimeToAssumeNodeRebooted,  \* as configured
    Buffer,           \* what is added for safety
    Watchdogs,        \* whether the node may have, or lack, a watchdog
    WatchdogTimeout,  \* how long the stopped watchdog takes to fire
    ReactTime         \* until a connected agent has seen a stored deadline

ASSUME LossesAssumption == Losses \subseteq {"apiLost", "cutOff"}
ASSUME TimesAssumption ==
    /\ CheckInterval \in Nat /\ ApiServerTimeout \in Nat
    /\ PeerDialTimeout \in Nat /\ PeerRequestTimeout \in Nat
    /\ TimeToAssumeNodeRebooted \in Nat /\ Buffer \in Nat
    /\ WatchdogTimeout \in Nat /\ ReactTime \in Nat
ASSUME WatchdogsAssumption == Watchdogs \subseteq BOOLEAN

VARIABLES
    dialled,      \* the node was cut off in the middle of a batch
    hasWatchdog,  \* NewLinux succeeded on the node
    fence,        \* "none", "due": a deadline is stored, "done": rebooted since
    left,         \* until the deadline, frozen by the reboot; -1 is too late
    excused       \* something happened since for which the code has no answer

deadline == <<fence, left, excused>>
vars == <<cluster, agent, dialled, hasWatchdog, deadline>>

(***************************************************************************)
(* The time the other agents wait, from initPoisonPillAgent.  It is worked *)
(* out before the manager starts the watchdog, when GetTimeout returns the *)
(* zero value of the timeout field.                                        *)
(***************************************************************************)
GetTimeout == 0

MinTimeToAssumeNodeRebooted ==
    (CheckInterval + ApiServerTimeout) * MaxErrorsThreshold
    + (10 + 1) * (PeerDialTimeout + PeerRequestTimeout)
    + (IF hasWatchdog THEN GetTimeout ELSE 0)
    + Buffer

SafeTimeToAssumeNodeRebooted ==
    IF TimeToAssumeNodeRebooted < MinTimeToAssumeNodeRebooted
    THEN MinTimeToAssumeNodeRebooted
    ELSE TimeToAssumeNodeRebooted

\* What rebooting takes once it is asked for.
RebootTime == IF hasWatchdog THEN WatchdogTimeout ELSE 0

FencingInit ==
    /\ Init
    /\ dialled = FALSE
    /\ hasWatchdog \in Watchdogs
    /\ fence = "none" /\ left = 0 /\ excused = FALSE

Counting == fence = "due" /\ ~excused

After(time) == IF ~Counting THEN left ELSE IF time > left THEN -1 ELSE left - time

Takes(time) ==
    /\ left' = After(time)
    /\ UNCHANGED <<hasWatchdog, fence, excused>>

\* The node can do nothing, or does not get to do it, before the deadline.
Excused ==
    /\ excused' = (fence = "due")
    /\ left' = IF fence = "due" THEN 0 ELSE left
    /\ UNCHANGED <<hasWatchdog, fence>>

(***************************************************************************)
(* The periodic check and the loop of handleError, and the time they take. *)
(***************************************************************************)
Lost == cluster \in {"apiLost", "cutOff"}

CheckTime == IF Lost THEN CheckInterval + ApiServerTimeout ELSE 0

\* A peer that can be reached may take its time with the connection and with
\* the answer.  With the node cut off nobody is connected to, and asked, but in
\* the batch during which that happens.
BatchTime ==
    IF ~Lost THEN 0
    ELSE IF cluster = "cutOff" /\ ~dialled THEN PeerDialTimeout
    ELSE PeerDialTimeout + PeerRequestTimeout

\* It considers itself healthy, however long it cannot reach anybody.
KnowsNoPeers == Lost /\ peers = 0

\* A peer that does not know of the deadline yet says that the node is healthy,
\* or more than half of the peers have lost the API server as well.
Reassured == Lost /\ ~asking' /\ ~rebootCalled'

Check ==
    \/ CheckSucceeds /\ Takes(0) /\ UNCHANGED dialled
    \/ ErrorIgnored /\ ~KnowsNoPeers /\ Takes(CheckTime) /\ UNCHANGED dialled
    \/ ErrorIgnored /\ KnowsNoPeers /\ Excused /\ UNCHANGED dialled
    \/ AskPeers /\ Takes(CheckTime) /\ UNCHANGED dialled
    \/ AskBatch /\ ~Reassured /\ Takes(BatchTime) /\ dialled' = FALSE
    \/ AskBatch /\ Reassured /\ Excused /\ dialled' = FALSE

(***************************************************************************)
(* The reboot: asked for by the API check, or by the reconciler on the     *)
(* node while it is connected and the deadline has not passed.  A software *)
(* reboot may fail; only the API check tries again.                        *)
(***************************************************************************)
GoesDown ==
    /\ Forgotten
    /\ dialled' = FALSE
    /\ UNCHANGED <<cluster, hasWatchdog, excused>>
    /\ fence' = IF fence = "due" THEN "done" ELSE fence
    /\ left' = After(RebootTime)

HostReboots == rebootCalled /\ GoesDown

SoftwareRebootFails ==
    ~hasWatchdog /\ RebootFails /\ Excused /\ UNCHANGED dialled

SeesDeadline == cluster = "connected" /\ fence = "due" /\ left > 0

ReconcilerReboots == SeesDeadline /\ GoesDown

ReconcilerRebootFails ==
    /\ SeesDeadline /\ ~hasWatchdog
    /\ Excused
    /\ UNCHANGED <<cluster, agent, dialled>>

(***************************************************************************)
(* The world around the node.                                              *)
(***************************************************************************)
\* An agent that can reach the API server stores the deadline.
SetDeadline ==
    /\ fence = "none"
    /\ cluster # "outage"
    /\ fence' = "due"
    /\ left' = SafeTimeToAssumeNodeRebooted
    /\ excused' = FALSE
    /\ UNCHANGED <<cluster, agent, dialled, hasWatchdog>>

Lag ==
    /\ cluster = "connected"
    /\ Counting
    /\ left > SafeTimeToAssumeNodeRebooted - ReactTime
    /\ left' = left - 1
    /\ UNCHANGED <<cluster, agent, dialled, hasWatchdog, fence, excused>>

\* The node is deleted and restored, and the report on it released.
Remediated ==
    /\ fence = "done" \/ excused
    /\ left >= 0
    /\ fence' = "none" /\ left' = 0 /\ excused' = FALSE
    /\ UNCHANGED <<cluster, agent, dialled, hasWatchdog>>

\* The node loses the API server, with or without its peers, for good or one
\* after the other.
Lose(what) ==
    /\ cluster # what
    /\ cluster' = what
    /\ dialled' = (what = "cutOff" /\ asking)
    /\ UNCHANGED <<agent, hasWatchdog, deadline>>

\* In an outage peers confirm that the API server is to blame, and a node
\* that is connected again for a moment starts to count errors anew.
Turn(to) ==
    /\ cluster # to
    /\ cluster' = to
    /\ dialled' = FALSE
    /\ Excused
    /\ UNCHANGED agent

Outage == Turn("outage")

Connected == Turn("connected")

\* The agent's process is replaced: errors and peers are forgotten.
AgentRestarts ==
    /\ Forgotten
    /\ dialled' = FALSE
    /\ Excused
    /\ UNCHANGED cluster

FencingNext ==
    \/ Check
    \/ UpdatePeers /\ Takes(0) /\ UNCHANGED dialled
    \/ HostReboots \/ SoftwareRebootFails
    \/ ReconcilerReboots \/ ReconcilerRebootFails
    \/ SetDeadline \/ Lag \/ Remediated
    \/ (\E what \in Losses : Lose(what))
    \/ Outage \/ Connected \/ AgentRestarts

Spec == FencingInit /\ [][FencingNext]_vars

\* The check goes on, whatever it finds, and a reboot that is asked for over
\* and over again happens at some point.
FairSpec == Spec /\ WF_vars(Check) /\ SF_vars(HostReboots)

-------------------------------------------------------------------------------

\* A node on which a remediation has set its deadline has rebooted, and its
\* workload has stopped, before the deadline after which the other agents
\* delete it: by its own reconciler if it hears of the deadline, by its API
\* check if it loses the API server before, whether it is cut off or told by
\* peers that it is unhealthy, however slow those are.
FencedInTime == left >= 0

\* A node that is cut off from the API server and from its peers, and that
\* knows of any, reboots (and so forgets them), unless its agent does before:
\* a software reboot that fails is tried again.
CutOffNodeReboots ==
    (cluster = "cutOff" /\ peers # 0) ~> (peers = 0 \/ cluster # "cutOff")
===============================================================================
