----------------------------- MODULE Remediation -----------------------------
(***************************************************************************)
(* The PoisonPillRemediation (PPR) reconciler: every agent of the          *)
(* DaemonSet runs it, and all of them compete on one PPR and on the Node   *)
(* object it is about, which live in the API server.                       *)
(*                                                                         *)
(* An agent reads from informer caches (the manager's delegating client)   *)
(* and writes to the API server.  Each cached object lags behind the       *)
(* server on its own.  A call of Reconcile makes at most one write, so it  *)
(* is one action: whatever happens between its reads and its write is      *)
(* what a cache that has not caught up yet already shows.                  *)
(***************************************************************************)
EXTENDS Naturals

CONSTANTS
    Agents,                  \* the nodes that run an agent
    Sick,                    \* the agent on the node the PPR is about
    Taints,                  \* taints a node may carry
    NodeUnschedulableTaint,  \* the one that follows spec.unschedulable
    MachineOwned,            \* the PPR has an owner reference to a Machine
    NodeHolds,               \* whether others put a finalizer on the node
    PprHolds,                \* whether others put a finalizer on the PPR
    SafeTime,                \* SafeTimeToAssumeNodeRebooted, in seconds
    None,                    \* a nil nodeBackup
    MaxTime,                 \* bound on the clock
    MaxPprs,                 \* bound on the PPRs created for the node
    MaxNodes                 \* bound on the incarnations of the node

ASSUME AgentsAssumption == Sick \in Agents
ASSUME TaintsAssumption == NodeUnschedulableTaint \in Taints
ASSUME SafeTimeAssumption == SafeTime \in Nat \ {0}
ASSUME BoundsAssumption == MaxTime \in Nat /\ MaxPprs \in Nat /\ MaxNodes \in Nat
ASSUME MachineAssumption == MachineOwned \in BOOLEAN
ASSUME HoldsAssumption == NodeHolds \subseteq BOOLEAN /\ PprHolds \subseteq BOOLEAN

VARIABLES
    now,           \* wall clock, in seconds, as timestamps are stored
    node,          \* the Node object in the API server
    ppr,           \* the PPR object in the API server
    machine,       \* the Machine that owns the PPR, if any
    nodeCache,     \* per agent, the Node as its cache has it
    pprCache,      \* per agent, the PPR as its cache has it
    pprBehind,     \* per agent, whether the PPR has changed since
    machineCache,  \* per agent, the Machine as its cache has it
    queue,         \* per agent, whether a request is in its work queue
    rebooting      \* Reboot() was called by the agent running on Sick

apiVars == <<node, ppr, machine>>
cacheVars == <<nodeCache, pprCache, pprBehind, machineCache>>
vars == <<now, apiVars, cacheVars, queue, rebooting>>

(***************************************************************************)
(* The objects.  A deleted object leaves a record with exists = FALSE that *)
(* keeps its identity, so that the next incarnation gets a later one.      *)
(***************************************************************************)
Node == [exists: BOOLEAN, uid: Nat \ {0}, created: Nat, unschedulable: BOOLEAN,
         taints: SUBSET Taints, ready: BOOLEAN,
         held: BOOLEAN,          \* somebody else's finalizer is on the node
         terminating: BOOLEAN]   \* deletionTimestamp is set

\* A node backup, as far as a node is restored from it (restoreNode resets
\* the other parts): the incarnation, the taints and foreign finalizers.
Backup == [uid: Nat, taints: SUBSET Taints, held: BOOLEAN]

BackupOf(n) == [uid |-> n.uid, taints |-> n.taints, held |-> n.held]

ASSUME NoneAssumption == None \notin Backup

Ppr == [exists: BOOLEAN, uid: Nat, created: Nat, finalizer: BOOLEAN,
        held: BOOLEAN,           \* somebody else's finalizer is on the PPR
        deleting: BOOLEAN,       \* deletionTimestamp is set
        nodeBackup: Backup \cup {None},
        timeAssumedRebooted: Nat]  \* 0 is the zero time

MachineState == {"bound", "unbound", "gone"}

NewNode(uid, taints, held) ==
    [exists |-> TRUE, uid |-> uid, created |-> now, unschedulable |-> FALSE,
     taints |-> taints, ready |-> FALSE, held |-> held, terminating |-> FALSE]

RemovedNode ==
    [exists |-> FALSE, uid |-> node.uid, created |-> node.created,
     unschedulable |-> FALSE, taints |-> {}, ready |-> FALSE,
     held |-> FALSE, terminating |-> FALSE]

RemovedPpr(p) ==
    [exists |-> FALSE, uid |-> p.uid, created |-> p.created,
     finalizer |-> FALSE, held |-> FALSE, deleting |-> FALSE,
     nodeBackup |-> None, timeAssumedRebooted |-> 0]

\* What the API server keeps of a PPR: one that is being deleted goes away
\* with its last finalizer.
Stored(p) ==
    IF p.deleting /\ ~p.finalizer /\ ~p.held THEN RemovedPpr(p) ELSE p

Init ==
    /\ now = 0
    /\ \E held \in NodeHolds :
         node = NewNode(1, Taints \ {NodeUnschedulableTaint}, held)
    /\ ppr = [exists |-> FALSE, uid |-> 0, created |-> 0, finalizer |-> FALSE,
              held |-> FALSE, deleting |-> FALSE, nodeBackup |-> None,
              timeAssumedRebooted |-> 0]
    /\ machine = "bound"
    /\ nodeCache = [a \in Agents |-> node]
    /\ pprCache = [a \in Agents |-> ppr]
    /\ pprBehind = [a \in Agents |-> FALSE]
    /\ machineCache = [a \in Agents |-> machine]
    /\ queue = [a \in Agents |-> FALSE]
    /\ rebooting = FALSE

(***************************************************************************)
(* The end of a reconcile.  Result{Requeue}, Result{RequeueAfter} and an   *)
(* error all put the request back; Result{} drops it.                      *)
(***************************************************************************)
Done(a) == queue' = [queue EXCEPT ![a] = FALSE]
Again(a) == UNCHANGED queue

\* A reconcile that writes nothing and is tried again: an API error, a
\* conflict, a nil nodeRef, or one of the waits (node not ready, taint not
\* there yet, time to assume rebooted not reached, node terminating).
Requeue(a) ==
    /\ queue[a]
    /\ UNCHANGED vars

PprAlreadyDeleted(a) ==
    /\ queue[a]
    /\ ~pprCache[a].exists
    /\ Done(a)
    /\ UNCHANGED <<now, apiVars, cacheVars, rebooting>>

(***************************************************************************)
(* getNodeFromPpr and getNodeFromMachine: the node is looked up by name,   *)
(* or through the Machine's nodeRef.  A Machine that is not found gives    *)
(* the same NotFound error as a node that is not found.                    *)
(***************************************************************************)
NodeFound(a) ==
    /\ queue[a]
    /\ pprCache[a].exists
    /\ MachineOwned => machineCache[a] = "bound"
    /\ nodeCache[a].exists

NodeNotFound(a) ==
    /\ queue[a]
    /\ pprCache[a].exists
    /\ \/ MachineOwned /\ machineCache[a] = "gone"
       \/ (MachineOwned => machineCache[a] = "bound") /\ ~nodeCache[a].exists

(***************************************************************************)
(* Writes to the API server.  An Update carries the resourceVersion the    *)
(* cache had, and is refused if the object has changed since.  For the     *)
(* PPR that is pprBehind; for the node a cached copy equal to the object   *)
(* stands for the same resourceVersion (had it changed back and forth, the *)
(* retry would find what the cache holds).                                 *)
(***************************************************************************)
WritePpr(new) ==
    /\ ppr' = Stored(new)
    /\ pprBehind' = [a \in Agents |-> TRUE]
    /\ UNCHANGED <<now, node, machine, nodeCache, pprCache, machineCache,
                   rebooting>>

\* Faulty variant: write without the resourceVersion of what was read.
UpdatePprUnconditionally(a, new) == WritePpr(new)

UpdatePpr(a, new) ==
    /\ ~pprBehind[a]
    /\ WritePpr(new)

UpdateNode(a, new) ==
    /\ node = nodeCache[a]
    /\ node' = new
    /\ UNCHANGED <<now, ppr, machine, cacheVars, rebooting>>

(***************************************************************************)
(* handleDeletedNode and restoreNode.                                      *)
(***************************************************************************)
NothingToRestore(a) ==
    /\ NodeNotFound(a)
    /\ pprCache[a].nodeBackup = None
    /\ Done(a)
    /\ UNCHANGED <<now, apiVars, cacheVars, rebooting>>

DeleteTaint(taints, taintToDelete) == taints \ {taintToDelete}

RestoreNode(a) ==
    /\ NodeNotFound(a)
    /\ pprCache[a].nodeBackup # None
    /\ ~node.exists
    /\ node.uid < MaxNodes
    /\ LET backup == pprCache[a].nodeBackup
       IN  node' = NewNode(node.uid + 1,
                           DeleteTaint(backup.taints, NodeUnschedulableTaint),
                           backup.held)
    /\ Again(a)
    /\ UNCHANGED <<now, ppr, machine, cacheVars, rebooting>>

RestoreAlreadyExists(a) ==
    /\ NodeNotFound(a)
    /\ pprCache[a].nodeBackup # None
    /\ node.exists
    /\ Done(a)
    /\ UNCHANGED <<now, apiVars, cacheVars, rebooting>>

(***************************************************************************)
(* The node was created after the PPR: it is the restored one.             *)
(***************************************************************************)
NodeRestored(a) ==
    /\ NodeFound(a)
    /\ nodeCache[a].created > pprCache[a].created

\* Faulty variant: clear the backup without asking which node was found.
ClearAnyNodeBackup(a) ==
    /\ NodeFound(a)
    /\ pprCache[a].nodeBackup # None
    /\ UpdatePpr(a, [pprCache[a] EXCEPT !.nodeBackup = None])
    /\ Again(a)

ClearNodeBackup(a) ==
    /\ NodeRestored(a)
    /\ pprCache[a].nodeBackup # None
    /\ UpdatePpr(a, [pprCache[a] EXCEPT !.nodeBackup = None])
    /\ Again(a)

\* Faulty variants: remove it for any node that is ready; remove it only from
\* a PPR that is being deleted.
RemoveFinalizerWhenReady(a) ==
    /\ NodeFound(a)
    /\ pprCache[a].nodeBackup = None
    /\ pprCache[a].finalizer
    /\ nodeCache[a].ready
    /\ UpdatePpr(a, [pprCache[a] EXCEPT !.finalizer = FALSE])
    /\ Done(a)

RemoveFinalizerWhenDeleting(a) ==
    /\ NodeRestored(a)
    /\ pprCache[a].nodeBackup = None
    /\ pprCache[a].finalizer
    /\ pprCache[a].deleting
    /\ nodeCache[a].ready
    /\ UpdatePpr(a, [pprCache[a] EXCEPT !.finalizer = FALSE])
    /\ Done(a)

\* The response of this last write may be lost: then the request is kept.
RemoveFinalizer(a) ==
    /\ NodeRestored(a)
    /\ pprCache[a].nodeBackup = None
    /\ pprCache[a].finalizer
    /\ nodeCache[a].ready
    /\ UpdatePpr(a, [pprCache[a] EXCEPT !.finalizer = FALSE])
    /\ Done(a) \/ Again(a)

RemediationDone(a) ==
    /\ NodeRestored(a)
    /\ pprCache[a].nodeBackup = None
    /\ ~pprCache[a].finalizer
    /\ Done(a)
    /\ UNCHANGED <<now, apiVars, cacheVars, rebooting>>

(***************************************************************************)
(* The node is the one that was reported unhealthy.                        *)
(***************************************************************************)
\* Faulty variant: take any node for it.
NodeReportedAny(a) == NodeFound(a)

NodeReported(a) ==
    /\ NodeFound(a)
    /\ ~(nodeCache[a].created > pprCache[a].created)

PprWithdrawn(a) ==
    /\ NodeReported(a)
    /\ ~pprCache[a].finalizer
    /\ pprCache[a].deleting
    /\ Done(a)
    /\ UNCHANGED <<now, apiVars, cacheVars, rebooting>>

AddFinalizer(a) ==
    /\ NodeReported(a)
    /\ ~pprCache[a].finalizer
    /\ ~pprCache[a].deleting
    /\ UpdatePpr(a, [pprCache[a] EXCEPT !.finalizer = TRUE])
    /\ Again(a)

MarkNodeAsUnschedulable(a) ==
    /\ NodeReported(a)
    /\ pprCache[a].finalizer
    /\ ~nodeCache[a].unschedulable
    /\ UpdateNode(a, [nodeCache[a] EXCEPT !.unschedulable = TRUE])
    /\ Again(a)

TaintExists(taints, taintToFind) == taintToFind \in taints

\* The node is known to be cordoned: marked, and the taint has appeared.
NodeCordoned(a) ==
    /\ NodeReported(a)
    /\ pprCache[a].finalizer
    /\ nodeCache[a].unschedulable
    /\ TaintExists(nodeCache[a].taints, NodeUnschedulableTaint)

StatusComplete(p) == p.nodeBackup # None /\ p.timeAssumedRebooted # 0

\* Faulty variants: store the time even if one is stored already; store the
\* backup and leave the time zero.
UpdatePprStatusAgain(a) ==
    /\ NodeCordoned(a)
    /\ UpdatePpr(a, [pprCache[a] EXCEPT !.nodeBackup = BackupOf(nodeCache[a]),
                                        !.timeAssumedRebooted = now + SafeTime])
    /\ Again(a)

UpdatePprStatusUntimed(a) ==
    /\ NodeCordoned(a)
    /\ ~StatusComplete(pprCache[a])
    /\ UpdatePpr(a, [pprCache[a] EXCEPT !.nodeBackup = BackupOf(nodeCache[a])])
    /\ Again(a)

UpdatePprStatus(a) ==
    /\ NodeCordoned(a)
    /\ ~StatusComplete(pprCache[a])
    /\ UpdatePpr(a, [pprCache[a] EXCEPT !.nodeBackup = BackupOf(nodeCache[a]),
                                        !.timeAssumedRebooted = now + SafeTime])
    /\ Again(a)

Reboot(a) ==
    /\ NodeCordoned(a)
    /\ StatusComplete(pprCache[a])
    /\ pprCache[a].timeAssumedRebooted > now
    /\ a = Sick
    /\ rebooting' = TRUE
    /\ Done(a)
    /\ UNCHANGED <<now, apiVars, cacheVars>>

\* Faulty variants: delete without waiting for the time; delete and drop the
\* request, leaving nobody to restore the node.
DeleteNodeEarly(a) ==
    /\ NodeCordoned(a)
    /\ StatusComplete(pprCache[a])
    /\ ~nodeCache[a].terminating
    /\ node' = IF node.exists /\ ~node.held THEN RemovedNode ELSE node
    /\ Again(a)
    /\ UNCHANGED <<now, ppr, machine, cacheVars, rebooting>>

DeleteNodeForGood(a) ==
    /\ NodeCordoned(a)
    /\ StatusComplete(pprCache[a])
    /\ ~(pprCache[a].timeAssumedRebooted > now)
    /\ ~nodeCache[a].terminating
    /\ node' = IF node.exists /\ ~node.held THEN RemovedNode ELSE node
    /\ Done(a)
    /\ UNCHANGED <<now, ppr, machine, cacheVars, rebooting>>

\* Delete goes by name, without preconditions: it removes whatever node has
\* that name by now, and it is content when there is none.
DeleteNode(a) ==
    /\ NodeCordoned(a)
    /\ StatusComplete(pprCache[a])
    /\ ~(pprCache[a].timeAssumedRebooted > now)
    /\ ~nodeCache[a].terminating
    /\ node' = IF ~node.exists THEN node
               ELSE IF node.held THEN [node EXCEPT !.terminating = TRUE]
               ELSE RemovedNode
    /\ Again(a)
    /\ UNCHANGED <<now, ppr, machine, cacheVars, rebooting>>

Reconcile(a) ==
    \/ Requeue(a)
    \/ PprAlreadyDeleted(a)
    \/ NothingToRestore(a)
    \/ RestoreNode(a)
    \/ RestoreAlreadyExists(a)
    \/ ClearNodeBackup(a)
    \/ RemoveFinalizer(a)
    \/ RemediationDone(a)
    \/ PprWithdrawn(a)
    \/ AddFinalizer(a)
    \/ MarkNodeAsUnschedulable(a)
    \/ UpdatePprStatus(a)
    \/ Reboot(a)
    \/ DeleteNode(a)

(***************************************************************************)
(* The informers of an agent.  Only PPR events put requests in the queue   *)
(* (SetupWithManager watches nothing else).  An informer also resends what *)
(* it has from time to time.                                               *)
(***************************************************************************)
SyncPpr(a) ==
    /\ pprBehind[a]
    /\ pprCache' = [pprCache EXCEPT ![a] = ppr]
    /\ pprBehind' = [pprBehind EXCEPT ![a] = FALSE]
    /\ queue' = [queue EXCEPT ![a] = TRUE]
    /\ UNCHANGED <<now, apiVars, nodeCache, machineCache, rebooting>>

SyncNode(a) ==
    /\ nodeCache[a] # node
    /\ nodeCache' = [nodeCache EXCEPT ![a] = node]
    /\ UNCHANGED <<now, apiVars, pprCache, pprBehind, machineCache, queue,
                   rebooting>>

SyncMachine(a) ==
    /\ machineCache[a] # machine
    /\ machineCache' = [machineCache EXCEPT ![a] = machine]
    /\ UNCHANGED <<now, apiVars, nodeCache, pprCache, pprBehind, queue,
                   rebooting>>

Resync(a) ==
    /\ pprCache[a].exists
    /\ ~queue[a]
    /\ queue' = [queue EXCEPT ![a] = TRUE]
    /\ UNCHANGED <<now, apiVars, cacheVars, rebooting>>

\* The agent's pod starts again, alone or because its host did: its caches
\* are filled by a list, which queues the PPR if there is one.
Restart(a) ==
    /\ nodeCache' = [nodeCache EXCEPT ![a] = node]
    /\ pprCache' = [pprCache EXCEPT ![a] = ppr]
    /\ pprBehind' = [pprBehind EXCEPT ![a] = FALSE]
    /\ machineCache' = [machineCache EXCEPT ![a] = machine]
    /\ queue' = [queue EXCEPT ![a] = ppr.exists]
    /\ rebooting' = (rebooting /\ a # Sick)
    /\ UNCHANGED <<now, apiVars>>

Agent(a) ==
    \/ Reconcile(a)
    \/ SyncPpr(a)
    \/ SyncNode(a)
    \/ SyncMachine(a)
    \/ Resync(a)
    \/ Restart(a)

(***************************************************************************)
(* The rest of the cluster.                                                *)
(***************************************************************************)

\* A health check operator reports the node, or takes the report back.
CreatePpr ==
    /\ ~ppr.exists
    /\ node.exists
    /\ ppr.uid < MaxPprs
    /\ \E held \in PprHolds :
         WritePpr([exists |-> TRUE, uid |-> ppr.uid + 1, created |-> now,
                   finalizer |-> FALSE, held |-> held, deleting |-> FALSE,
                   nodeBackup |-> None, timeAssumedRebooted |-> 0])
    /\ UNCHANGED queue

DeletePpr ==
    /\ ppr.exists
    /\ ~ppr.deleting
    /\ WritePpr([ppr EXCEPT !.deleting = TRUE])
    /\ UNCHANGED queue

\* Somebody else's finalizer is taken off the PPR, or off the node.
ReleasePpr ==
    /\ ppr.exists
    /\ ppr.held
    /\ WritePpr([ppr EXCEPT !.held = FALSE])
    /\ UNCHANGED queue

ReleaseNode ==
    /\ node.exists
    /\ node.terminating
    /\ node' = RemovedNode
    /\ UNCHANGED <<now, ppr, machine, cacheVars, queue, rebooting>>

\* The node lifecycle controller keeps the taint in step with the spec.
TaintNode ==
    /\ node.exists
    /\ node.unschedulable
    /\ NodeUnschedulableTaint \notin node.taints
    /\ node' = [node EXCEPT !.taints = @ \cup {NodeUnschedulableTaint}]
    /\ UNCHANGED <<now, ppr, machine, cacheVars, queue, rebooting>>

\* The kubelet reports the node's condition, and registers a missing node
\* when it starts.
ReportReady ==
    /\ node.exists
    /\ ~node.ready
    /\ node' = [node EXCEPT !.ready = TRUE]
    /\ UNCHANGED <<now, ppr, machine, cacheVars, queue, rebooting>>

ReportNotReady ==
    /\ node.exists
    /\ node.ready
    /\ node' = [node EXCEPT !.ready = FALSE]
    /\ UNCHANGED <<now, ppr, machine, cacheVars, queue, rebooting>>

RegisterNode ==
    /\ ~node.exists
    /\ node.uid < MaxNodes
    /\ node' = NewNode(node.uid + 1, {}, FALSE)
    /\ UNCHANGED <<now, ppr, machine, cacheVars, queue, rebooting>>

\* The Machine loses or gains its nodeRef, or is deleted.
MachineChanges ==
    /\ MachineOwned
    /\ machine # "gone"
    /\ machine' \in MachineState \ {machine}
    /\ UNCHANGED <<now, node, ppr, cacheVars, queue, rebooting>>

\* The clock runs while a comparison with it can still come out differently:
\* once it has reached every stored time, later times compare the same way.
TimeMatters ==
    \/ ppr.exists /\ now <= ppr.created
    \/ now < ppr.timeAssumedRebooted
    \/ \E a \in Agents : now < pprCache[a].timeAssumedRebooted

Tick ==
    /\ now < MaxTime
    /\ TimeMatters
    /\ now' = now + 1
    /\ UNCHANGED <<apiVars, cacheVars, queue, rebooting>>

Cluster ==
    \/ CreatePpr
    \/ DeletePpr
    \/ ReleasePpr
    \/ ReleaseNode
    \/ TaintNode
    \/ ReportReady
    \/ ReportNotReady
    \/ RegisterNode
    \/ MachineChanges
    \/ Tick

Next == (\E a \in Agents : Agent(a)) \/ Cluster

Spec == Init /\ [][Next]_vars

(***************************************************************************)
(* Fairness.  Informers deliver (for an agent that never acts again it     *)
(* does not matter whether they do), the agents on the healthy nodes work  *)
(* off their queues (nothing of the kind is assumed of Sick), the clock    *)
(* advances and the node lifecycle controller works.  The write that       *)
(* competes with the kubelet's reports is retried until it succeeds.       *)
(***************************************************************************)
SyncFairness(a) ==
    /\ WF_vars(SyncPpr(a))
    /\ WF_vars(SyncNode(a))
    /\ WF_vars(SyncMachine(a))

ReconcileFairness(a) ==
    /\ WF_vars(Reconcile(a))
    /\ SF_vars(MarkNodeAsUnschedulable(a))

ClusterFairness ==
    /\ WF_vars(Tick)
    /\ WF_vars(TaintNode)
    /\ WF_vars(ReleaseNode)

FairSpec ==
    /\ Spec
    /\ \A a \in Agents : SyncFairness(a)
    /\ \A a \in Agents \ {Sick} : ReconcileFairness(a)
    /\ ClusterFairness

\* The informers resync periodically (every ten hours by default).
ResyncFairness == \A a \in Agents \ {Sick} : WF_vars(Resync(a))

------------------------------------------------------------------------------

\* The objects, the caches and the queues have their types.
TypeOK ==
    /\ now \in Nat
    /\ node \in Node
    /\ ppr \in Ppr
    /\ machine \in MachineState
    /\ nodeCache \in [Agents -> Node]
    /\ pprCache \in [Agents -> Ppr]
    /\ pprBehind \in [Agents -> BOOLEAN]
    /\ machineCache \in [Agents -> MachineState]
    /\ queue \in [Agents -> BOOLEAN]
    /\ rebooting \in BOOLEAN

WithDeadline(p) ==
    p.nodeBackup # None
      => /\ p.timeAssumedRebooted >= p.created + SafeTime
         /\ NodeUnschedulableTaint \in p.nodeBackup.taints

\* A backup, in the API server and in every cache, was taken of a node that
\* had been cordoned, and comes with a time to assume the node rebooted that is
\* the safe time after its PPR was created, or later: the status is never seen
\* half written, nor with the time of an earlier PPR.
BackupComesWithDeadline ==
    WithDeadline(ppr) /\ \A a \in Agents : WithDeadline(pprCache[a])

\* The node with this name is not one created after the PPR: it is (or, if
\* it is gone, the last one was) the node that was reported.
ReportedNode == ~(node.created > ppr.created)

\* From the moment the time to assume the node rebooted is stored until a
\* newer node exists, the PPR cannot go away and holds the backup to restore
\* the node from, whatever agents with stale caches do to its status.
BackupKeptUntilRestored ==
    ppr.exists /\ ppr.timeAssumedRebooted # 0 /\ ReportedNode
        => ppr.finalizer /\ ppr.nodeBackup # None

\* A cached time to assume the node rebooted, of a PPR the present node was
\* there for, is the one in the API server: no agent can act on a deadline
\* that another agent has since moved or that belongs to an earlier PPR.
CachedDeadlineIsCurrent ==
    \A a \in Agents :
        /\ pprCache[a].timeAssumedRebooted # 0
        /\ ~(node.created > pprCache[a].created)
        => /\ ppr.exists
           /\ ppr.uid = pprCache[a].uid
           /\ ppr.created = pprCache[a].created
           /\ ppr.timeAssumedRebooted = pprCache[a].timeAssumedRebooted
           /\ ppr.finalizer
           /\ ppr.nodeBackup # None

\* A cached node is an earlier incarnation, or an earlier version of the
\* present one: nothing takes the cordon off a node while it exists.
CachedNodeLagsBehind ==
    \A a \in Agents :
        /\ nodeCache[a].uid <= node.uid
        /\ nodeCache[a].created <= node.created
        /\ nodeCache[a].uid = node.uid =>
             /\ nodeCache[a].created = node.created
             /\ node.exists /\ nodeCache[a].unschedulable => node.unschedulable
             /\ node.exists /\ NodeUnschedulableTaint \in nodeCache[a].taints
                  => NodeUnschedulableTaint \in node.taints

CachedPprLagsBehind ==
    \A a \in Agents : ~pprBehind[a] => pprCache[a] = ppr

AbsentPprIsEmpty ==
    ~ppr.exists => ~ppr.finalizer /\ ppr.timeAssumedRebooted = 0

\* The inductive invariant of the proofs.
IInv ==
    /\ TypeOK
    /\ node.created <= now /\ ppr.created <= now
    /\ BackupComesWithDeadline
    /\ AbsentPprIsEmpty
    /\ BackupKeptUntilRestored
    /\ CachedPprLagsBehind
    /\ CachedNodeLagsBehind
    /\ CachedDeadlineIsCurrent

\* An agent that deletes the very node it decided about never deletes it
\* early: the PPR in the API server (not only the agent's copy) is still the
\* one it acts for, its time to assume the node rebooted has passed, a backup
\* is stored, and the node is cordoned.
DeletionIsSafe ==
    [][\A a \in Agents :
         DeleteNode(a) /\ node.exists /\ nodeCache[a].uid = node.uid
           => /\ ppr.exists
              /\ ppr.uid = pprCache[a].uid
              /\ ppr.finalizer
              /\ ppr.nodeBackup # None
              /\ ppr.timeAssumedRebooted # 0
              /\ ppr.timeAssumedRebooted <= now
              /\ node.unschedulable
              /\ NodeUnschedulableTaint \in node.taints]_vars

\* Competing agents do not move the time to assume the node rebooted while
\* the reported node has not been replaced: it is stored once.
DeadlineStoredOnce ==
    [][ppr.exists /\ ppr.timeAssumedRebooted # 0 /\ ReportedNode
         => ppr'.timeAssumedRebooted = ppr.timeAssumedRebooted]_vars

\* The finalizer is taken off only after the reported node was replaced.
FinalizerHeldUntilRestored ==
    [][ppr.finalizer /\ ~ppr'.finalizer => ~ReportedNode]_vars

\* Once the finalizer is on, the reported node is replaced by a newer one,
\* even if the agent on the node itself does nothing.
RemediationCompletes ==
    (ppr.finalizer /\ ReportedNode) ~> ~ReportedNode

\* If a newer node is there for good and stays ready, the finalizer comes off
\* (a Machine without a nodeRef is an error the code waits out).  Without the
\* resync it may stay: RestoreAlreadyExists and NothingToRestore drop the
\* request on the word of a stale cache.
PprReleased ==
    /\ ResyncFairness
    /\ <>[](node.exists /\ node.ready /\ ~ReportedNode /\ machine # "unbound")
    => <>[]~ppr.finalizer

\* What the agents do to the PPR and to the node, seen together, is what
\* NodeRemediation promises of one remediation after another.
Promise ==
    INSTANCE NodeRemediation WITH
        reportedAt <- ppr.created,
        claimed <- ppr.finalizer,
        backedUp <- ppr.nodeBackup # None,
        deadline <- ppr.timeAssumedRebooted,
        incarnation <- node.uid,
        createdAt <- node.created,
        present <- node.exists /\ ~node.terminating,
        cordoned <- /\ node.exists /\ ~node.terminating
                    /\ node.unschedulable
                    /\ NodeUnschedulableTaint \in node.taints

\* Reconcilers that compete over lagging caches implement one remediation:
\* every write of theirs is a step of it that is due.
ImplementsNodeRemediation == Promise!Spec

\* The node that was reported first is never gone, or on its way out, without
\* a PPR that cannot go away, a backup and a deadline that has passed: as long
\* as nobody has created the node again, somebody can.
DeletedNodeIsRecoverable == Promise!Recoverable

\* A node that was created after the PPR is deleted, if at all, by an agent
\* that has not heard of it: one whose cache holds an earlier incarnation, for
\* Delete goes by name.  No agent that has seen the node deletes it.
RestoredNodeLostToStaleCache ==
    [][ppr.exists /\ node.exists /\ ~node.terminating /\ ~ReportedNode
         => \/ node'.exists /\ ~node'.terminating
            \/ \E a \in Agents : DeleteNode(a) /\ nodeCache[a].uid < node.uid]_vars

\* Nobody deletes a node that was created after the PPR: the code takes it
\* for the restored one, and takes no action but to wait for the PPR to go.
RestoredNodeIsLeftAlone ==
    [][ppr.exists /\ node.exists /\ ~node.terminating /\ ~ReportedNode
         => node'.exists /\ ~node'.terminating]_vars
==============================================================================
