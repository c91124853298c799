-------------------------- MODULE RemediationProofs --------------------------
(***************************************************************************)
(* Proofs about Remediation, for any number of agents, PPRs and            *)
(* incarnations of the node, and any safe time.                            *)
(***************************************************************************)
EXTENDS Remediation, TLAPS

\* What the API server keeps of a written PPR (Stored) is a PPR, and it is
\* the one written unless the object goes away, which a finalizer prevents.
LEMMA StoredPpr ==
  ASSUME NEW p \in Ppr
  PROVE  /\ Stored(p) \in Ppr
         /\ p.finalizer => Stored(p) = p
         /\ Stored(p).created = p.created
         /\ WithDeadline(p) => WithDeadline(Stored(p))
         /\ \/ Stored(p) = p
            \/ /\ ~p.finalizer
               /\ ~Stored(p).exists
               /\ ~Stored(p).finalizer
               /\ Stored(p).timeAssumedRebooted = 0
  BY DEF Stored, RemovedPpr, Ppr, Backup, WithDeadline

\* A write of the PPR preserves the invariant if it keeps what a stored
\* deadline protects and stores a deadline only with finalizer and backup.
LEMMA WritePprInv ==
  ASSUME IInv, NEW new \in Ppr, WritePpr(new),
         queue' \in [Agents -> BOOLEAN],
         new.exists, new.created <= now, WithDeadline(new),
         new.timeAssumedRebooted # 0 /\ ~(node.created > new.created)
           => new.finalizer /\ new.nodeBackup # None,
         ppr.exists /\ ppr.timeAssumedRebooted # 0 /\ ReportedNode
           => /\ new.uid = ppr.uid
              /\ new.created = ppr.created
              /\ new.timeAssumedRebooted = ppr.timeAssumedRebooted
              /\ new.finalizer
              /\ new.nodeBackup # None
  PROVE  IInv'
<1>1. /\ ppr' = Stored(new)
      /\ pprBehind' = [a \in Agents |-> TRUE]
      /\ UNCHANGED <<now, node, machine, nodeCache, pprCache, machineCache, rebooting>>
  BY DEF WritePpr
<1>2. TypeOK'
  BY <1>1, StoredPpr DEF IInv, TypeOK
<1>3. AbsentPprIsEmpty'
  BY <1>1, StoredPpr DEF AbsentPprIsEmpty
<1>d. BackupComesWithDeadline' /\ node'.created <= now' /\ ppr'.created <= now'
  <2>1. WithDeadline(ppr)'
    BY <1>1, StoredPpr DEF WithDeadline
  <2>2. ASSUME NEW a \in Agents PROVE WithDeadline(pprCache[a])'
    BY <1>1 DEF IInv, BackupComesWithDeadline, WithDeadline
  <2>3. QED
    BY <1>1, <2>1, <2>2, StoredPpr DEF IInv, BackupComesWithDeadline
<1>4. BackupKeptUntilRestored'
  BY <1>1, StoredPpr DEF BackupKeptUntilRestored, ReportedNode
<1>5. CachedPprLagsBehind'
  BY <1>1 DEF CachedPprLagsBehind
<1>6. CachedNodeLagsBehind'
  BY <1>1 DEF IInv, CachedNodeLagsBehind
<1>7. CachedDeadlineIsCurrent'
  BY <1>1, StoredPpr DEF IInv, CachedDeadlineIsCurrent, ReportedNode
<1>8. QED
  BY <1>1, <1>2, <1>3, <1>4, <1>5, <1>6, <1>7, <1>d DEF IInv

\* What is said of the PPR and its copies does not change while they do not.
LEMMA SamePprs ==
  ASSUME BackupComesWithDeadline, UNCHANGED <<ppr, pprCache>>
  PROVE  BackupComesWithDeadline'
  BY DEF BackupComesWithDeadline, WithDeadline

\* A write of the node preserves the invariant if it makes a new incarnation
\* or leaves the identity and the cordon of the present one.
LEMMA WriteNodeInv ==
  ASSUME IInv, node' \in Node,
         UNCHANGED <<now, ppr, machine, cacheVars, rebooting>>,
         queue' \in [Agents -> BOOLEAN],
         \/ /\ node'.uid = node.uid
            /\ node'.created = node.created
            /\ node'.exists => /\ node.exists
                               /\ node.unschedulable => node'.unschedulable
                               /\ node.taints \subseteq node'.taints
         \/ /\ node'.uid = node.uid + 1
            /\ node'.created = now
  PROVE  IInv'
<1>1. TypeOK' /\ node'.created <= now' /\ ppr'.created <= now'
  BY DEF IInv, TypeOK, cacheVars, Node
<1>2. AbsentPprIsEmpty' /\ CachedPprLagsBehind' /\ BackupComesWithDeadline'
  BY SamePprs DEF IInv, AbsentPprIsEmpty, CachedPprLagsBehind, cacheVars
<1>3. node.created <= node'.created
  BY DEF IInv, TypeOK, Node
<1>4. BackupKeptUntilRestored'
  BY <1>3 DEF IInv, TypeOK, Node, Ppr, BackupKeptUntilRestored, ReportedNode
<1>5. CachedNodeLagsBehind'
  <2>1. node.uid \in Nat /\ node'.uid \in Nat /\ now \in Nat
        /\ node.created \in Nat /\ node'.created \in Nat
        /\ \A a \in Agents : nodeCache[a].uid \in Nat /\ nodeCache[a].created \in Nat
    BY DEF IInv, TypeOK, Node
  <2>2. QED
    BY <1>3, <2>1 DEF IInv, CachedNodeLagsBehind, cacheVars
<1>6. CachedDeadlineIsCurrent'
  <2>1. node.created \in Nat /\ node'.created \in Nat
        /\ \A a \in Agents : pprCache[a].created \in Nat
    BY DEF IInv, TypeOK, Node, Ppr
  <2>2. QED
    BY <1>3, <2>1 DEF IInv, CachedDeadlineIsCurrent, cacheVars
<1>7. QED
  BY <1>1, <1>2, <1>4, <1>5, <1>6 DEF IInv

\* The initial state satisfies the invariant.
LEMMA InitInv == Init => IInv
<1> SUFFICES ASSUME Init PROVE IInv
  OBVIOUS
<1> USE DEF Init
<1>1. node \in Node /\ node.exists /\ node.uid = 1 /\ node.created = 0
  BY TaintsAssumption, HoldsAssumption DEF NewNode, Node
<1>2. /\ ppr \in Ppr /\ ~ppr.exists /\ ~ppr.finalizer /\ ppr.timeAssumedRebooted = 0
      /\ ppr.created = 0 /\ ppr.nodeBackup = None
  BY DEF Ppr
<1>3. TypeOK
  BY <1>1, <1>2 DEF TypeOK, MachineState
<1>4. AbsentPprIsEmpty /\ BackupKeptUntilRestored
  BY <1>2 DEF AbsentPprIsEmpty, BackupKeptUntilRestored
<1>5. CachedPprLagsBehind /\ CachedNodeLagsBehind
  BY <1>1 DEF CachedPprLagsBehind, CachedNodeLagsBehind
<1>6. CachedDeadlineIsCurrent /\ BackupComesWithDeadline
  BY <1>2 DEF CachedDeadlineIsCurrent, BackupComesWithDeadline, WithDeadline
<1>7. QED
  BY <1>1, <1>2, <1>3, <1>4, <1>5, <1>6 DEF IInv

\* Steps that touch only work queues, the reboot flag or the Machine.
LEMMA NoWriteInv ==
  ASSUME IInv, UNCHANGED <<now, node, ppr, nodeCache, pprCache, pprBehind>>,
         machine' \in MachineState,
         machineCache' \in [Agents -> MachineState],
         queue' \in [Agents -> BOOLEAN], rebooting' \in BOOLEAN
  PROVE  IInv'
<1>1. TypeOK'
  BY DEF IInv, TypeOK
<1>2. QED
  BY <1>1, SamePprs DEF IInv, AbsentPprIsEmpty, BackupKeptUntilRestored, ReportedNode,
              CachedPprLagsBehind, CachedNodeLagsBehind, CachedDeadlineIsCurrent

\* Every branch of Reconcile preserves the invariant.
LEMMA ReconcileInv ==
  ASSUME IInv, NEW a \in Agents, Reconcile(a)
  PROVE  IInv'
<1> USE DEF NodeRestored, NodeReported, NodeFound, NodeNotFound, NodeCordoned
<1>q. queue' \in [Agents -> BOOLEAN]
  BY DEF Reconcile, IInv, TypeOK, Requeue, PprAlreadyDeleted, NothingToRestore,
         RestoreNode, RestoreAlreadyExists, ClearNodeBackup, RemoveFinalizer,
         RemediationDone, PprWithdrawn, AddFinalizer, MarkNodeAsUnschedulable,
         UpdatePprStatus, Reboot, DeleteNode, Done, Again, vars
<1>t. /\ node \in Node /\ ppr \in Ppr /\ now \in Nat
      /\ nodeCache[a] \in Node /\ pprCache[a] \in Ppr
  BY DEF IInv, TypeOK
<1>c. nodeCache[a].created <= node.created
  BY DEF IInv, CachedNodeLagsBehind
<1>p. ~pprBehind[a] => pprCache[a] = ppr
  BY DEF IInv, CachedPprLagsBehind
<1>d. WithDeadline(ppr) /\ ppr.created <= now
  BY DEF IInv, BackupComesWithDeadline
<1>1. CASE UNCHANGED <<now, apiVars, cacheVars>> /\ rebooting' \in BOOLEAN
  BY <1>1, <1>q, NoWriteInv DEF apiVars, cacheVars, IInv, TypeOK
<1>2. ASSUME RestoreNode(a) PROVE IInv'
  <2>1. pprCache[a].nodeBackup \in Backup
    BY <1>2, <1>t DEF RestoreNode, Ppr
  <2>2. node' \in Node /\ node'.uid = node.uid + 1 /\ node'.created = now
    BY <1>2, <1>t, <2>1 DEF RestoreNode, NewNode, DeleteTaint, Node, Backup
  <2>3. UNCHANGED <<now, ppr, machine, cacheVars, rebooting>>
    BY <1>2 DEF RestoreNode
  <2>4. QED
    BY <1>q, <2>2, <2>3, WriteNodeInv
<1>3. ASSUME ClearNodeBackup(a) PROVE IInv'
  <2> DEFINE new == [pprCache[a] EXCEPT !.nodeBackup = None]
  <2>1. /\ pprCache[a] = ppr /\ WritePpr(new) /\ ppr.exists
        /\ nodeCache[a].created > ppr.created
    BY <1>3, <1>p DEF ClearNodeBackup, UpdatePpr
  <2>a. /\ new \in Ppr /\ new.exists /\ new.created = ppr.created
        /\ WithDeadline(new)
    BY <1>t, <1>d, <2>1 DEF Ppr, WithDeadline
  <2>b. ppr.created \in Nat /\ node.created \in Nat /\ nodeCache[a].created \in Nat
    BY <1>t DEF Ppr, Node
  <2> HIDE DEF new
  <2>2. node.created > new.created
    BY <1>c, <2>1, <2>a, <2>b
  <2>3. ~ReportedNode
    BY <2>2, <2>a DEF ReportedNode
  <2>4. QED
    BY <1>q, <1>d, <2>1, <2>a, <2>2, <2>3, WritePprInv
<1>4. ASSUME RemoveFinalizer(a) PROVE IInv'
  <2> DEFINE new == [pprCache[a] EXCEPT !.finalizer = FALSE]
  <2>1. /\ pprCache[a] = ppr /\ WritePpr(new) /\ ppr.exists
        /\ nodeCache[a].created > ppr.created
    BY <1>4, <1>p DEF RemoveFinalizer, UpdatePpr
  <2>a. /\ new \in Ppr /\ new.exists /\ new.created = ppr.created
        /\ WithDeadline(new)
    BY <1>t, <1>d, <2>1 DEF Ppr, WithDeadline
  <2>b. ppr.created \in Nat /\ node.created \in Nat /\ nodeCache[a].created \in Nat
    BY <1>t DEF Ppr, Node
  <2> HIDE DEF new
  <2>2. node.created > new.created
    BY <1>c, <2>1, <2>a, <2>b
  <2>3. ~ReportedNode
    BY <2>2, <2>a DEF ReportedNode
  <2>4. QED
    BY <1>q, <1>d, <2>1, <2>a, <2>2, <2>3, WritePprInv
<1>5. ASSUME AddFinalizer(a) PROVE IInv'
  <2> DEFINE new == [pprCache[a] EXCEPT !.finalizer = TRUE]
  <2>1. pprCache[a] = ppr /\ WritePpr(new) /\ ppr.exists /\ ~ppr.finalizer
    BY <1>5, <1>p DEF AddFinalizer, UpdatePpr
  <2>2. /\ new \in Ppr /\ new.exists /\ new.created = ppr.created
        /\ new.timeAssumedRebooted = ppr.timeAssumedRebooted
        /\ WithDeadline(new)
    BY <1>t, <1>d, <2>1 DEF Ppr, WithDeadline
  <2>3. ~(ppr.timeAssumedRebooted # 0 /\ ReportedNode)
    BY <2>1 DEF IInv, BackupKeptUntilRestored
  <2>4. ~(new.timeAssumedRebooted # 0 /\ ~(node.created > new.created))
    BY <2>2, <2>3 DEF ReportedNode
  <2> HIDE DEF new
  <2>5. QED
    BY <1>q, <1>d, <2>1, <2>2, <2>3, <2>4, WritePprInv
<1>6. ASSUME MarkNodeAsUnschedulable(a) PROVE IInv'
  <2>1. /\ node' = [node EXCEPT !.unschedulable = TRUE] /\ node.exists
        /\ UNCHANGED <<now, ppr, machine, cacheVars, rebooting>>
    BY <1>6 DEF MarkNodeAsUnschedulable, UpdateNode
  <2>2. /\ node' \in Node /\ node'.uid = node.uid /\ node'.created = node.created
        /\ node'.unschedulable /\ node'.taints = node.taints
    BY <1>t, <2>1 DEF Node
  <2>3. QED
    BY <1>q, <2>1, <2>2, WriteNodeInv
<1>7. ASSUME UpdatePprStatus(a) PROVE IInv'
  <2> DEFINE new == [pprCache[a] EXCEPT !.nodeBackup = BackupOf(nodeCache[a]),
                                        !.timeAssumedRebooted = now + SafeTime]
  <2>1. /\ pprCache[a] = ppr /\ WritePpr(new) /\ ppr.exists /\ ppr.finalizer
        /\ ~StatusComplete(ppr)
    BY <1>7, <1>p DEF UpdatePprStatus, UpdatePpr
  <2>2. BackupOf(nodeCache[a]) \in Backup
    BY <1>t DEF BackupOf, Backup, Node
  <2>3. None \notin Backup => BackupOf(nodeCache[a]) # None
    BY <2>2
  <2>a. now + SafeTime \in Nat
    BY <1>t, SafeTimeAssumption
  <2>b. new \in Ppr
    BY <1>t, <2>2, <2>a DEF Ppr
  <2>4. /\ new.exists /\ new.finalizer /\ new.nodeBackup = BackupOf(nodeCache[a])
        /\ new.created = ppr.created /\ new.timeAssumedRebooted = now + SafeTime
    BY <1>t, <2>1 DEF Ppr
  <2>c. NodeUnschedulableTaint \in BackupOf(nodeCache[a]).taints
    BY <1>7 DEF UpdatePprStatus, TaintExists, BackupOf
  <2>5. ~(ppr.timeAssumedRebooted # 0 /\ ReportedNode)
    BY <2>1 DEF IInv, BackupKeptUntilRestored, StatusComplete
  <2> HIDE DEF new
  <2>d. WithDeadline(new)
    <3>1. ppr.created \in Nat /\ now \in Nat /\ SafeTime \in Nat
      BY <1>t, SafeTimeAssumption DEF Ppr
    <3>2. QED
      BY <1>d, <2>4, <2>c, <3>1 DEF WithDeadline
  <2>6. QED
    BY <1>q, <1>d, <2>1, <2>3, <2>4, <2>5, <2>b, <2>d, WritePprInv, NoneAssumption
<1>8. ASSUME DeleteNode(a) PROVE IInv'
  <2>1. UNCHANGED <<now, ppr, machine, cacheVars, rebooting>>
    BY <1>8 DEF DeleteNode
  <2>2. /\ node' \in Node /\ node'.uid = node.uid /\ node'.created = node.created
        /\ node'.exists => /\ node.exists
                           /\ node'.unschedulable = node.unschedulable
                           /\ node'.taints = node.taints
    BY <1>8, <1>t DEF DeleteNode, RemovedNode, Node
  <2>3. QED
    BY <1>q, <2>1, <2>2, WriteNodeInv
<1>9. QED
  BY <1>1, <1>2, <1>3, <1>4, <1>5, <1>6, <1>7, <1>8
  DEF Reconcile, Requeue, PprAlreadyDeleted, NothingToRestore,
      RestoreAlreadyExists, RemediationDone, PprWithdrawn, Reboot, vars,
      IInv, TypeOK

\* The informers, a resync and a restart of an agent preserve the invariant:
\* they only bring caches up to the API server's objects.
LEMMA AgentInv ==
  ASSUME IInv, NEW a \in Agents, Agent(a)
  PROVE  IInv'
<1>t. /\ node \in Node /\ ppr \in Ppr /\ now \in Nat /\ machine \in MachineState
      /\ nodeCache \in [Agents -> Node] /\ pprCache \in [Agents -> Ppr]
      /\ pprBehind \in [Agents -> BOOLEAN]
      /\ machineCache \in [Agents -> MachineState]
      /\ queue \in [Agents -> BOOLEAN] /\ rebooting \in BOOLEAN
      /\ \A b \in Agents : nodeCache[b].uid \in Nat /\ nodeCache[b].created \in Nat
      /\ node.uid \in Nat /\ node.created \in Nat
  BY DEF IInv, TypeOK, Node
<1>1. CASE Reconcile(a)
  BY <1>1, ReconcileInv
<1>2. CASE SyncMachine(a) \/ Resync(a)
  BY <1>2, <1>t, NoWriteInv DEF SyncMachine, Resync, apiVars, cacheVars
<1>3. ASSUME UNCHANGED <<now, node, ppr, machine>>,
             TypeOK',
             nodeCache' \in {nodeCache, [nodeCache EXCEPT ![a] = node]},
             \/ UNCHANGED <<pprCache, pprBehind>>
             \/ /\ pprCache' = [pprCache EXCEPT ![a] = ppr]
                /\ pprBehind' = [pprBehind EXCEPT ![a] = FALSE]
      PROVE  IInv'
  <2>1. AbsentPprIsEmpty' /\ BackupKeptUntilRestored'
    BY <1>3 DEF IInv, AbsentPprIsEmpty, BackupKeptUntilRestored, ReportedNode
  <2>d. BackupComesWithDeadline'
    BY <1>3, <1>t DEF IInv, BackupComesWithDeadline, WithDeadline
  <2>2. CachedPprLagsBehind'
    BY <1>3, <1>t DEF IInv, CachedPprLagsBehind
  <2>3. CachedNodeLagsBehind'
    BY <1>3, <1>t DEF IInv, CachedNodeLagsBehind
  <2>4. CachedDeadlineIsCurrent'
    BY <1>3, <1>t DEF IInv, CachedDeadlineIsCurrent, BackupKeptUntilRestored,
                      AbsentPprIsEmpty, ReportedNode
  <2>5. QED
    BY <1>3, <2>1, <2>2, <2>3, <2>4, <2>d DEF IInv
<1>4. CASE SyncPpr(a)
  <2>1. TypeOK'
    BY <1>4, <1>t DEF SyncPpr, TypeOK, apiVars
  <2>2. QED
    BY <1>3, <1>4, <2>1 DEF SyncPpr, apiVars
<1>5. CASE SyncNode(a)
  <2>1. TypeOK'
    BY <1>5, <1>t DEF SyncNode, TypeOK, apiVars
  <2>2. QED
    BY <1>3, <1>5, <2>1 DEF SyncNode, apiVars
<1>6. CASE Restart(a)
  <2>1. queue' \in [Agents -> BOOLEAN] /\ rebooting' \in BOOLEAN
    BY <1>6, <1>t DEF Restart, Ppr
  <2>2. TypeOK'
    BY <1>6, <1>t, <2>1 DEF Restart, TypeOK, apiVars
  <2>3. QED
    BY <1>3, <1>6, <2>2 DEF Restart, apiVars
<1>7. QED
  BY <1>1, <1>2, <1>4, <1>5, <1>6 DEF Agent

\* The steps of the rest of the cluster preserve the invariant.
LEMMA ClusterInv ==
  ASSUME IInv, Cluster
  PROVE  IInv'
<1>t. /\ node \in Node /\ ppr \in Ppr /\ now \in Nat
      /\ queue \in [Agents -> BOOLEAN]
  BY DEF IInv, TypeOK
<1>d. WithDeadline(ppr) /\ ppr.created <= now
  BY DEF IInv, BackupComesWithDeadline
<1>1. ASSUME CreatePpr PROVE IInv'
  <2>1. PICK held \in PprHolds :
          WritePpr([exists |-> TRUE, uid |-> ppr.uid + 1, created |-> now,
                    finalizer |-> FALSE, held |-> held, deleting |-> FALSE,
                    nodeBackup |-> None, timeAssumedRebooted |-> 0])
    BY <1>1 DEF CreatePpr
  <2> DEFINE new == [exists |-> TRUE, uid |-> ppr.uid + 1, created |-> now,
                     finalizer |-> FALSE, held |-> held, deleting |-> FALSE,
                     nodeBackup |-> None, timeAssumedRebooted |-> 0]
  <2>2. /\ new \in Ppr /\ new.exists /\ new.timeAssumedRebooted = 0
        /\ new.created <= now /\ WithDeadline(new)
    BY <1>t, HoldsAssumption DEF Ppr, WithDeadline
  <2>3. ~ppr.exists /\ UNCHANGED queue /\ WritePpr(new)
    BY <1>1, <2>1 DEF CreatePpr
  <2> HIDE DEF new
  <2>4. QED
    BY <1>t, <2>2, <2>3, WritePprInv
<1>2. ASSUME DeletePpr PROVE IInv'
  <2> DEFINE new == [ppr EXCEPT !.deleting = TRUE]
  <2>1. ppr.exists /\ UNCHANGED queue /\ WritePpr(new)
    BY <1>2 DEF DeletePpr
  <2>2. /\ new \in Ppr /\ new.exists /\ new.created = ppr.created
        /\ new.uid = ppr.uid /\ new.finalizer = ppr.finalizer
        /\ new.nodeBackup = ppr.nodeBackup
        /\ new.timeAssumedRebooted = ppr.timeAssumedRebooted
        /\ WithDeadline(new)
    BY <1>t, <1>d, <2>1 DEF Ppr, WithDeadline
  <2> HIDE DEF new
  <2>3. QED
    BY <1>t, <1>d, <2>1, <2>2, WritePprInv DEF IInv, BackupKeptUntilRestored, ReportedNode
<1>3. ASSUME ReleasePpr PROVE IInv'
  <2> DEFINE new == [ppr EXCEPT !.held = FALSE]
  <2>1. ppr.exists /\ UNCHANGED queue /\ WritePpr(new)
    BY <1>3 DEF ReleasePpr
  <2>2. /\ new \in Ppr /\ new.exists /\ new.created = ppr.created
        /\ new.uid = ppr.uid /\ new.finalizer = ppr.finalizer
        /\ new.nodeBackup = ppr.nodeBackup
        /\ new.timeAssumedRebooted = ppr.timeAssumedRebooted
        /\ WithDeadline(new)
    BY <1>t, <1>d, <2>1 DEF Ppr, WithDeadline
  <2> HIDE DEF new
  <2>3. QED
    BY <1>t, <1>d, <2>1, <2>2, WritePprInv DEF IInv, BackupKeptUntilRestored, ReportedNode
<1>4. ASSUME ReleaseNode \/ TaintNode \/ ReportReady \/ ReportNotReady PROVE IInv'
  <2>1. /\ UNCHANGED <<now, ppr, machine, cacheVars, rebooting>>
        /\ UNCHANGED queue
    BY <1>4 DEF ReleaseNode, TaintNode, ReportReady, ReportNotReady
  <2>2. /\ node' \in Node /\ node'.uid = node.uid /\ node'.created = node.created
        /\ node'.exists => /\ node.exists
                           /\ node'.unschedulable = node.unschedulable
                           /\ node.taints \subseteq node'.taints
    <3>1. CASE ReleaseNode
      BY <1>t, <3>1 DEF ReleaseNode, RemovedNode, Node
    <3>2. CASE TaintNode
      BY <1>t, <3>2, TaintsAssumption DEF TaintNode, Node
    <3>3. CASE ReportReady
      BY <1>t, <3>3 DEF ReportReady, Node
    <3>4. CASE ReportNotReady
      BY <1>t, <3>4 DEF ReportNotReady, Node
    <3>5. QED
      BY <1>4, <3>1, <3>2, <3>3, <3>4
  <2>3. QED
    BY <1>t, <2>1, <2>2, WriteNodeInv
<1>5. ASSUME RegisterNode PROVE IInv'
  <2>1. /\ UNCHANGED <<now, ppr, machine, cacheVars, rebooting>>
        /\ UNCHANGED queue
    BY <1>5 DEF RegisterNode
  <2>2. node' \in Node /\ node'.uid = node.uid + 1 /\ node'.created = now
    BY <1>t, <1>5 DEF RegisterNode, NewNode, Node
  <2>3. QED
    BY <1>t, <2>1, <2>2, WriteNodeInv
<1>6. ASSUME MachineChanges PROVE IInv'
  BY <1>6, NoWriteInv DEF MachineChanges, cacheVars, IInv, TypeOK
<1>7. ASSUME Tick PROVE IInv'
  <2>1. now' = now + 1 /\ UNCHANGED <<apiVars, cacheVars, queue, rebooting>>
    BY <1>7 DEF Tick
  <2>2. TypeOK' /\ node'.created <= now' /\ ppr'.created <= now'
    BY <2>1 DEF IInv, TypeOK, Node, Ppr, apiVars, cacheVars
  <2>3. QED
    BY <2>1, <2>2, SamePprs DEF IInv, apiVars, cacheVars, AbsentPprIsEmpty,
          BackupKeptUntilRestored, ReportedNode, CachedPprLagsBehind,
          CachedNodeLagsBehind, CachedDeadlineIsCurrent
<1>8. QED
  BY <1>1, <1>2, <1>3, <1>4, <1>5, <1>6, <1>7 DEF Cluster

\* Every step, of an agent or of the cluster, preserves the invariant.
LEMMA NextInv == IInv /\ [Next]_vars => IInv'
<1> SUFFICES ASSUME IInv, [Next]_vars PROVE IInv'
  OBVIOUS
<1>1. CASE \E a \in Agents : Agent(a)
  BY <1>1, AgentInv
<1>2. CASE Cluster
  BY <1>2, ClusterInv
<1>3. CASE UNCHANGED vars
  BY <1>3, NoWriteInv DEF vars, apiVars, cacheVars, IInv, TypeOK
<1>4. QED
  BY <1>1, <1>2, <1>3 DEF Next

\* IInv is an invariant of the specification.
THEOREM Invariance == Spec => []IInv
  BY InitInv, NextInv, PTL DEF Spec

\* Type correctness of the reconciler's state.
THEOREM TypeCorrect == Spec => []TypeOK
<1>1. IInv => TypeOK
  BY DEF IInv
<1>2. QED
  BY <1>1, Invariance, PTL

\* A backup comes with a deadline a safe time after its PPR was created, and
\* shows the cordon, in the API server and in every cache (updatePprStatus).
THEOREM BackupWithDeadline == Spec => []BackupComesWithDeadline
<1>1. IInv => BackupComesWithDeadline
  BY DEF IInv
<1>2. QED
  BY <1>1, Invariance, PTL

\* Once the time to assume the node rebooted is stored, the PPR stays, with
\* its finalizer and the node backup, until a newer node exists.
THEOREM BackupKept == Spec => []BackupKeptUntilRestored
<1>1. IInv => BackupKeptUntilRestored
  BY DEF IInv
<1>2. QED
  BY <1>1, Invariance, PTL

\* A stale cache never shows a deadline that is not the stored one, as far
\* as the present node is concerned.
THEOREM DeadlineCurrent == Spec => []CachedDeadlineIsCurrent
<1>1. IInv => CachedDeadlineIsCurrent
  BY DEF IInv
<1>2. QED
  BY <1>1, Invariance, PTL

\* What DeletionIsSafe says of one agent.
SafeDelete(a) ==
    /\ ppr.exists
    /\ ppr.uid = pprCache[a].uid
    /\ ppr.finalizer
    /\ ppr.nodeBackup # None
    /\ ppr.timeAssumedRebooted # 0
    /\ ppr.timeAssumedRebooted <= now
    /\ node.unschedulable
    /\ NodeUnschedulableTaint \in node.taints

\* An agent that deletes the node it decided about finds, in the API server
\* and not only in its caches, what allows it to.
LEMMA SafeStep ==
  ASSUME IInv, NEW a \in Agents, DeleteNode(a), node.exists,
         nodeCache[a].uid = node.uid
  PROVE  SafeDelete(a)
<1>1. /\ ~(nodeCache[a].created > pprCache[a].created)
      /\ pprCache[a].timeAssumedRebooted # 0
      /\ ~(pprCache[a].timeAssumedRebooted > now)
      /\ nodeCache[a].unschedulable
      /\ NodeUnschedulableTaint \in nodeCache[a].taints
  BY DEF DeleteNode, NodeCordoned, NodeReported, StatusComplete, TaintExists
<1>2. /\ nodeCache[a].created = node.created
      /\ node.unschedulable
      /\ NodeUnschedulableTaint \in node.taints
  BY <1>1 DEF IInv, CachedNodeLagsBehind
<1>3. /\ ppr.exists /\ ppr.uid = pprCache[a].uid /\ ppr.finalizer
      /\ ppr.nodeBackup # None
      /\ ppr.timeAssumedRebooted = pprCache[a].timeAssumedRebooted
  BY <1>1, <1>2 DEF IInv, CachedDeadlineIsCurrent
<1>4. now \in Nat /\ ppr.timeAssumedRebooted \in Nat
  BY DEF IInv, TypeOK, Ppr
<1>5. QED
  BY <1>1, <1>2, <1>3, <1>4 DEF SafeDelete

\* An agent that deletes the node it decided about deletes it no earlier
\* than the stored time to assume it rebooted, cordoned and backed up.
THEOREM SafeDeletion == Spec => DeletionIsSafe
<1>1. IInv => [\A a \in Agents :
                 DeleteNode(a) /\ node.exists /\ nodeCache[a].uid = node.uid
                   => SafeDelete(a)]_vars
  BY SafeStep
<1>2. QED
  BY <1>1, Invariance, PTL DEF DeletionIsSafe, SafeDelete

\* The steps that write the PPR.
LEMMA PprWriters ==
  ASSUME [Next]_vars
  PROVE  \/ UNCHANGED ppr
         \/ CreatePpr \/ DeletePpr \/ ReleasePpr
         \/ \E a \in Agents : \/ ClearNodeBackup(a) \/ RemoveFinalizer(a)
                              \/ AddFinalizer(a) \/ UpdatePprStatus(a)
<1>1. ASSUME NEW a \in Agents, Agent(a)
      PROVE  \/ UNCHANGED ppr
             \/ ClearNodeBackup(a) \/ RemoveFinalizer(a)
             \/ AddFinalizer(a) \/ UpdatePprStatus(a)
  BY <1>1 DEF Agent, Reconcile, Requeue, PprAlreadyDeleted, NothingToRestore,
       RestoreNode, RestoreAlreadyExists, RemediationDone, PprWithdrawn,
       MarkNodeAsUnschedulable, UpdateNode, Reboot, DeleteNode, SyncPpr,
       SyncNode, SyncMachine, Resync, Restart, vars, apiVars
<1>2. ASSUME Cluster
      PROVE  UNCHANGED ppr \/ CreatePpr \/ DeletePpr \/ ReleasePpr
  BY <1>2 DEF Cluster, ReleaseNode, TaintNode, ReportReady, ReportNotReady,
       RegisterNode, MachineChanges, Tick, apiVars
<1>3. QED
  BY <1>1, <1>2 DEF Next, vars, apiVars

\* While the reported node has not been replaced, a step keeps a finalizer
\* that is on the PPR, and a stored deadline as it is.
LEMMA PprStep ==
  ASSUME IInv, [Next]_vars, ReportedNode
  PROVE  /\ ppr.finalizer => ppr'.finalizer
         /\ ppr.exists /\ ppr.timeAssumedRebooted # 0
              => ppr'.timeAssumedRebooted = ppr.timeAssumedRebooted
<1>t. node \in Node /\ ppr \in Ppr
  BY DEF IInv, TypeOK
<1>k. ppr.exists /\ ppr.timeAssumedRebooted # 0
        => ppr.finalizer /\ ppr.nodeBackup # None
  BY DEF IInv, BackupKeptUntilRestored
<1>1. CASE UNCHANGED ppr
  BY <1>1
<1>2. CASE CreatePpr
  BY <1>2 DEF CreatePpr, IInv, AbsentPprIsEmpty
<1>3. CASE DeletePpr
  <2>1. ppr' = Stored([ppr EXCEPT !.deleting = TRUE])
    BY <1>3 DEF DeletePpr, WritePpr
  <2>2. QED
    BY <1>t, <1>k, <2>1 DEF Stored, Ppr
<1>4. CASE ReleasePpr
  <2>1. ppr' = Stored([ppr EXCEPT !.held = FALSE])
    BY <1>4 DEF ReleasePpr, WritePpr
  <2>2. QED
    BY <1>t, <1>k, <2>1 DEF Stored, Ppr
<1>5. ASSUME NEW a \in Agents, AddFinalizer(a) \/ UpdatePprStatus(a)
      PROVE  /\ ppr.finalizer => ppr'.finalizer
             /\ ppr.exists /\ ppr.timeAssumedRebooted # 0
                  => ppr'.timeAssumedRebooted = ppr.timeAssumedRebooted
  <2>1. pprCache[a] = ppr
    BY <1>5 DEF AddFinalizer, UpdatePprStatus, UpdatePpr, IInv, CachedPprLagsBehind
  <2>2. CASE AddFinalizer(a)
    <3>1. ~ppr.finalizer
      BY <2>1, <2>2 DEF AddFinalizer
    <3>2. QED
      BY <1>k, <3>1
  <2>3. CASE UpdatePprStatus(a)
    <3>1. /\ ~StatusComplete(ppr) /\ ppr.finalizer
          /\ ppr' = Stored([ppr EXCEPT !.nodeBackup = BackupOf(nodeCache[a]),
                                       !.timeAssumedRebooted = now + SafeTime])
      BY <2>1, <2>3 DEF UpdatePprStatus, UpdatePpr, WritePpr, NodeCordoned
    <3>2. ppr'.finalizer
      BY <1>t, <3>1 DEF Stored, Ppr
    <3>3. QED
      BY <1>k, <3>1, <3>2, <2>3 DEF StatusComplete, UpdatePprStatus, NodeCordoned,
                                     NodeReported, NodeFound
  <2>4. QED
    BY <1>5, <2>2, <2>3
<1>6. ASSUME NEW a \in Agents, ClearNodeBackup(a) \/ RemoveFinalizer(a)
      PROVE  FALSE
  <2>1. pprCache[a] = ppr /\ nodeCache[a].created > ppr.created
    BY <1>6 DEF ClearNodeBackup, RemoveFinalizer, NodeRestored, UpdatePpr,
                IInv, CachedPprLagsBehind
  <2>2. nodeCache[a].created <= node.created /\ nodeCache[a].created \in Nat
    BY DEF IInv, CachedNodeLagsBehind, TypeOK, Node
  <2>3. ppr.created \in Nat /\ node.created \in Nat
    BY <1>t DEF Ppr, Node
  <2>4. QED
    BY <2>1, <2>2, <2>3 DEF ReportedNode
<1>7. QED
  BY <1>1, <1>2, <1>3, <1>4, <1>5, <1>6, PprWriters

\* The time to assume the node rebooted is stored once per reported node.
THEOREM StoredOnce == Spec => DeadlineStoredOnce
<1>1. IInv /\ [Next]_vars
        => [ppr.exists /\ ppr.timeAssumedRebooted # 0 /\ ReportedNode
              => ppr'.timeAssumedRebooted = ppr.timeAssumedRebooted]_vars
  BY PprStep
<1>2. QED
  BY <1>1, Invariance, PTL DEF Spec, DeadlineStoredOnce

\* The finalizer comes off only after the reported node was replaced.
THEOREM FinalizerHeld == Spec => FinalizerHeldUntilRestored
<1>1. IInv /\ [Next]_vars
        => [ppr.finalizer /\ ~ppr'.finalizer => ~ReportedNode]_vars
  BY PprStep
<1>2. QED
  BY <1>1, Invariance, PTL DEF Spec, FinalizerHeldUntilRestored

\* A node that stops being there, or starts to go, is deleted by an agent.
LEMMA NodeLosers ==
  ASSUME IInv, [Next]_vars, node.exists, ~node.terminating,
         ~(node'.exists /\ ~node'.terminating)
  PROVE  \E a \in Agents : DeleteNode(a)
<1>t. node \in Node
  BY DEF IInv, TypeOK
<1>1. ASSUME NEW a \in Agents, Agent(a)
      PROVE  DeleteNode(a)
  <2>1. UNCHANGED node \/ MarkNodeAsUnschedulable(a) \/ RestoreNode(a) \/ DeleteNode(a)
    BY <1>1 DEF Agent, Reconcile, Requeue, PprAlreadyDeleted, NothingToRestore,
         RestoreAlreadyExists, ClearNodeBackup, RemoveFinalizer, RemediationDone,
         PprWithdrawn, AddFinalizer, UpdatePprStatus, UpdatePpr, WritePpr, Reboot,
         SyncPpr, SyncNode, SyncMachine, Resync, Restart, vars, apiVars
  <2>2. CASE MarkNodeAsUnschedulable(a)
    <3>1. node' = [node EXCEPT !.unschedulable = TRUE]
      BY <2>2 DEF MarkNodeAsUnschedulable, UpdateNode
    <3>2. QED
      BY <1>t, <3>1 DEF Node
  <2>3. ~RestoreNode(a)
    BY DEF RestoreNode
  <2>4. QED
    BY <2>1, <2>2, <2>3
<1>2. ~Cluster
  <2>1. ASSUME TaintNode \/ ReportReady \/ ReportNotReady
        PROVE  FALSE
    BY <1>t, <2>1 DEF TaintNode, ReportReady, ReportNotReady, Node
  <2>2. QED
    BY <2>1 DEF Cluster, CreatePpr, DeletePpr, ReleasePpr, WritePpr, ReleaseNode,
         RegisterNode, MachineChanges, Tick, apiVars
<1>3. QED
  BY <1>1, <1>2 DEF Next, vars, apiVars

\* A restored node is lost only to an agent that has not heard of it: for one
\* that has, the deadline in its cache is that of the present PPR, which the
\* node is newer than.
THEOREM OnlyStaleCachesDelete == Spec => RestoredNodeLostToStaleCache
<1>1. ASSUME IInv, [Next]_vars, ppr.exists, node.exists, ~node.terminating,
             ~ReportedNode, ~(node'.exists /\ ~node'.terminating)
      PROVE  \E a \in Agents : DeleteNode(a) /\ nodeCache[a].uid < node.uid
  <2>1. PICK a \in Agents : DeleteNode(a)
    BY <1>1, NodeLosers
  <2>2. /\ ~(nodeCache[a].created > pprCache[a].created)
        /\ pprCache[a].timeAssumedRebooted # 0
    BY <2>1 DEF DeleteNode, NodeCordoned, NodeReported, StatusComplete
  <2>3. /\ nodeCache[a].uid <= node.uid
        /\ nodeCache[a].uid = node.uid => nodeCache[a].created = node.created
    BY <1>1 DEF IInv, CachedNodeLagsBehind
  <2>4. node.created = nodeCache[a].created => ReportedNode
    BY <1>1, <2>2 DEF IInv, CachedDeadlineIsCurrent, ReportedNode
  <2>5. node.uid \in Nat /\ nodeCache[a].uid \in Nat
    BY <1>1 DEF IInv, TypeOK, Node
  <2>6. QED
    BY <1>1, <2>1, <2>3, <2>4, <2>5
<1>2. IInv /\ [Next]_vars
        => [ppr.exists /\ node.exists /\ ~node.terminating /\ ~ReportedNode
              => \/ node'.exists /\ ~node'.terminating
                 \/ \E a \in Agents : DeleteNode(a) /\ nodeCache[a].uid < node.uid]_vars
  BY <1>1
<1>3. QED
  BY <1>2, Invariance, PTL DEF Spec, RestoredNodeLostToStaleCache
==============================================================================
