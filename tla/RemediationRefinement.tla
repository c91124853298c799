------------------------ MODULE RemediationRefinement ------------------------
(***************************************************************************)
(* The reconcilers implement NodeRemediation, for any number of agents,    *)
(* PPRs and incarnations of the node, and any safe time.                   *)
(***************************************************************************)
EXTENDS RemediationProofs

Present(n) == n.exists /\ ~n.terminating

Cordoned(n) ==
    Present(n) /\ n.unschedulable /\ NodeUnschedulableTaint \in n.taints

\* A step that changes neither the clock, nor what a remediation is of the
\* PPR, nor the identity, presence and cordon of the node, is a stutter.
LEMMA Stutter ==
  ASSUME UNCHANGED <<now, ppr>>,
         node'.uid = node.uid, node'.created = node.created,
         Present(node') = Present(node), Cordoned(node') = Cordoned(node)
  PROVE  UNCHANGED Promise!vars
BY DEF Promise!vars, Promise!report, Promise!node, Present, Cordoned

\* Creating the PPR reports the node anew; deleting it, and taking a foreign
\* finalizer off it, change nothing as long as it is claimed.
LEMMA ReportSteps ==
  ASSUME IInv, CreatePpr \/ DeletePpr \/ ReleasePpr
  PROVE  Promise!Next \/ UNCHANGED Promise!vars
<1>t. ppr \in Ppr /\ UNCHANGED <<now, node>>
  BY DEF IInv, TypeOK, CreatePpr, DeletePpr, ReleasePpr, WritePpr
<1>1. CASE CreatePpr
  <2>1. PICK held \in PprHolds :
          ppr' = Stored([exists |-> TRUE, uid |-> ppr.uid + 1, created |-> now,
                   finalizer |-> FALSE, held |-> held, deleting |-> FALSE,
                   nodeBackup |-> None, timeAssumedRebooted |-> 0])
    BY <1>1 DEF CreatePpr, WritePpr
  <2>2. /\ ppr'.created = now /\ ~ppr'.finalizer
        /\ ppr'.nodeBackup = None /\ ppr'.timeAssumedRebooted = 0
    BY <2>1 DEF Stored
  <2>3. ~ppr.finalizer
    BY <1>1 DEF CreatePpr, IInv, AbsentPprIsEmpty
  <2>4. Promise!Report
    BY <1>t, <2>2, <2>3 DEF Promise!Report, Promise!node
  <2>5. QED
    BY <2>4 DEF Promise!Next
<1>2. CASE DeletePpr \/ ReleasePpr
  <2>1. PICK p \in Ppr : /\ ppr' = Stored(p)
                         /\ p.created = ppr.created
                         /\ p.finalizer = ppr.finalizer
                         /\ p.nodeBackup = ppr.nodeBackup
                         /\ p.timeAssumedRebooted = ppr.timeAssumedRebooted
    <3>1. CASE DeletePpr
      <4>1. [ppr EXCEPT !.deleting = TRUE] \in Ppr
        BY <1>t DEF Ppr
      <4>2. ppr' = Stored([ppr EXCEPT !.deleting = TRUE])
        BY <3>1 DEF DeletePpr, WritePpr
      <4>3. QED
        BY <1>t, <4>1, <4>2 DEF Ppr
    <3>2. CASE ReleasePpr
      <4>1. [ppr EXCEPT !.held = FALSE] \in Ppr
        BY <1>t DEF Ppr
      <4>2. ppr' = Stored([ppr EXCEPT !.held = FALSE])
        BY <3>2 DEF ReleasePpr, WritePpr
      <4>3. QED
        BY <1>t, <4>1, <4>2 DEF Ppr
    <3>3. QED
      BY <1>2, <3>1, <3>2
  <2>2. CASE ppr' = p
    BY <1>t, <2>1, <2>2 DEF Promise!vars, Promise!report, Promise!node
  <2>3. CASE ppr' = RemovedPpr(p) /\ ~p.finalizer
    <3>1. Promise!Release
      BY <1>t, <2>1, <2>3 DEF RemovedPpr, Promise!Release, Promise!node
    <3>2. QED
      BY <3>1 DEF Promise!Next
  <2>4. QED
    BY <2>1, <2>2, <2>3 DEF Stored
<1>3. QED
  BY <1>1, <1>2

\* An agent that updates the PPR claims it, sets its deadline, drops a backup
\* or lets go of it, when that is due: the resourceVersion makes sure that
\* it has read the PPR as it is, and a cached node is never a later one.
LEMMA UpdateSteps ==
  ASSUME IInv, NEW a \in Agents,
         \/ ClearNodeBackup(a) \/ RemoveFinalizer(a)
         \/ AddFinalizer(a) \/ UpdatePprStatus(a)
  PROVE  Promise!Next
<1>t. /\ ppr \in Ppr /\ node \in Node /\ nodeCache[a] \in Node /\ now \in Nat
      /\ UNCHANGED <<now, node>>
  BY DEF IInv, TypeOK, ClearNodeBackup, RemoveFinalizer, AddFinalizer,
         UpdatePprStatus, UpdatePpr, WritePpr
<1>p. pprCache[a] = ppr
  BY DEF ClearNodeBackup, RemoveFinalizer, AddFinalizer, UpdatePprStatus,
         UpdatePpr, IInv, CachedPprLagsBehind
<1>c. /\ nodeCache[a].uid <= node.uid
      /\ nodeCache[a].created <= node.created
      /\ nodeCache[a].uid = node.uid =>
           /\ node.exists /\ nodeCache[a].unschedulable => node.unschedulable
           /\ node.exists /\ NodeUnschedulableTaint \in nodeCache[a].taints
                => NodeUnschedulableTaint \in node.taints
  BY DEF IInv, CachedNodeLagsBehind
<1>n. /\ node.created \in Nat /\ nodeCache[a].created \in Nat
      /\ node.uid \in Nat /\ nodeCache[a].uid \in Nat \ {0}
      /\ ppr.created \in Nat
  BY <1>t DEF Node, Ppr
<1>r. NodeRestored(a) => Promise!Replaced
  BY <1>p, <1>c, <1>n DEF NodeRestored, Promise!Replaced
<1>1. CASE ClearNodeBackup(a)
  <2>1. ppr' = Stored([ppr EXCEPT !.nodeBackup = None])
    BY <1>1, <1>p DEF ClearNodeBackup, UpdatePpr, WritePpr
  <2>2. /\ ppr'.created = ppr.created
        /\ ppr'.nodeBackup = None
        /\ \/ /\ ppr'.finalizer = ppr.finalizer
              /\ ppr'.timeAssumedRebooted = ppr.timeAssumedRebooted
           \/ ~ppr'.finalizer /\ ppr'.timeAssumedRebooted = 0
    BY <1>t, <2>1 DEF Stored, RemovedPpr, Ppr
  <2>3. Promise!DropBackup \/ Promise!Release
    BY <1>1, <1>t, <1>r, <2>2
       DEF ClearNodeBackup, Promise!DropBackup, Promise!Release, Promise!node
  <2>4. QED
    BY <2>3 DEF Promise!Next
<1>2. CASE RemoveFinalizer(a)
  <2>1. ppr' = Stored([ppr EXCEPT !.finalizer = FALSE])
    BY <1>2, <1>p DEF RemoveFinalizer, UpdatePpr, WritePpr
  <2>2. /\ ppr'.created = ppr.created
        /\ ~ppr'.finalizer
        /\ \/ /\ ppr'.nodeBackup = ppr.nodeBackup
              /\ ppr'.timeAssumedRebooted = ppr.timeAssumedRebooted
           \/ ppr'.nodeBackup = None /\ ppr'.timeAssumedRebooted = 0
    BY <1>t, <2>1 DEF Stored, RemovedPpr, Ppr
  <2>3. Promise!Release
    BY <1>2, <1>t, <1>r, <2>2 DEF RemoveFinalizer, Promise!Release, Promise!node
  <2>4. QED
    BY <2>3 DEF Promise!Next
<1>3. CASE AddFinalizer(a)
  <2>1. ppr' = Stored([ppr EXCEPT !.finalizer = TRUE]) /\ ~ppr.finalizer
    BY <1>3, <1>p DEF AddFinalizer, UpdatePpr, WritePpr
  <2>2. /\ ppr'.created = ppr.created
        /\ ppr'.finalizer
        /\ ppr'.nodeBackup = ppr.nodeBackup
        /\ ppr'.timeAssumedRebooted = ppr.timeAssumedRebooted
    BY <1>t, <2>1 DEF Stored, Ppr
  <2>3. Promise!Claim
    BY <1>t, <2>1, <2>2 DEF Promise!Claim, Promise!node
  <2>4. QED
    BY <2>3 DEF Promise!Next
<1>4. CASE UpdatePprStatus(a)
  <2> DEFINE new == [ppr EXCEPT !.nodeBackup = BackupOf(nodeCache[a]),
                                !.timeAssumedRebooted = now + SafeTime]
  <2>1. /\ ppr' = Stored(new)
        /\ ppr.finalizer
        /\ ~(ppr.nodeBackup # None /\ ppr.timeAssumedRebooted # 0)
        /\ nodeCache[a].exists /\ nodeCache[a].unschedulable
        /\ NodeUnschedulableTaint \in nodeCache[a].taints
    BY <1>4, <1>p DEF UpdatePprStatus, NodeCordoned, NodeReported, NodeFound,
                      StatusComplete, TaintExists, UpdatePpr, WritePpr
  <2>2. BackupOf(nodeCache[a]) # None
    BY <1>t, NoneAssumption DEF BackupOf, Backup, Node
  <2>3. /\ new.created = ppr.created /\ new.finalizer
        /\ new.nodeBackup = BackupOf(nodeCache[a])
        /\ new.timeAssumedRebooted = now + SafeTime
    BY <1>t, <2>1 DEF Ppr
  <2>4. ppr' = new
    BY <2>1, <2>3 DEF Stored
  <2>5. ppr.exists
    BY <1>p, <1>4 DEF UpdatePprStatus, NodeCordoned, NodeReported, NodeFound
  <2>6. ppr.timeAssumedRebooted = 0 \/ Promise!Replaced
    BY <2>1, <2>5 DEF IInv, BackupKeptUntilRestored, ReportedNode, Promise!Replaced
  <2>7. node.exists /\ ~node.terminating =>
          \/ node.unschedulable /\ NodeUnschedulableTaint \in node.taints
          \/ Promise!Successor
    BY <2>1, <1>c, <1>n DEF Promise!Successor
  <2>8. Promise!SetDeadline
    <3> HIDE DEF new
    <3>1. QED
      BY <1>t, <2>1, <2>2, <2>3, <2>4, <2>6, <2>7
         DEF Promise!SetDeadline, Promise!node
  <2>9. QED
    BY <2>8 DEF Promise!Next
<1>5. QED
  BY <1>1, <1>2, <1>3, <1>4

\* A node that is created with a name nobody else has restores it.
LEMMA RestoreSteps ==
  ASSUME IInv, RegisterNode \/ \E a \in Agents : RestoreNode(a)
  PROVE  Promise!Next
<1>1. \E taints, held : node' = NewNode(node.uid + 1, taints, held)
  BY DEF RegisterNode, RestoreNode
<1>2. ~node.exists /\ UNCHANGED <<now, ppr>>
  BY DEF RegisterNode, RestoreNode
<1>3. /\ node'.uid = node.uid + 1 /\ node'.created = now
      /\ node'.exists /\ ~node'.terminating /\ ~node'.unschedulable
  BY <1>1 DEF NewNode
<1>4. Promise!Restore
  BY <1>2, <1>3 DEF Promise!Restore, Promise!report
<1>5. QED
  BY <1>4 DEF Promise!Next

\* The kubelet and the node lifecycle controller cordon a node or leave the
\* remediation alone, and so does the end of a node already asked to go.
LEMMA NodeSteps ==
  ASSUME IInv, \/ ReleaseNode \/ TaintNode \/ ReportReady \/ ReportNotReady
               \/ \E a \in Agents : MarkNodeAsUnschedulable(a)
  PROVE  Promise!Next \/ UNCHANGED Promise!vars
<1>t. node \in Node /\ UNCHANGED <<now, ppr>>
  BY DEF IInv, TypeOK, ReleaseNode, TaintNode, ReportReady, ReportNotReady,
         MarkNodeAsUnschedulable, UpdateNode
<1>1. CASE ReleaseNode
  <2>1. node.terminating /\ node' = RemovedNode
    BY <1>1 DEF ReleaseNode
  <2>2. QED
    BY <1>t, <2>1, Stutter DEF RemovedNode, Present, Cordoned
<1>2. CASE \/ TaintNode \/ ReportReady \/ ReportNotReady
           \/ \E a \in Agents : MarkNodeAsUnschedulable(a)
  <2>1. /\ node'.uid = node.uid /\ node'.created = node.created
        /\ node'.exists = node.exists /\ node'.terminating = node.terminating
        /\ Cordoned(node) => Cordoned(node')
    <3>1. CASE TaintNode
      BY <3>1, <1>t DEF TaintNode, Node, Cordoned, Present
    <3>2. CASE ReportReady \/ ReportNotReady
      BY <3>2, <1>t DEF ReportReady, ReportNotReady, Node, Cordoned, Present
    <3>3. ASSUME NEW a \in Agents, MarkNodeAsUnschedulable(a)
          PROVE  <2>1
      <4>1. node' = [node EXCEPT !.unschedulable = TRUE]
        BY <3>3 DEF MarkNodeAsUnschedulable, UpdateNode
      <4>2. QED
        BY <4>1, <1>t DEF Node, Cordoned, Present
    <3>4. QED
      BY <1>2, <3>1, <3>2, <3>3
  <2>2. CASE Cordoned(node') = Cordoned(node)
    BY <1>t, <2>1, <2>2, Stutter DEF Present
  <2>3. CASE Cordoned(node') # Cordoned(node)
    <3>1. Cordoned(node') /\ Present(node)
      BY <2>1, <2>3 DEF Cordoned, Present
    <3>2. Promise!Cordon
      BY <1>t, <2>1, <3>1 DEF Promise!Cordon, Promise!report, Cordoned, Present
    <3>3. QED
      BY <3>2 DEF Promise!Next
  <2>4. QED
    BY <2>2, <2>3
<1>3. QED
  BY <1>1, <1>2

\* An agent deletes the node in turn, or a node that took the place of the
\* one it decided about.
LEMMA DeleteSteps ==
  ASSUME IInv, NEW a \in Agents, DeleteNode(a)
  PROVE  Promise!Next \/ UNCHANGED Promise!vars
<1>t. /\ node \in Node /\ nodeCache[a] \in Node /\ ppr \in Ppr /\ now \in Nat
      /\ UNCHANGED <<now, ppr>>
  BY DEF IInv, TypeOK, DeleteNode
<1>n. /\ node.uid \in Nat /\ nodeCache[a].uid \in Nat \ {0}
      /\ ppr.timeAssumedRebooted \in Nat
      /\ nodeCache[a].uid <= node.uid
  BY <1>t DEF Node, Ppr, IInv, CachedNodeLagsBehind
<1>1. CASE ~Present(node)
  <2>1. /\ node'.uid = node.uid /\ node'.created = node.created
        /\ ~Present(node')
    BY <1>1, <1>t DEF DeleteNode, RemovedNode, Node, Present
  <2>2. QED
    <3>1. Present(node') = Present(node) /\ Cordoned(node') = Cordoned(node)
      BY <1>1, <2>1 DEF Present, Cordoned
    <3>2. QED
      BY <1>t, <2>1, <3>1, Stutter
<1>2. CASE Present(node)
  <2>1. /\ node'.uid = node.uid /\ node'.created = node.created
        /\ ~Present(node')
    BY <1>2, <1>t DEF DeleteNode, RemovedNode, Node, Present
  <2>2. Promise!Gone
    BY <1>2, <1>t, <2>1 DEF Promise!Gone, Promise!report, Present
  <2>3. CASE nodeCache[a].uid = node.uid
    <3>1. /\ ppr.finalizer /\ ppr.nodeBackup # None
          /\ ppr.timeAssumedRebooted # 0 /\ ppr.timeAssumedRebooted <= now
          /\ node.unschedulable /\ NodeUnschedulableTaint \in node.taints
      BY <1>2, <2>3, SafeStep DEF Present, SafeDelete
    <3>2. ~Promise!Replaced
      <4>1. /\ ~(nodeCache[a].created > pprCache[a].created)
            /\ pprCache[a].timeAssumedRebooted # 0
        BY DEF DeleteNode, NodeCordoned, NodeReported, StatusComplete
      <4>2. nodeCache[a].created = node.created
        BY <2>3 DEF IInv, CachedNodeLagsBehind
      <4>3. ppr.created = pprCache[a].created
        BY <4>1, <4>2 DEF IInv, CachedDeadlineIsCurrent
      <4>4. QED
        BY <4>1, <4>2, <4>3 DEF Promise!Replaced
    <3>3. Promise!Remove
      BY <1>2, <2>2, <3>1, <3>2 DEF Promise!Remove, Present
    <3>4. QED
      BY <3>3 DEF Promise!Next
  <2>4. CASE nodeCache[a].uid # node.uid
    <3>1. Promise!Successor
      BY <1>n, <2>4 DEF Promise!Successor
    <3>2. QED
      BY <2>2, <3>1 DEF Promise!RemoveSuccessor, Promise!Next
  <2>5. QED
    BY <2>3, <2>4
<1>3. QED
  BY <1>1, <1>2

\* Every step of the cluster and of the agents is a step of NodeRemediation
\* or leaves it alone.
LEMMA StepSimulation ==
  ASSUME IInv, [Next]_vars
  PROVE  [Promise!Next]_(Promise!vars)
<1>1. ASSUME NEW a \in Agents, Agent(a)
      PROVE  \/ UNCHANGED <<now, node, ppr>>
             \/ ClearNodeBackup(a) \/ RemoveFinalizer(a)
             \/ AddFinalizer(a) \/ UpdatePprStatus(a)
             \/ RestoreNode(a) \/ MarkNodeAsUnschedulable(a) \/ DeleteNode(a)
  BY <1>1 DEF Agent, Reconcile, Requeue, PprAlreadyDeleted, NothingToRestore,
       RestoreAlreadyExists, RemediationDone, PprWithdrawn, Reboot, SyncPpr,
       SyncNode, SyncMachine, Resync, Restart, vars, apiVars
<1>2. CASE UNCHANGED <<now, node, ppr>>
  BY <1>2 DEF Promise!vars, Promise!report, Promise!node
<1>3. CASE Tick
  BY <1>3 DEF Tick, apiVars, Promise!Tick, Promise!Next, Promise!report,
              Promise!node
<1>4. CASE MachineChanges
  BY <1>2, <1>4 DEF MachineChanges
<1>5. CASE Cluster
  BY <1>3, <1>4, <1>5, ReportSteps, RestoreSteps, NodeSteps DEF Cluster
<1>6. ASSUME NEW a \in Agents, Agent(a) PROVE [Promise!Next]_(Promise!vars)
  BY <1>1, <1>2, <1>6, UpdateSteps, RestoreSteps, NodeSteps, DeleteSteps
<1>7. QED
  BY <1>2, <1>5, <1>6 DEF Next, vars, apiVars

\* Reconcilers that compete over lagging caches implement one remediation of
\* the node after another, as NodeRemediation describes it.
THEOREM Implementation == Spec => ImplementsNodeRemediation
<1>1. Init => Promise!Init
  BY DEF Init, NewNode, Promise!Init
<1>2. IInv /\ [Next]_vars => [Promise!Next]_(Promise!vars)
  BY StepSimulation
<1>3. QED
  BY <1>1, <1>2, Invariance, PTL DEF Spec, ImplementsNodeRemediation, Promise!Spec

\* What NodeRemediation keeps: the first node is as old as everything, and is
\* not away unless it can be restored.
FirstNode ==
    /\ now \in Nat /\ ppr.created \in Nat /\ node.uid \in Nat \ {0}
    /\ node.uid = 1 => node.created = 0
    /\ Promise!Recoverable

\* Every step of NodeRemediation keeps that.
LEMMA FirstNodeStep ==
  ASSUME FirstNode, ppr.timeAssumedRebooted \in Nat, [Promise!Next]_(Promise!vars)
  PROVE  FirstNode'
<1> USE DEF FirstNode, Promise!Recoverable, Promise!Successor
<1>r. ~Promise!Successor => ~Promise!Replaced
  BY DEF Promise!Replaced
<1>1. CASE Promise!Report \/ Promise!Claim \/ Promise!SetDeadline
  BY <1>1, <1>r DEF Promise!Report, Promise!Claim, Promise!SetDeadline, Promise!node
<1>2. CASE Promise!Cordon \/ Promise!Restore
  BY <1>2 DEF Promise!Cordon, Promise!Restore, Promise!report
<1>3. CASE Promise!Remove \/ Promise!RemoveSuccessor
  BY <1>3 DEF Promise!Remove, Promise!RemoveSuccessor, Promise!Gone, Promise!report
<1>4. CASE Promise!DropBackup \/ Promise!Release
  BY <1>4, <1>r DEF Promise!DropBackup, Promise!Release, Promise!node
<1>5. CASE Promise!Tick
  BY <1>5 DEF Promise!Tick, Promise!report, Promise!node
<1>6. CASE UNCHANGED Promise!vars
  BY <1>6 DEF Promise!vars, Promise!report, Promise!node
<1>7. QED
  BY <1>1, <1>2, <1>3, <1>4, <1>5, <1>6 DEF Promise!Next

\* The node that was reported first is never gone without a PPR that is kept
\* by its finalizer, a backup and a deadline that has passed: a consequence of
\* what NodeRemediation allows, which the agents implement.
THEOREM Recovery == Spec => []DeletedNodeIsRecoverable
<1>1. Promise!Init => FirstNode
  BY DEF Promise!Init, FirstNode, Promise!Recoverable
<1>2. IInv /\ FirstNode /\ [Promise!Next]_(Promise!vars) => FirstNode'
  BY FirstNodeStep DEF IInv, TypeOK, Ppr
<1>3. FirstNode => DeletedNodeIsRecoverable
  BY DEF FirstNode, DeletedNodeIsRecoverable
<1>4. QED
  BY <1>1, <1>2, <1>3, Invariance, Implementation, PTL
     DEF ImplementsNodeRemediation, Promise!Spec
==============================================================================
