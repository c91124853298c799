--------------------------- MODULE PeerHealthProofs ---------------------------
(***************************************************************************)
(* The answers of the peer health server, for any number of nodes and of   *)
(* remediations.  What it says of a node it has reconciled a PPR of is     *)
(* right where all PPRs are in one namespace and of one kind: what the two *)
(* variables tell then is true for all of them.  Where kinds are mixed it  *)
(* is still right about the machines, for the flag is never reset.         *)
(***************************************************************************)
EXTENDS PeerHealth, TLAPS

OneNamespace == \A a, b \in Namespaces : a = b

Uniform == Mixed = FALSE /\ OneNamespace

OfMachine(ps) == \E p \in ps : p.kind = "machine"

\* The objects and the variables of the reconciler.
Known ==
    /\ kind \in Kinds
    /\ pprs \subseteq Ppr /\ reconciling \subseteq Ppr
    /\ \A p \in pprs \cup reconciling : Mixed \/ p.kind = kind
    /\ seen \subseteq pprs
    /\ seen # {} \/ reconciling # {} => lastSeenPprNamespace \in Namespaces
    /\ lastSeenPprNamespace \in Namespaces \cup {NoName}
    /\ wasLastSeenPprMachine => Mixed \/ kind = "machine"
    /\ OfMachine(seen) => wasLastSeenPprMachine

\* What a request has read of them, at each place.
Asked ==
    /\ request.at = "namespace" =>
         /\ request.namespace \in Namespaces \cup {NoName}
         /\ request.before # {} => request.namespace # NoName
         /\ OfMachine(request.before) => wasLastSeenPprMachine
    /\ request.at = "unseen" => request.before = {}
    /\ request.at = "machine" =>
         request.namespace \in Namespaces /\ (Mixed \/ kind = "machine")
    /\ request.at = "ppr" =>
         /\ request.namespace \in Namespaces
         /\ request.kind \in Kinds
         /\ request.kind = "machine" => Mixed \/ kind = "machine"
         /\ OfMachine(request.before) => request.kind = "machine"

IInv == Known /\ Asked

\* A step of the server, which only reads.
LEMMA ServerStep ==
    ASSUME IInv, IsHealthy
    PROVE  IInv'
<1>1. Known' /\ UNCHANGED <<apiVars, reconcilerVars>>
  BY DEF IInv, Known, IsHealthy, ReadNamespace, ReadMachine, UnseenPpr, IsHealthyMachine,
     IsHealthyByPpr, Respond, Answer, Serving, apiVars, reconcilerVars
<1> SUFFICES Asked'
  BY <1>1 DEF IInv
<1> USE <1>1 DEF Asked, At, apiVars, reconcilerVars
<1>2. ASSUME NEW n \in Nodes, ReadNamespace(n)
      PROVE  Asked'
  <2>1. /\ request'.at = "namespace" /\ request'.before = seen
        /\ request'.namespace = lastSeenPprNamespace
    BY <1>2 DEF ReadNamespace
  <2> QED  BY <2>1, NameAssumption DEF IInv, Known
<1>3. CASE ReadMachine
  <2>1. /\ request.at = "namespace" /\ request'.before = request.before
        /\ request'.namespace = request.namespace /\ request'.kind = "node"
        /\ request'.at = IF request.namespace = NoName THEN "unseen"
                         ELSE IF wasLastSeenPprMachine THEN "machine" ELSE "ppr"
    BY <1>3 DEF ReadMachine
  <2>2. CASE request.namespace = NoName
    BY <2>1, <2>2 DEF IInv
  <2>3. CASE request.namespace # NoName /\ wasLastSeenPprMachine
    BY <2>1, <2>3 DEF IInv, Known
  <2>4. CASE request.namespace # NoName /\ ~wasLastSeenPprMachine
    BY <2>1, <2>4 DEF IInv, Kinds
  <2> QED  BY <2>2, <2>3, <2>4
<1>4. ASSUME NEW code, Answer(code)
      PROVE  Asked'
  <2>1. request'.at = "answered"
    BY <1>4 DEF Answer
  <2> QED  BY <2>1
<1>5. CASE UnseenPpr \/ IsHealthyByPpr
  BY <1>4, <1>5 DEF UnseenPpr, IsHealthyByPpr
<1>6. CASE IsHealthyMachine
  <2>1. request.at = "machine"
    BY <1>6 DEF IsHealthyMachine
  <2>2. ASSUME request'.at = "ppr", request'.kind = "machine",
               request'.namespace = request.namespace
        PROVE  Asked'
    BY <2>1, <2>2 DEF IInv, Kinds
  <2> QED  BY <1>4, <1>6, <2>2 DEF IsHealthyMachine
<1>7. CASE Respond
  <2>1. request'.at = "idle"
    BY <1>7 DEF Respond, Idle
  <2> QED  BY <2>1
<1> QED  BY <1>1, <1>2, <1>3, <1>5, <1>6, <1>7 DEF IsHealthy

\* A step of the reconciler, or of others in the API server.
LEMMA WorldStep ==
    ASSUME IInv,
           \/ \E p \in Ppr : \/ CreatePpr(p) \/ DeletePpr(p)
                             \/ ReconcileNamespace(p) \/ ReconcileMachine(p)
           \/ \E n \in Nodes : DeleteNode(n) \/ CreateNode(n) \/ AnnotateNode(n)
    PROVE  IInv'
<1>1. UNCHANGED <<kind, request>>
  BY DEF CreatePpr, DeletePpr, ReconcileNamespace, ReconcileMachine, DeleteNode, CreateNode,
     AnnotateNode,
     apiVars
<1>2. wasLastSeenPprMachine => wasLastSeenPprMachine'
  BY DEF CreatePpr, DeletePpr, ReconcileNamespace, ReconcileMachine, DeleteNode, CreateNode,
     AnnotateNode,
     reconcilerVars
<1>3. Asked'
  BY <1>1, <1>2 DEF IInv, Asked
<1> SUFFICES Known'
  BY <1>3 DEF IInv
<1> USE DEF IInv, Known, apiVars, reconcilerVars
<1>4. ASSUME NEW p \in Ppr, CreatePpr(p)
      PROVE  Known'
  BY <1>4 DEF CreatePpr
<1>5. ASSUME NEW p \in Ppr, DeletePpr(p)
      PROVE  Known'
  <2>1. OfMachine(seen') => OfMachine(seen)
    BY <1>5 DEF DeletePpr, OfMachine
  <2> QED  BY <1>5, <2>1 DEF DeletePpr
<1>6. ASSUME NEW p \in Ppr, ReconcileNamespace(p)
      PROVE  Known'
  <2>1. p.namespace \in Namespaces
    BY DEF Ppr
  <2> QED  BY <1>6, <2>1 DEF ReconcileNamespace
<1>7. ASSUME NEW p \in Ppr, ReconcileMachine(p)
      PROVE  Known'
  <2>1. OfMachine(seen') => OfMachine(seen) \/ p.kind = "machine"
    BY <1>7 DEF ReconcileMachine, OfMachine
  <2> QED  BY <1>7, <2>1 DEF ReconcileMachine
<1>8. ASSUME NEW n \in Nodes, DeleteNode(n) \/ CreateNode(n) \/ AnnotateNode(n)
      PROVE  Known'
  BY <1>8 DEF DeleteNode, CreateNode, AnnotateNode
<1> QED  BY <1>4, <1>5, <1>6, <1>7, <1>8

\* What the reconciler and a request in progress know is an invariant.
LEMMA Inductive == Spec => []IInv
<1>1. Init => IInv
  BY NameAssumption DEF Init, IInv, Known, Asked, Idle, OfMachine
<1>2. IInv /\ [Next]_vars => IInv'
  <2> SUFFICES ASSUME IInv, [Next]_vars
               PROVE  IInv'
    OBVIOUS
  <2>1. CASE IsHealthy
    BY <2>1, ServerStep
  <2>2. CASE UNCHANGED vars
    BY <2>2 DEF vars, apiVars, reconcilerVars, IInv, Known, Asked
  <2>3. CASE \/ \E p \in Ppr : \/ CreatePpr(p) \/ DeletePpr(p)
                               \/ ReconcileNamespace(p) \/ ReconcileMachine(p)
             \/ \E n \in Nodes : DeleteNode(n) \/ CreateNode(n) \/ AnnotateNode(n)
    BY <2>3, WorldStep
  <2> QED  BY <2>1, <2>2, <2>3 DEF Next
<1> QED  BY <1>1, <1>2, PTL DEF Spec

-------------------------------------------------------------------------------

\* A request that is answered Healthy although a PPR of the node had been
\* reconciled has looked for the PPR of a machine, and the one that it misses
\* is the PPR of a node: both kinds are there.
LEMMA HealthyAnswer ==
    ASSUME OneNamespace, IInv, Next, Answering, request'.code = "Healthy",
           NEW p \in pprs, p.node = request.node, p \in request.before
    PROVE  p.kind = "node" /\ (Mixed \/ kind = "machine") /\ p \in Ppr
           /\ (Mixed \/ p.kind = kind)
<1>1. UnseenPpr \/ IsHealthyMachine \/ IsHealthyByPpr
  BY DEF Next, IsHealthy, Answering, CreatePpr, DeletePpr, DeleteNode, CreateNode,
     AnnotateNode,
     ReconcileNamespace, ReconcileMachine, ReadNamespace, ReadMachine, Respond, Idle
<1>2. ~UnseenPpr
  BY DEF UnseenPpr, At, IInv, Asked
<1>3. ~IsHealthyMachine
  BY DEF IsHealthyMachine, At, Answer, Answering
<1>4. /\ request.at = "ppr"
      /\ PprOf(request.node, request.kind, request.namespace) \notin pprs
  BY <1>1, <1>2, <1>3 DEF IsHealthyByPpr, At, Answer
<1>5. p \in Ppr /\ (Mixed \/ p.kind = kind)
  BY DEF IInv, Known
<1>6. p.namespace = request.namespace
  BY <1>4, <1>5 DEF IInv, Asked, Ppr, OneNamespace
<1>7. p.kind # request.kind
  <2>1. p.kind = request.kind => p = PprOf(request.node, request.kind, request.namespace)
    BY <1>5, <1>6 DEF Ppr, PprOf
  <2> QED  BY <1>4, <2>1
<1>8. p.kind = "machine" => request.kind = "machine"
  BY <1>4 DEF IInv, Asked, OfMachine
<1>9. p.kind \in Kinds /\ request.kind \in Kinds
  BY <1>4, <1>5 DEF IInv, Asked, Ppr
<1>10. p.kind = "node" /\ request.kind = "machine"
  BY <1>7, <1>8, <1>9 DEF Kinds
<1> QED  BY <1>4, <1>5, <1>10 DEF IInv, Asked

\* Where all PPRs are of one kind and in one namespace, a peer never tells a
\* node that it is healthy whose PPR it had reconciled when the node asked, as
\* long as the PPR is there (IsHealthy, isHealthyByPpr).
THEOREM ReconciledIsAnswered == Uniform => (Spec => ReconciledPprIsAnswered)
<1> SUFFICES ASSUME Uniform
             PROVE  Spec => ReconciledPprIsAnswered
  OBVIOUS
<1>1. IInv /\ [Next]_vars
        => [Answering /\ request'.code = "Healthy"
              => ~\E p \in pprs : p.node = request.node /\ p \in request.before]_vars
  BY HealthyAnswer DEF Uniform
<1> QED  BY <1>1, Inductive, PTL DEF Spec, ReconciledPprIsAnswered

\* So the two variables describe the PPR that was reconciled last: only where
\* kinds or namespaces are mixed they may not (WasLastSeenPprMachine).
THEOREM LastSeenIsAnswered == Uniform => (Spec => LastSeenPprIsAnswered)
<1> SUFFICES ASSUME Uniform
             PROVE  Spec => LastSeenPprIsAnswered
  OBVIOUS
<1>1. [Answering /\ request'.code = "Healthy"
         => ~\E p \in pprs : p.node = request.node /\ p \in request.before]_vars
        => [Answering /\ request'.code = "Healthy"
              => ~(last \in pprs /\ last \in request.before /\ last.node = request.node
                   /\ reconciling = {})]_vars
  OBVIOUS
<1>2. Spec => ReconciledPprIsAnswered
  BY ReconciledIsAnswered
<1> QED  BY <1>1, <1>2, PTL DEF ReconciledPprIsAnswered, LastSeenPprIsAnswered

\* A peer that had reconciled the PPR of a node's machine when the node asked,
\* and that still finds it, does not call the node healthy, whatever node based
\* PPRs there are.
MachinePprIsAnswered ==
    [][Answering /\ request'.code = "Healthy"
         => ~\E p \in pprs : /\ p.kind = "machine"
                             /\ p.node = request.node /\ p \in request.before]_vars

\* In a mixed cluster, too, no PPR of a machine is overlooked: the flag that is
\* never reset errs on that side (isHealthyMachine).
THEOREM MachinesAreAnswered == OneNamespace => (Spec => MachinePprIsAnswered)
<1> SUFFICES ASSUME OneNamespace
             PROVE  Spec => MachinePprIsAnswered
  OBVIOUS
<1>1. IInv /\ [Next]_vars
        => [Answering /\ request'.code = "Healthy"
              => ~\E p \in pprs : /\ p.kind = "machine"
                                  /\ p.node = request.node /\ p \in request.before]_vars
  BY HealthyAnswer
<1> QED  BY <1>1, Inductive, PTL DEF Spec, MachinePprIsAnswered

\* A peer tells a node that it is unhealthy only for a PPR that is there, or
\* because it does not know the node's machine, in a mixed cluster too.
THEOREM NoFalseAlarm == Spec => UnhealthyIsReported
<1>1. ASSUME Next, Answering, request'.code = "Unhealthy"
      PROVE  \/ request.node \notin annotated
             \/ \E p \in pprs : p.node = request.node
  <2>1. UnseenPpr \/ IsHealthyMachine \/ IsHealthyByPpr
    BY <1>1 DEF Next, IsHealthy, Answering, CreatePpr, DeletePpr, DeleteNode, CreateNode,
     AnnotateNode,
       ReconcileNamespace, ReconcileMachine, ReadNamespace, ReadMachine, Respond, Idle
  <2>2. ~UnseenPpr
    BY <1>1 DEF UnseenPpr, Answer
  <2>3. CASE IsHealthyMachine
    BY <1>1, <2>3 DEF IsHealthyMachine, At, Answer, Answering
  <2>4. CASE IsHealthyByPpr
    <3>1. PprOf(request.node, request.kind, request.namespace) \in pprs
      BY <1>1, <2>4 DEF IsHealthyByPpr, Answer
    <3> QED  BY <3>1 DEF PprOf
  <2> QED  BY <2>1, <2>2, <2>3, <2>4
<1>2. [Next]_vars
        => [Answering /\ request'.code = "Unhealthy"
              => \/ request.node \notin annotated
                 \/ \E p \in pprs : p.node = request.node]_vars
  BY <1>1
<1> QED  BY <1>2, PTL DEF Spec, UnhealthyIsReported
===============================================================================
