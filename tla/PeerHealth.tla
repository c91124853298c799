------------------------------ MODULE PeerHealth ------------------------------
(***************************************************************************)
(* The peer health server of one agent: what it answers when another node  *)
(* asks whether it is healthy, and the two package variables through which *)
(* the reconciler of the same agent tells it where to look.                *)
(*                                                                         *)
(* The reconciler sets the variables in two critical sections, the server  *)
(* reads them in two others and then calls the API server, directly.       *)
(***************************************************************************)
EXTENDS Naturals

CONSTANTS
    Nodes,
    Namespaces,
    Mixed,      \* node and machine based PPRs exist side by side
    NoName,     \* the empty string
    NoPpr       \* no PPR

ASSUME MixedAssumption == Mixed \in BOOLEAN
ASSUME NameAssumption == NoName \notin Namespaces

\* A PPR is named after the node, or after the machine of the node.
Kinds == {"node", "machine"}
Ppr == [node: Nodes, kind: Kinds, namespace: Namespaces]

VARIABLES
    kind,        \* the kind of the PPRs in a cluster that is not mixed
    pprs,        \* the PPRs in the API server
    nodes,       \* the nodes in the API server
    annotated,   \* those with a machine annotation that can be parsed
    lastSeenPprNamespace,
    wasLastSeenPprMachine,
    reconciling, \* PPRs whose Reconcile is between the critical sections
    seen,        \* PPRs that were reconciled (history)
    last,        \* the PPR that was reconciled last (history)
    request      \* the request the server works on

apiVars == <<kind, pprs, nodes, annotated>>
reconcilerVars == <<lastSeenPprNamespace, wasLastSeenPprMachine, reconciling,
                    seen, last>>
vars == <<apiVars, reconcilerVars, request>>

Idle == [at |-> "idle"]

Init ==
    /\ kind \in Kinds
    /\ pprs = {}
    /\ nodes = Nodes
    /\ annotated \in SUBSET Nodes
    /\ lastSeenPprNamespace = NoName
    /\ wasLastSeenPprMachine = FALSE
    /\ reconciling = {}
    /\ seen = {}
    /\ last = NoPpr
    /\ request = Idle

(***************************************************************************)
(* The API server's objects.                                               *)
(***************************************************************************)
CreatePpr(p) ==
    /\ p \notin pprs
    /\ Mixed \/ p.kind = kind
    /\ pprs' = pprs \cup {p}
    /\ UNCHANGED <<kind, nodes, annotated, reconcilerVars, request>>

DeletePpr(p) ==
    /\ p \in pprs
    /\ pprs' = pprs \ {p}
    /\ seen' = seen \ {p}
    /\ UNCHANGED <<kind, nodes, annotated, lastSeenPprNamespace,
                   wasLastSeenPprMachine, reconciling, last, request>>

\* Remediation deletes the node and creates it again.
DeleteNode(n) ==
    /\ n \in nodes
    /\ nodes' = nodes \ {n}
    /\ UNCHANGED <<kind, pprs, annotated, reconcilerVars, request>>

CreateNode(n) ==
    /\ n \notin nodes
    /\ nodes' = nodes \cup {n}
    /\ UNCHANGED <<kind, pprs, annotated, reconcilerVars, request>>

\* Others write the machine annotation of a node, or take it away.  The machine
\* that it names stays the one the node runs on.
AnnotateNode(n) ==
    /\ n \in nodes
    /\ annotated' = IF n \in annotated THEN annotated \ {n} ELSE annotated \cup {n}
    /\ UNCHANGED <<kind, pprs, nodes, reconcilerVars, request>>

(***************************************************************************)
(* Reconcile, as far as it talks to the server.  One request is reconciled *)
(* at a time.                                                              *)
(***************************************************************************)
ReconcileNamespace(p) ==
    /\ p \in pprs
    /\ reconciling = {}
    /\ lastSeenPprNamespace' = p.namespace
    /\ reconciling' = {p}
    /\ UNCHANGED <<apiVars, wasLastSeenPprMachine, seen, last, request>>

\* Faulty variant: the flag is forgotten.
ReconcileNoMachine(p) ==
    /\ p \in reconciling
    /\ reconciling' = {}
    /\ seen' = seen \cup (pprs \cap {p})
    /\ last' = p
    /\ UNCHANGED <<apiVars, lastSeenPprNamespace, wasLastSeenPprMachine, request>>

ReconcileMachine(p) ==
    /\ p \in reconciling
    /\ wasLastSeenPprMachine' = (wasLastSeenPprMachine \/ p.kind = "machine")
    /\ reconciling' = {}
    /\ seen' = seen \cup (pprs \cap {p})
    /\ last' = p
    /\ UNCHANGED <<apiVars, lastSeenPprNamespace, request>>

(***************************************************************************)
(* The server.  A request remembers the PPRs that had been reconciled when *)
(* it arrived.                                                             *)
(***************************************************************************)
Serving == UNCHANGED <<apiVars, reconcilerVars>>

At(place) == request.at = place

Answer(code) ==
    /\ request' = [at |-> "answered", node |-> request.node, code |-> code,
                   before |-> request.before]
    /\ Serving

ReadNamespace(n) ==
    /\ At("idle")
    /\ request' = [at |-> "namespace", node |-> n, before |-> seen,
                   namespace |-> lastSeenPprNamespace]
    /\ Serving

ReadMachine ==
    /\ At("namespace")
    /\ request' = [at |-> IF request.namespace = NoName THEN "unseen"
                          ELSE IF wasLastSeenPprMachine THEN "machine"
                          ELSE "ppr",
                   node |-> request.node, before |-> request.before,
                   namespace |-> request.namespace, kind |-> "node"]
    /\ Serving

\* No PPR seen yet: any error of getNode, NotFound too, is an API error.
UnseenPpr ==
    /\ At("unseen")
    /\ Answer("ApiError") \/ (request.node \in nodes /\ Answer("Healthy"))

IsHealthyMachine ==
    /\ At("machine")
    /\ \/ Answer("ApiError")
       \/ request.node \in nodes \ annotated /\ Answer("Unhealthy")
       \/ /\ request.node \in nodes \cap annotated
          /\ request' = [at |-> "ppr", node |-> request.node, before |-> request.before,
                         namespace |-> request.namespace, kind |-> "machine"]
          /\ Serving

PprOf(n, k, ns) == [node |-> n, kind |-> k, namespace |-> ns]

\* Faulty variant: an error means the PPR is there.
IsHealthyByPprOrError ==
    /\ At("ppr")
    /\ Answer("Unhealthy")

IsHealthyByPpr ==
    /\ At("ppr")
    /\ LET found == PprOf(request.node, request.kind, request.namespace) \in pprs
       IN  \/ Answer("ApiError")
           \/ found /\ Answer("Unhealthy")
           \/ ~found /\ Answer("Healthy")

Respond ==
    /\ At("answered")
    /\ request' = Idle
    /\ Serving

IsHealthy ==
    \/ \E n \in Nodes : ReadNamespace(n)
    \/ ReadMachine
    \/ UnseenPpr
    \/ IsHealthyMachine
    \/ IsHealthyByPpr
    \/ Respond

Next ==
    \/ \E p \in Ppr : CreatePpr(p) \/ DeletePpr(p)
    \/ \E n \in Nodes : DeleteNode(n) \/ CreateNode(n) \/ AnnotateNode(n)
    \/ \E p \in Ppr : ReconcileNamespace(p) \/ ReconcileMachine(p)
    \/ IsHealthy

Spec == Init /\ [][Next]_vars

-------------------------------------------------------------------------------

Answering == request.at # "answered" /\ request'.at = "answered"

\* A peer that had reconciled a PPR of a node when the node asked, and that
\* still finds the PPR in the API server, does not call the node healthy.
ReconciledPprIsAnswered ==
    [][Answering /\ request'.code = "Healthy"
         => ~\E p \in pprs : p.node = request.node /\ p \in request.before]_vars

\* A peer does not call a node healthy whose PPR is the one it reconciled last
\* and is in the API server: the two variables describe that PPR.
LastSeenPprIsAnswered ==
    [][Answering /\ request'.code = "Healthy"
         => ~(last \in pprs /\ last \in request.before /\ last.node = request.node
              /\ reconciling = {})]_vars

\* A peer calls a node unhealthy only if there is a PPR for it, or if it
\* cannot tell which machine the node is on.
UnhealthyIsReported ==
    [][Answering /\ request'.code = "Unhealthy"
         => \/ request.node \notin annotated
            \/ \E p \in pprs : p.node = request.node]_vars
===============================================================================
