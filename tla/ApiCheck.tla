------------------------------- MODULE ApiCheck -------------------------------
(***************************************************************************)
(* The API connectivity check of one agent and the list of peers it asks.  *)
(*                                                                         *)
(* Peers are asked in batches; what counts of their answers is how many    *)
(* there are of each kind, so a list of peers is its length.  A check and  *)
(* a batch of questions are one action each.  How long they take, and what *)
(* happens to the node around them, is in module Fencing.                  *)
(***************************************************************************)
EXTENDS Naturals

CONSTANTS
    MaxPeers,            \* bound on the number of peers
    PeerCounts,          \* how many peers updatePeers may find
    MaxErrorsThreshold

ASSUME PeersAssumption == MaxPeers \in Nat /\ PeerCounts \subseteq 0..MaxPeers
ASSUME ThresholdAssumption == MaxErrorsThreshold \in Nat \ {0}

VARIABLES
    cluster,     \* what peers can tell: see Codes
    peers,       \* length of peersAddresses
    errorCount,  \* capped at MaxErrorsThreshold, only compared with that
    asking,      \* handleError is in its loop
    round,       \* its local variables: see Round
    rebootCalled \* handleError found the node unhealthy: Reboot is called

agent == <<peers, errorCount, asking, round, rebootCalled>>

Round ==
    [nodesToAsk: 0..MaxPeers,     \* peers not asked yet
     nrAllNodes: 0..MaxPeers,     \* peers to ask in all
     batches: 0..MaxPeers,        \* iterations of the loop
     apiErrorsResponsesSum: 0..MaxPeers,
     noResponseSum: 0..MaxPeers]  \* peers that did not answer (history)

NewRound(nodes) ==
    [nodesToAsk |-> nodes, nrAllNodes |-> nodes, batches |-> 0,
     apiErrorsResponsesSum |-> 0, noResponseSum |-> 0]

AnyCode == {"Healthy", "Unhealthy", "ApiError", "RequestFailed"}

\* What a peer can answer: it may or may not know of a remediation of this
\* node, whether the node itself is connected or has lost the API server only;
\* or no peer can reach the API server; or no peer can be reached.
Codes ==
    [connected |-> AnyCode,
     apiLost   |-> AnyCode,
     outage    |-> {"ApiError", "RequestFailed"},
     cutOff    |-> {"RequestFailed"}]

Least(m, n) == IF m < n THEN m ELSE n

\* The state of an agent that has just started.
AgentInit ==
    /\ peers = 0 /\ errorCount = 0
    /\ asking = FALSE /\ rebootCalled = FALSE
    /\ round = NewRound(0)

Forgotten ==
    /\ peers' = 0 /\ errorCount' = 0
    /\ asking' = FALSE /\ rebootCalled' = FALSE
    /\ round' = NewRound(0)

Init == cluster = "connected" /\ AgentInit

(***************************************************************************)
(* Start: the periodic check.  handleError below the threshold, or without *)
(* peers, considers the node healthy.                                      *)
(***************************************************************************)
CheckSucceeds ==
    /\ ~asking /\ ~rebootCalled
    /\ cluster = "connected"
    /\ errorCount' = 0
    /\ UNCHANGED <<cluster, peers, asking, round, rebootCalled>>

Counted == errorCount' = Least(errorCount + 1, MaxErrorsThreshold)

ErrorIgnored ==
    /\ ~asking /\ ~rebootCalled
    /\ Counted
    /\ errorCount' < MaxErrorsThreshold \/ peers = 0
    /\ UNCHANGED <<cluster, peers, asking, round, rebootCalled>>

AskPeers ==
    /\ ~asking /\ ~rebootCalled
    /\ Counted
    /\ ~(errorCount' < MaxErrorsThreshold)
    /\ peers # 0
    /\ asking' = TRUE
    /\ round' = NewRound(peers)
    /\ UNCHANGED <<cluster, peers, rebootCalled>>

(***************************************************************************)
(* The loop of handleError: three peers first, then a tenth of those left. *)
(***************************************************************************)
\* Faulty variants: ask for more than there are left; start with one peer.
NodesBatchCountUnbounded ==
    IF round.batches = 0 THEN 3
    ELSE IF round.nodesToAsk \div 10 = 0 THEN 1 ELSE round.nodesToAsk \div 10

NodesBatchCountOne ==
    Least(round.nodesToAsk,
          IF round.nodesToAsk \div 10 = 0 THEN 1 ELSE round.nodesToAsk \div 10)

NodesBatchCount ==
    LET tenth == round.nodesToAsk \div 10
    IN  Least(round.nodesToAsk,
              IF round.batches = 0 THEN 3 ELSE IF tenth = 0 THEN 1 ELSE tenth)

\* What sumPeersResponses may return for the next batch.
Responses ==
    {r \in [AnyCode -> 0..NodesBatchCount] :
        /\ \A code \in DOMAIN r : r[code] # 0 => code \in Codes[cluster]
        /\ r["Healthy"] + r["Unhealthy"] + r["ApiError"] + r["RequestFailed"]
             = NodesBatchCount}

\* Faulty variant: the last peer of a batch stays on the list.
PoppedButLast(r) ==
    [round EXCEPT !.nodesToAsk = @ - NodesBatchCount + 1,
                  !.batches = Least(@ + 1, MaxPeers),
                  !.apiErrorsResponsesSum = @ + r["ApiError"],
                  !.noResponseSum = @ + r["RequestFailed"]]

Popped(r) ==
    [nodesToAsk |-> round.nodesToAsk - NodesBatchCount,
     nrAllNodes |-> round.nrAllNodes,
     batches |-> round.batches + 1,
     apiErrorsResponsesSum |-> round.apiErrorsResponsesSum + r["ApiError"],
     noResponseSum |-> round.noResponseSum + r["RequestFailed"]]

PeerSaysHealthy(r) ==
    /\ r["Healthy"] > 0
    /\ errorCount' = 0
    /\ asking' = FALSE
    /\ UNCHANGED rebootCalled

PeerSaysUnhealthy(r) ==
    /\ r["Healthy"] = 0
    /\ r["Unhealthy"] > 0
    /\ asking' = FALSE
    /\ rebootCalled' = TRUE
    /\ UNCHANGED errorCount

NoVerdict(r) == r["Healthy"] = 0 /\ r["Unhealthy"] = 0

\* Faulty variant: look at the errors of the last batch only.
ControlPlaneFailureInBatch(r) == r["ApiError"] > round.nrAllNodes \div 2

ControlPlaneFailure(r) ==
    /\ r["ApiError"] > 0
    /\ round.apiErrorsResponsesSum + r["ApiError"] > round.nrAllNodes \div 2

AssumeControlPlaneFailure(r) ==
    /\ NoVerdict(r)
    /\ ControlPlaneFailure(r)
    /\ asking' = FALSE
    /\ UNCHANGED <<errorCount, rebootCalled>>

AskMore(r) ==
    /\ NoVerdict(r)
    /\ ~ControlPlaneFailure(r)
    /\ round.nodesToAsk > NodesBatchCount
    /\ UNCHANGED <<asking, errorCount, rebootCalled>>

\* Faulty variant: take silence for health.
AskedAllPeersHealthy(r) ==
    /\ NoVerdict(r)
    /\ ~ControlPlaneFailure(r)
    /\ round.nodesToAsk = NodesBatchCount
    /\ asking' = FALSE
    /\ UNCHANGED <<errorCount, rebootCalled>>

AskedAllPeers(r) ==
    /\ NoVerdict(r)
    /\ ~ControlPlaneFailure(r)
    /\ round.nodesToAsk = NodesBatchCount
    /\ asking' = FALSE
    /\ rebootCalled' = TRUE
    /\ UNCHANGED errorCount

AskBatch ==
    /\ asking
    /\ \E r \in Responses :
         \/ /\ PeerSaysHealthy(r) \/ AssumeControlPlaneFailure(r)
            /\ round' = NewRound(0)
         \/ /\ PeerSaysUnhealthy(r) \/ AskMore(r) \/ AskedAllPeers(r)
            /\ round' = Popped(r)
    /\ UNCHANGED <<cluster, peers>>

\* updatePeers lists the nodes from the cache, which does not change while
\* the API server is out of reach.
UpdatePeers ==
    /\ cluster = "connected"
    /\ peers' \in PeerCounts
    /\ UNCHANGED <<cluster, errorCount, asking, round, rebootCalled>>

\* Reboot has returned without an effect, the software reboot having failed,
\* which it reports as a success: the check goes on, its errors counted.
RebootFails ==
    /\ rebootCalled
    /\ rebootCalled' = FALSE
    /\ round' = NewRound(0)
    /\ UNCHANGED <<cluster, peers, errorCount, asking>>

-------------------------------------------------------------------------------

\* The counters of handleError stay within the number of peers: popNodes does
\* not take more peers than are left.
CountsInRange ==
    /\ cluster \in DOMAIN Codes
    /\ errorCount \in 0..MaxErrorsThreshold
    /\ asking \in BOOLEAN /\ rebootCalled \in BOOLEAN
    /\ peers \in 0..MaxPeers
    /\ round \in Round

\* While handleError asks, every peer has been asked, once, or is still to be
\* asked, and nobody has given a verdict yet.
EveryPeerCounted ==
    asking => /\ round.nodesToAsk > 0
              /\ round.nodesToAsk + round.apiErrorsResponsesSum
                   + round.noResponseSum = round.nrAllNodes

\* handleError reboots the node only after MaxErrorsThreshold errors, and
\* only if a peer said Unhealthy (so not all answers were errors) or all
\* peers were asked and at least half of them did not answer at all: an API
\* server that peers cannot reach either does not reboot the node.
RebootIsJustified ==
    [][~rebootCalled /\ rebootCalled'
         => /\ errorCount = MaxErrorsThreshold
            /\ \/ round'.apiErrorsResponsesSum + round'.noResponseSum
                    + round'.nodesToAsk < round.nrAllNodes
               \/ /\ round'.nodesToAsk = 0
                  /\ 2 * round'.noResponseSum >= round.nrAllNodes]_agent
===============================================================================
