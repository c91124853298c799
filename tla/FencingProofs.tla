---------------------------- MODULE FencingProofs -----------------------------
(***************************************************************************)
(* The API check and the deadline, for any number of peers, any threshold  *)
(* and any times.                                                          *)
(***************************************************************************)
EXTENDS Fencing, TLAPS

\* A batch is not empty, does not take more peers than are left, and each
\* time leaves less to do; the first one takes three peers if there are three.
LEMMA Batch ==
    ASSUME round \in Round, round.nodesToAsk > 0
    PROVE  /\ NodesBatchCount \in 1..round.nodesToAsk
           /\ round.batches = 0 =>
                NodesBatchCount = IF round.nodesToAsk > 3 THEN 3 ELSE round.nodesToAsk
<1> DEFINE n == round.nodesToAsk
           tenth == n \div 10
<1>1. n \in Nat /\ n > 0 /\ round.batches \in Nat
  BY PeersAssumption DEF Round
<1>2. tenth \in Nat
  BY <1>1
<1> HIDE DEF n
<1> QED  BY <1>1, <1>2 DEF NodesBatchCount, Least, n

\* While peers are asked, those not asked yet and the batches so far account
\* for no more than all of them, and the errors for no more than half.
Asking ==
    asking => /\ round.nodesToAsk > 0
              /\ round.nodesToAsk + round.apiErrorsResponsesSum
                   + round.noResponseSum = round.nrAllNodes
              /\ round.nodesToAsk + round.batches <= round.nrAllNodes
              /\ round.batches > 0 => round.nodesToAsk + 3 <= round.nrAllNodes
              /\ round.apiErrorsResponsesSum <= round.nrAllNodes \div 2
              /\ errorCount = MaxErrorsThreshold
              /\ ~rebootCalled

\* What a batch of answers adds up to.
LEMMA Answers ==
    ASSUME round \in Round, round.nodesToAsk > 0, NEW r \in Responses
    PROVE  /\ r["Healthy"] \in Nat /\ r["Unhealthy"] \in Nat
           /\ r["ApiError"] \in Nat /\ r["RequestFailed"] \in Nat
           /\ r["Healthy"] + r["Unhealthy"] + r["ApiError"] + r["RequestFailed"]
                = NodesBatchCount
           /\ cluster = "cutOff" => r["Healthy"] = 0 /\ r["Unhealthy"] = 0
                                    /\ r["ApiError"] = 0
<1>1. NodesBatchCount \in Nat
  BY Batch, PeersAssumption DEF Round
<1> QED  BY <1>1 DEF Responses, Codes, AnyCode

\* The fields of the round after a batch.
LEMMA AfterBatch ==
    ASSUME CountsInRange, Asking, asking, NEW r \in Responses
    PROVE  /\ Popped(r) \in Round
           /\ Popped(r).nodesToAsk + Popped(r).batches <= round.nrAllNodes
           /\ Popped(r).nodesToAsk < round.nodesToAsk
           /\ Popped(r).nodesToAsk + Popped(r).apiErrorsResponsesSum
                + Popped(r).noResponseSum
                = round.nrAllNodes - r["Healthy"] - r["Unhealthy"]
<1>1. round \in Round /\ round.nodesToAsk > 0
  BY DEF CountsInRange, Asking
<1> DEFINE k == NodesBatchCount
<1>2. k \in 1..round.nodesToAsk
  BY <1>1, Batch
<1>3. /\ r["Healthy"] \in Nat /\ r["Unhealthy"] \in Nat
      /\ r["ApiError"] \in Nat /\ r["RequestFailed"] \in Nat
      /\ r["Healthy"] + r["Unhealthy"] + r["ApiError"] + r["RequestFailed"] = k
  BY <1>1, Answers
<1> HIDE DEF k
<1> QED  BY <1>1, <1>2, <1>3, PeersAssumption DEF Popped, Round, Asking, k

\* A new round is one.
LEMMA NewRoundIsOne ==
    ASSUME NEW n \in 0..MaxPeers
    PROVE  NewRound(n) \in Round
BY PeersAssumption DEF NewRound, Round

\* A batch of answers keeps the account: what AskMore goes on with.
LEMMA AskBatchStep ==
    ASSUME CountsInRange, Asking, AskBatch
    PROVE  CountsInRange' /\ Asking'
<1>1. PICK r \in Responses :
        \/ /\ PeerSaysHealthy(r) \/ AssumeControlPlaneFailure(r)
           /\ round' = NewRound(0)
        \/ /\ PeerSaysUnhealthy(r) \/ AskMore(r) \/ AskedAllPeers(r)
           /\ round' = Popped(r)
  BY DEF AskBatch
<1>2. asking /\ UNCHANGED <<cluster, peers>> /\ round \in Round
  BY DEF AskBatch, CountsInRange
<1>3. round' \in Round
  BY <1>1, <1>2, AfterBatch, NewRoundIsOne, PeersAssumption
<1>4. errorCount' \in 0..MaxErrorsThreshold /\ asking' \in BOOLEAN /\ rebootCalled' \in BOOLEAN
  <2> USE DEF CountsInRange, PeerSaysHealthy, AssumeControlPlaneFailure, PeerSaysUnhealthy,
              AskMore, AskedAllPeers
  <2>1. errorCount' \in 0..MaxErrorsThreshold
    BY <1>1, ThresholdAssumption
  <2>2. asking' \in BOOLEAN /\ rebootCalled' \in BOOLEAN
    BY <1>1, Zenon
  <2> QED  BY <2>1, <2>2
<1>5. ASSUME asking'
      PROVE  AskMore(r) /\ round' = Popped(r) /\ UNCHANGED <<errorCount, rebootCalled>>
  BY <1>1, <1>5 DEF PeerSaysHealthy, AssumeControlPlaneFailure,
     PeerSaysUnhealthy, AskMore, AskedAllPeers
<1>6. ASSUME asking'
      PROVE  Asking'
  <2> USE DEF Asking
  <2>1. r["Healthy"] = 0 /\ r["Unhealthy"] = 0 /\ round.nodesToAsk > NodesBatchCount
    BY <1>5, <1>6 DEF AskMore, NoVerdict
  <2>2. r["ApiError"] \in Nat
    BY <1>2, Answers
  <2>3. NodesBatchCount \in 1..round.nodesToAsk
    BY <1>2, Batch
  <2>4. round.nodesToAsk \in Nat /\ round.nrAllNodes \in Nat /\ round.batches \in Nat
        /\ round.apiErrorsResponsesSum \in Nat
    BY <1>2, PeersAssumption DEF Round
  <2>5. /\ round'.nodesToAsk = round.nodesToAsk - NodesBatchCount
        /\ round'.nrAllNodes = round.nrAllNodes
        /\ round'.batches = round.batches + 1
        /\ round'.apiErrorsResponsesSum = round.apiErrorsResponsesSum + r["ApiError"]
    BY <1>5, <1>6 DEF Popped
  <2>6. round'.nodesToAsk > 0
    BY <2>1, <2>3, <2>4, <2>5
  <2>7. round'.nodesToAsk + 3 <= round.nrAllNodes
    <3>1. CASE round.batches = 0
      <4>1. NodesBatchCount = IF round.nodesToAsk > 3 THEN 3 ELSE round.nodesToAsk
        BY <1>2, <3>1, Batch
      <4> QED  BY <1>2, <2>1, <2>4, <2>5, <3>1, <4>1
    <3>2. CASE round.batches > 0
      BY <1>2, <2>3, <2>4, <2>5, <3>2
    <3> QED  BY <2>4, <3>1, <3>2
  <2>8. round'.apiErrorsResponsesSum <= round.nrAllNodes \div 2
    <3>1. ~ControlPlaneFailure(r)
      BY <1>5, <1>6 DEF AskMore
    <3> QED  BY <1>2, <2>2, <2>4, <2>5, <3>1 DEF ControlPlaneFailure
  <2>9. /\ round'.nodesToAsk + round'.batches <= round.nrAllNodes
        /\ round'.nodesToAsk + round'.apiErrorsResponsesSum + round'.noResponseSum
             = round.nrAllNodes
    BY <1>2, <1>5, <1>6, <2>1, <2>4, AfterBatch
  <2> QED  BY <1>2, <1>5, <1>6, <2>5, <2>6, <2>7, <2>8, <2>9
<1> QED  BY <1>2, <1>3, <1>4, <1>6 DEF CountsInRange, Asking

\* What a step is, for a proof by cases.
LEMMA Steps ==
    ASSUME FencingNext
    PROVE  \/ CheckSucceeds /\ Takes(0)
           \/ ErrorIgnored /\ ~KnowsNoPeers /\ Takes(CheckTime)
           \/ ErrorIgnored /\ KnowsNoPeers /\ Excused
           \/ AskPeers /\ Takes(CheckTime)
           \/ AskBatch /\ ~Reassured /\ Takes(BatchTime)
           \/ AskBatch /\ Reassured /\ Excused
           \/ UpdatePeers /\ Takes(0)
           \/ HostReboots \/ SoftwareRebootFails
           \/ ReconcilerReboots \/ ReconcilerRebootFails
           \/ SetDeadline \/ Lag \/ Remediated
           \/ (\E what \in Losses : Lose(what))
           \/ Outage \/ Connected \/ AgentRestarts
BY DEF FencingNext, Check

\* The account of the peers is kept by every step, of the agent or of others.
LEMMA CheckStep ==
    ASSUME CountsInRange, Asking, [FencingNext]_vars
    PROVE  CountsInRange' /\ Asking'
<1> USE PeersAssumption, ThresholdAssumption DEF CountsInRange, Asking
<1>1. CASE CheckSucceeds
  BY <1>1 DEF CheckSucceeds
<1>2. CASE ErrorIgnored
  BY <1>2 DEF ErrorIgnored, Counted, Least
<1>3. CASE AskPeers
  <2>1. /\ UNCHANGED <<cluster, peers, rebootCalled>> /\ asking' = TRUE
        /\ round' = NewRound(peers) /\ peers # 0 /\ ~rebootCalled
    BY <1>3 DEF AskPeers
  <2>2. errorCount' = MaxErrorsThreshold
    BY <1>3 DEF AskPeers, Counted, Least
  <2>3. NewRound(peers) \in Round
    BY NewRoundIsOne
  <2>4. asking' \in BOOLEAN
    BY <2>1, Zenon
  <2> QED  BY <2>1, <2>2, <2>3, <2>4 DEF NewRound
<1>4. CASE AskBatch
  BY <1>4, AskBatchStep
<1>5. CASE UpdatePeers
  BY <1>5 DEF UpdatePeers
<1>6. ASSUME Forgotten, cluster' \in DOMAIN Codes
      PROVE  CountsInRange' /\ Asking'
  <2>1. asking' \in BOOLEAN /\ rebootCalled' \in BOOLEAN
    BY <1>6, Zenon DEF Forgotten
  <2>2. round' \in Round
    BY <1>6, NewRoundIsOne DEF Forgotten
  <2> QED  BY <1>6, <2>1, <2>2 DEF Forgotten
<1>7. CASE HostReboots \/ ReconcilerReboots \/ AgentRestarts
  BY <1>6, <1>7 DEF HostReboots, ReconcilerReboots, AgentRestarts, GoesDown
<1>8. CASE SoftwareRebootFails
  <2>1. rebootCalled' \in BOOLEAN
    BY <1>8, Zenon DEF SoftwareRebootFails, RebootFails
  <2> QED  BY <1>8, <2>1, NewRoundIsOne DEF SoftwareRebootFails, RebootFails
<1>9. ASSUME UNCHANGED agent, cluster' \in DOMAIN Codes
      PROVE  CountsInRange' /\ Asking'
  BY <1>9 DEF agent
<1>10. CASE ReconcilerRebootFails \/ SetDeadline \/ Lag \/ Remediated \/ UNCHANGED vars
  BY <1>9, <1>10 DEF ReconcilerRebootFails, SetDeadline, Lag, Remediated, vars
<1>11. CASE (\E what \in Losses : Lose(what)) \/ Outage \/ Connected
  BY <1>9, <1>11, LossesAssumption DEF Lose, Turn, Outage, Connected, Codes
<1> QED
  BY <1>1, <1>2, <1>3, <1>4, <1>5, <1>7, <1>8, <1>10, <1>11, Steps

-------------------------------------------------------------------------------
(***************************************************************************)
(* The time it takes a node that lost the API server to ask for a reboot.  *)
(*                                                                         *)
(* How many batches it takes to ask n peers is a recursion on n.  Any      *)
(* function that bounds it will do: one that leaves a batch for each tenth *)
(* that is taken off.                                                      *)
(***************************************************************************)
Times(n, t) == n * t

CheckCost == CheckInterval + ApiServerTimeout
BatchCost == PeerDialTimeout + PeerRequestTimeout

\* What a batch takes of n peers once the first one has been asked.
Tenth(n) == IF n \div 10 = 0 THEN 1 ELSE n \div 10

\* The batches for n peers: the first three peers, then rest.
Batches(rest, n) == 1 + rest[IF n > 3 THEN n - 3 ELSE 0]

\* rest bounds the batches after the first one, most all of them.
Bounds(rest, most) ==
    /\ rest \in [0..MaxPeers -> Nat] /\ most \in Nat
    /\ \A n \in 1..MaxPeers : rest[n] >= 1 + rest[n - Tenth(n)]
    /\ \A n \in 0..MaxPeers : Batches(rest, n) <= most

BatchesLeft(rest) ==
    IF round.batches = 0 THEN Batches(rest, round.nodesToAsk) ELSE rest[round.nodesToAsk]

ChecksLeft ==
    IF errorCount < MaxErrorsThreshold THEN MaxErrorsThreshold - errorCount ELSE 1

\* What is left to do, if a check costs c and a batch b.
Work(rest, c, b) ==
    IF rebootCalled THEN 0
    ELSE IF asking THEN Times(BatchesLeft(rest), b)
    ELSE Times(ChecksLeft, c) + Times(Batches(rest, peers), b)

MostWork(most, c, b) == Times(MaxErrorsThreshold, c) + Times(most, b)

TimeLeft(rest) == Work(rest, CheckCost, BatchCost)

\* What is waited for at least, and the longest that a reboot may take.
MinWait ==
    (CheckInterval + ApiServerTimeout) * MaxErrorsThreshold
    + (10 + 1) * (PeerDialTimeout + PeerRequestTimeout) + Buffer

Wait == IF TimeToAssumeNodeRebooted < MinWait THEN MinWait ELSE TimeToAssumeNodeRebooted

LongestReboot == IF TRUE \in Watchdogs THEN WatchdogTimeout ELSE 0

\* The time that is waited is enough for all of it.
Enough(most) ==
    ReactTime + MostWork(most, CheckCost, BatchCost) + LongestReboot <= Wait

Timely(rest) ==
    /\ hasWatchdog \in Watchdogs /\ excused \in BOOLEAN
    /\ left \in Nat
    /\ Counting => /\ cluster # "outage"
                   /\ cluster = "connected" =>
                        left >= SafeTimeToAssumeNodeRebooted - ReactTime
                   /\ Lost => left >= RebootTime + TimeLeft(rest)

\* The costs are times.
LEMMA Costs == CheckCost \in Nat /\ BatchCost \in Nat
BY TimesAssumption DEF CheckCost, BatchCost

\* n + 1 times take one longer than n.
LEMMA TimesAdd ==
    ASSUME NEW t \in Nat
    PROVE  \A n \in Nat : Times(n, t) \in Nat /\ Times(n + 1, t) = Times(n, t) + t
BY DEF Times

\* Doing something less often does not take longer.
LEMMA TimesGrow ==
    ASSUME NEW t \in Nat, NEW m \in Nat, NEW n \in Nat, m <= n
    PROVE  Times(m, t) <= Times(n, t)
<1>1. n - m \in Nat /\ n = m + (n - m)
  OBVIOUS
<1>2. (n - m) * t >= 0
  BY <1>1
<1>3. n * t = m * t + (n - m) * t
  BY <1>1
<1> QED  BY <1>1, <1>2, <1>3 DEF Times

\* There is a batch at least, and there are most at most.
LEMMA BatchesBounded ==
    ASSUME NEW CONSTANT rest, NEW CONSTANT most, Bounds(rest, most),
           NEW n \in 0..MaxPeers
    PROVE  /\ Batches(rest, n) \in Nat /\ Batches(rest, n) >= 1
           /\ Batches(rest, n) <= most
<1>1. (IF n > 3 THEN n - 3 ELSE 0) \in 0..MaxPeers
  BY PeersAssumption
<1>2. rest[IF n > 3 THEN n - 3 ELSE 0] \in Nat
  BY <1>1 DEF Bounds
<1> QED  BY <1>2 DEF Bounds, Batches

\* Whatever the agent is at, it is not further from a reboot than at its start.
LEMMA WorkBounded ==
    ASSUME NEW CONSTANT rest, NEW CONSTANT most, Bounds(rest, most),
           NEW CONSTANT c \in Nat, NEW CONSTANT b \in Nat, CountsInRange, Asking
    PROVE  /\ Work(rest, c, b) \in Nat /\ MostWork(most, c, b) \in Nat
           /\ Work(rest, c, b) <= MostWork(most, c, b)
<1> USE PeersAssumption, ThresholdAssumption DEF CountsInRange
<1>1. most \in Nat /\ MaxErrorsThreshold \in Nat
  BY DEF Bounds
<1>2. Times(MaxErrorsThreshold, c) \in Nat /\ Times(most, b) \in Nat
  BY <1>1, TimesAdd
<1>3. CASE rebootCalled
  BY <1>2, <1>3 DEF Work, MostWork
<1>4. CASE ~rebootCalled /\ asking
  <2>1. BatchesLeft(rest) \in Nat /\ BatchesLeft(rest) <= most
    <3>1. round.nodesToAsk \in 0..MaxPeers /\ round.nrAllNodes \in 0..MaxPeers
          /\ round.batches \in Nat
      BY DEF Round
    <3>2. CASE round.batches = 0
      BY <3>1, <3>2, BatchesBounded DEF BatchesLeft
    <3>3. CASE round.batches # 0
      <4> DEFINE n == round.nodesToAsk + 3
      <4>1. n \in 0..MaxPeers /\ n > 3 /\ n - 3 = round.nodesToAsk
        BY <1>4, <3>1, <3>3 DEF Asking
      <4>2. Batches(rest, n) = 1 + rest[round.nodesToAsk] /\ rest[round.nodesToAsk] \in Nat
        BY <3>1, <4>1 DEF Batches, Bounds
      <4>3. Batches(rest, n) <= most
        BY <4>1, BatchesBounded
      <4> QED  BY <1>1, <3>3, <4>2, <4>3 DEF BatchesLeft
    <3> QED  BY <3>2, <3>3
  <2>2. Times(BatchesLeft(rest), b) \in Nat
    BY <2>1, TimesAdd
  <2>3. Times(BatchesLeft(rest), b) <= Times(most, b)
    BY <1>1, <2>1, TimesGrow
  <2> QED  BY <1>2, <1>4, <2>2, <2>3 DEF Work, MostWork
<1>5. CASE ~rebootCalled /\ ~asking
  <2>1. ChecksLeft \in Nat /\ ChecksLeft <= MaxErrorsThreshold
    BY DEF ChecksLeft
  <2>2. Batches(rest, peers) \in Nat /\ Batches(rest, peers) <= most
    BY BatchesBounded
  <2>3. Times(ChecksLeft, c) \in Nat /\ Times(Batches(rest, peers), b) \in Nat
    BY <2>1, <2>2, TimesAdd
  <2>4. Times(ChecksLeft, c) <= Times(MaxErrorsThreshold, c)
    BY <1>1, <2>1, TimesGrow
  <2>5. Times(Batches(rest, peers), b) <= Times(most, b)
    BY <1>1, <2>2, TimesGrow
  <2> QED  BY <1>2, <1>5, <2>3, <2>4, <2>5 DEF Work, MostWork
<1> QED  BY <1>3, <1>4, <1>5

\* What the check and the entry into the loop of handleError cost a node that
\* knows peers and that no check succeeds on.
LEMMA CostOfChecking ==
    ASSUME NEW CONSTANT rest, NEW CONSTANT most, Bounds(rest, most),
           NEW CONSTANT c \in Nat, NEW CONSTANT b \in Nat, CountsInRange,
           (ErrorIgnored /\ peers # 0) \/ AskPeers
    PROVE  Work(rest, c, b)' \in Nat /\ Work(rest, c, b)' + c <= Work(rest, c, b)
<1> USE PeersAssumption, ThresholdAssumption DEF CountsInRange
<1>1. ~asking /\ ~rebootCalled /\ peers # 0 /\ UNCHANGED <<peers, rebootCalled>>
  BY DEF ErrorIgnored, AskPeers
<1>2. Batches(rest, peers) \in Nat /\ Times(Batches(rest, peers), b) \in Nat
  BY BatchesBounded, TimesAdd
<1>3. Work(rest, c, b) = Times(ChecksLeft, c) + Times(Batches(rest, peers), b)
  BY <1>1 DEF Work
<1>4. CASE ErrorIgnored
  <2>1. /\ errorCount' = errorCount + 1 /\ errorCount + 1 < MaxErrorsThreshold
        /\ ~asking'
    BY <1>1, <1>4 DEF ErrorIgnored, Counted, Least
  <2>2. ChecksLeft' \in Nat /\ ChecksLeft = ChecksLeft' + 1
    BY <2>1 DEF ChecksLeft
  <2>3. Times(ChecksLeft', c) \in Nat /\ Times(ChecksLeft, c) = Times(ChecksLeft', c) + c
    BY <2>2, TimesAdd
  <2>4. Work(rest, c, b)' = Times(ChecksLeft', c) + Times(Batches(rest, peers), b)
    BY <1>1, <2>1 DEF Work, Times, Batches
  <2> QED  BY <1>2, <1>3, <2>3, <2>4
<1>5. CASE AskPeers
  <2>1. ChecksLeft = 1
    BY <1>5 DEF AskPeers, Counted, Least, ChecksLeft
  <2>2. Times(1, c) = c
    BY DEF Times
  <2>3. asking' /\ round'.batches = 0 /\ round'.nodesToAsk = peers
    BY <1>5 DEF AskPeers, NewRound
  <2>4. Work(rest, c, b)' = Times(Batches(rest, peers), b)
    BY <1>1, <2>3 DEF Work, BatchesLeft, Times, Batches
  <2> QED  BY <1>2, <1>3, <2>1, <2>2, <2>4
<1> QED  BY <1>4, <1>5

\* A batch that does not reassure the node brings the reboot nearer: it ends
\* the loop, or the end of the list is nearer.
LEMMA CostOfAsking ==
    ASSUME NEW CONSTANT rest, NEW CONSTANT most, Bounds(rest, most),
           NEW CONSTANT c \in Nat, NEW CONSTANT b \in Nat,
           CountsInRange, Asking, AskBatch, asking' \/ rebootCalled'
    PROVE  Work(rest, c, b)' \in Nat /\ Work(rest, c, b)' + b <= Work(rest, c, b)
<1>1. PICK r \in Responses :
        \/ /\ PeerSaysHealthy(r) \/ AssumeControlPlaneFailure(r)
           /\ round' = NewRound(0)
        \/ /\ PeerSaysUnhealthy(r) \/ AskMore(r) \/ AskedAllPeers(r)
           /\ round' = Popped(r)
  BY DEF AskBatch
<1>2. asking /\ ~rebootCalled /\ round \in Round /\ round.nodesToAsk > 0
  BY DEF AskBatch, CountsInRange, Asking
<1>3. ~PeerSaysHealthy(r) /\ ~AssumeControlPlaneFailure(r)
  BY <1>2 DEF PeerSaysHealthy, AssumeControlPlaneFailure
<1>4. (PeerSaysUnhealthy(r) \/ AskMore(r) \/ AskedAllPeers(r)) /\ round' = Popped(r)
  BY <1>1, <1>3
<1>5. round.nodesToAsk \in 1..MaxPeers /\ round.batches \in Nat
  BY <1>2, PeersAssumption DEF Round
<1> DEFINE n == round.nodesToAsk
<1>6. /\ n - Tenth(n) \in 0..MaxPeers /\ rest[n - Tenth(n)] \in Nat
      /\ rest[n] \in Nat /\ rest[n] >= 1 + rest[n - Tenth(n)]
  <2>1. n \div 10 \in 0..n
    BY <1>5, PeersAssumption
  <2>2. n - Tenth(n) \in 0..MaxPeers /\ n \in 0..MaxPeers
    BY <1>5, <2>1, PeersAssumption DEF Tenth
  <2> QED  BY <1>5, <2>2 DEF Bounds
<1>7. BatchesLeft(rest) \in Nat /\ BatchesLeft(rest) >= 1
  <2>1. Batches(rest, n) \in Nat /\ Batches(rest, n) >= 1
    BY <1>5, BatchesBounded, PeersAssumption
  <2> QED  BY <1>6, <2>1 DEF BatchesLeft
<1>8. Work(rest, c, b) = Times(BatchesLeft(rest), b)
  BY <1>2 DEF Work
<1>9. CASE PeerSaysUnhealthy(r) \/ AskedAllPeers(r)
  <2>1. Work(rest, c, b)' = 0
    BY <1>9 DEF PeerSaysUnhealthy, AskedAllPeers, Work
  <2>2. Times(1, b) <= Times(BatchesLeft(rest), b) /\ Times(1, b) = b
    BY <1>7, TimesGrow DEF Times
  <2>3. Times(BatchesLeft(rest), b) \in Nat
    BY <1>7, TimesAdd
  <2> QED  BY <1>8, <2>1, <2>2, <2>3
<1>10. CASE AskMore(r)
  <2>1. /\ round'.nodesToAsk = n - NodesBatchCount
        /\ round'.batches = round.batches + 1
        /\ asking' /\ ~rebootCalled'
        /\ n > NodesBatchCount
    BY <1>2, <1>4, <1>10 DEF Popped, AskMore
  <2>2. BatchesLeft(rest)' = rest[n - NodesBatchCount]
    BY <1>5, <2>1 DEF BatchesLeft
  <2>3. CASE round.batches = 0
    <3>1. NodesBatchCount = 3 /\ n > 3
      BY <1>2, <1>5, <2>1, <2>3, Batch
    <3>2. rest[n - 3] \in Nat
      <4>1. n - 3 \in 0..MaxPeers
        BY <1>5, <3>1, PeersAssumption
      <4>2. rest \in [0..MaxPeers -> Nat]
        BY DEF Bounds
      <4> QED  BY <4>1, <4>2
    <3>3. BatchesLeft(rest) = rest[n - 3] + 1
      BY <2>3, <3>1, <3>2 DEF BatchesLeft, Batches
    <3>4. Work(rest, c, b)' = Times(rest[n - 3], b)
      BY <2>1, <2>2, <3>1 DEF Work, Times
    <3>5. /\ Times(rest[n - 3], b) \in Nat
          /\ Times(rest[n - 3] + 1, b) = Times(rest[n - 3], b) + b
      BY <3>2, TimesAdd
    <3> QED  BY <1>8, <3>3, <3>4, <3>5
  <2>4. CASE round.batches # 0
    <3>1. NodesBatchCount = Tenth(n)
      BY <1>5, <2>1, <2>4 DEF NodesBatchCount, Least, Tenth
    <3> DEFINE k == rest[n - Tenth(n)]
    <3>2. BatchesLeft(rest) >= 1 + k /\ k \in Nat
      BY <1>6, <2>4 DEF BatchesLeft
    <3>3. Work(rest, c, b)' = Times(k, b)
      BY <2>1, <2>2, <3>1 DEF Work, Times
    <3> HIDE DEF k
    <3>4. Times(k, b) \in Nat /\ Times(k + 1, b) = Times(k, b) + b
      BY <3>2, TimesAdd
    <3>5. Times(k + 1, b) <= Times(BatchesLeft(rest), b)
      BY <1>7, <3>2, TimesGrow
    <3>6. Times(BatchesLeft(rest), b) \in Nat
      BY <1>7, TimesAdd
    <3> QED  BY <1>8, <3>3, <3>4, <3>5, <3>6
  <2> QED  BY <2>3, <2>4
<1> QED  BY <1>4, <1>9, <1>10

\* Peers that cannot be reached do not reassure the node.
LEMMA Unanswered ==
    ASSUME CountsInRange, Asking, AskBatch, cluster = "cutOff"
    PROVE  asking' \/ rebootCalled'
<1>1. PICK r \in Responses :
        \/ /\ PeerSaysHealthy(r) \/ AssumeControlPlaneFailure(r)
           /\ round' = NewRound(0)
        \/ /\ PeerSaysUnhealthy(r) \/ AskMore(r) \/ AskedAllPeers(r)
           /\ round' = Popped(r)
  BY DEF AskBatch
<1>2. asking /\ round \in Round /\ round.nodesToAsk > 0
  BY DEF AskBatch, CountsInRange, Asking
<1>3. r["Healthy"] = 0 /\ r["Unhealthy"] = 0 /\ r["ApiError"] = 0
  BY <1>2, Answers
<1>4. AskMore(r) \/ AskedAllPeers(r)
  BY <1>1, <1>3 DEF PeerSaysHealthy, PeerSaysUnhealthy, AssumeControlPlaneFailure,
     ControlPlaneFailure
<1> QED  BY <1>2, <1>4, Zenon DEF AskMore, AskedAllPeers

\* While it is connected the node loses no more than ReactTime, and what is
\* left is enough.
LEMMA SafeIsEnough ==
    ASSUME NEW CONSTANT rest, NEW CONSTANT most, Bounds(rest, most), Enough(most),
           CountsInRange, Asking, hasWatchdog \in Watchdogs
    PROVE  /\ SafeTimeToAssumeNodeRebooted \in Nat /\ RebootTime \in Nat
           /\ ReactTime \in Nat /\ TimeLeft(rest) \in Nat
           /\ SafeTimeToAssumeNodeRebooted - ReactTime >= RebootTime + TimeLeft(rest)
<1>1. MinTimeToAssumeNodeRebooted = MinWait /\ MinWait \in Nat
  <2>1. (CheckInterval + ApiServerTimeout) * MaxErrorsThreshold \in Nat
    BY TimesAssumption, ThresholdAssumption
  <2> QED  BY <2>1, TimesAssumption DEF MinTimeToAssumeNodeRebooted, GetTimeout, MinWait
<1>2. SafeTimeToAssumeNodeRebooted = Wait /\ Wait \in Nat
  BY <1>1, TimesAssumption DEF SafeTimeToAssumeNodeRebooted, Wait
<1>3. RebootTime \in Nat /\ LongestReboot \in Nat /\ RebootTime <= LongestReboot
  <2>1. hasWatchdog => RebootTime = WatchdogTimeout /\ LongestReboot = WatchdogTimeout
    <3>1. hasWatchdog => TRUE \in Watchdogs
      BY WatchdogsAssumption, Zenon
    <3> QED  BY <3>1, Zenon DEF RebootTime, LongestReboot
  <2>2. ~hasWatchdog => RebootTime = 0
    BY Zenon DEF RebootTime
  <2>3. LongestReboot \in Nat /\ WatchdogTimeout \in Nat
    BY TimesAssumption DEF LongestReboot
  <2> QED  BY <2>1, <2>2, <2>3
<1>4. /\ TimeLeft(rest) \in Nat /\ MostWork(most, CheckCost, BatchCost) \in Nat
      /\ TimeLeft(rest) <= MostWork(most, CheckCost, BatchCost)
  BY Costs, WorkBounded DEF TimeLeft
<1> QED  BY <1>2, <1>3, <1>4, TimesAssumption DEF Enough

\* A step of the agent takes no longer than it brings the reboot nearer.
LEMMA Spending ==
    ASSUME NEW CONSTANT rest, NEW CONSTANT most, Bounds(rest, most), Enough(most),
           CountsInRange, Asking, Timely(rest),
           NEW t \in Nat, Takes(t), cluster' = cluster,
           cluster = "connected" => t = 0,
           Lost =>
             TimeLeft(rest)' \in Nat /\ TimeLeft(rest)' + t <= TimeLeft(rest)
    PROVE  Timely(rest)'
<1>1. /\ TimeLeft(rest) \in Nat /\ RebootTime \in Nat
      /\ SafeTimeToAssumeNodeRebooted \in Nat /\ ReactTime \in Nat
      /\ SafeTimeToAssumeNodeRebooted - ReactTime >= RebootTime + TimeLeft(rest)
  BY SafeIsEnough DEF Timely
<1>2. UNCHANGED <<hasWatchdog, fence, excused>> /\ left' = After(t)
  BY DEF Takes
<1>3. /\ UNCHANGED <<SafeTimeToAssumeNodeRebooted, RebootTime>>
      /\ Counting' = Counting
  BY <1>2 DEF SafeTimeToAssumeNodeRebooted, MinTimeToAssumeNodeRebooted, RebootTime, Counting
<1>4. CASE ~Counting
  BY <1>2, <1>3, <1>4 DEF Timely, After
<1>5. CASE Counting
  <2>1. left \in Nat /\ (cluster = "connected" \/ Lost) /\ Lost' = Lost
    BY <1>5 DEF Timely, CountsInRange, Codes, Lost
  <2>2. t <= left
    BY <1>1, <1>5, <2>1 DEF Timely
  <2>3. left' = left - t
    BY <1>2, <1>5, <2>1, <2>2 DEF After
  <2> QED  BY <1>1, <1>2, <1>3, <1>5, <2>1, <2>2, <2>3 DEF Timely
<1> QED  BY <1>4, <1>5

\* A step that nothing is counted after.
LEMMA NotCounting ==
    ASSUME NEW CONSTANT rest, left' \in Nat, ~Counting',
           hasWatchdog' \in Watchdogs, excused' \in BOOLEAN
    PROVE  Timely(rest)'
BY DEF Timely

\* The clock runs only while the workload does: going down freezes it.
LEMMA GoingDown ==
    ASSUME NEW CONSTANT rest, Timely(rest), GoesDown, Counting => left >= RebootTime
    PROVE  Timely(rest)'
<1>1. UNCHANGED <<hasWatchdog, excused>> /\ left' = After(RebootTime)
      /\ fence' = IF fence = "due" THEN "done" ELSE fence
  BY DEF GoesDown
<1>2. ~Counting'
  BY <1>1 DEF Counting
<1>3. left' \in Nat
  <2>1. RebootTime \in Nat
    BY TimesAssumption DEF RebootTime
  <2> QED  BY <1>1, <2>1 DEF Timely, After
<1> QED  BY <1>1, <1>2, <1>3, NotCounting DEF Timely

\* A step that is excused: nothing is counted any more.
LEMMA Excusing ==
    ASSUME NEW CONSTANT rest, Timely(rest), Excused
    PROVE  Timely(rest)'
<1>1. ~Counting' /\ left' \in Nat /\ UNCHANGED hasWatchdog
  BY DEF Excused, Counting, Timely
<1>2. excused' \in BOOLEAN
  BY Zenon DEF Excused
<1> QED  BY <1>1, <1>2, NotCounting DEF Timely

\* A node that lost the API server is never further from its reboot than from
\* the deadline, one that is connected always has the time to lose it.
LEMMA TimelyStep ==
    ASSUME NEW CONSTANT rest, NEW CONSTANT most, Bounds(rest, most), Enough(most),
           CountsInRange, Asking, Timely(rest), [FencingNext]_vars
    PROVE  Timely(rest)'
<1>0. /\ SafeTimeToAssumeNodeRebooted \in Nat /\ RebootTime \in Nat
      /\ ReactTime \in Nat /\ TimeLeft(rest) \in Nat /\ left \in Nat
      /\ SafeTimeToAssumeNodeRebooted - ReactTime >= RebootTime + TimeLeft(rest)
  BY SafeIsEnough DEF Timely
<1>1. CASE CheckSucceeds /\ Takes(0)
  BY <1>1, Spending DEF CheckSucceeds, Lost
<1>2. CASE ((ErrorIgnored /\ ~KnowsNoPeers) \/ AskPeers) /\ Takes(CheckTime)
  <2>1. UNCHANGED cluster /\ CheckTime \in Nat /\ (cluster = "connected" => CheckTime = 0)
    BY <1>2, TimesAssumption DEF ErrorIgnored, AskPeers, CheckTime, Lost
  <2>2. Lost => /\ TimeLeft(rest)' \in Nat
                /\ TimeLeft(rest)' + CheckTime <= TimeLeft(rest)
    BY <1>2, Costs, CostOfChecking DEF TimeLeft, CheckTime, CheckCost, KnowsNoPeers
  <2> QED  BY <1>2, <2>1, <2>2, Spending
<1>3. CASE AskBatch /\ ~Reassured /\ Takes(BatchTime)
  <2>1. /\ UNCHANGED cluster /\ BatchTime \in Nat /\ BatchTime <= BatchCost
        /\ cluster = "connected" => BatchTime = 0
    BY <1>3, TimesAssumption DEF AskBatch, BatchTime, BatchCost, Lost
  <2>2. Lost => TimeLeft(rest)' \in Nat /\ TimeLeft(rest)' + BatchCost <= TimeLeft(rest)
    BY <1>3, Costs, CostOfAsking DEF TimeLeft, Reassured
  <2>3. Lost => /\ TimeLeft(rest)' \in Nat
                /\ TimeLeft(rest)' + BatchTime <= TimeLeft(rest)
    BY <1>0, <2>1, <2>2, Costs
  <2> QED  BY <1>3, <2>1, <2>3, Spending
<1>4. CASE UpdatePeers /\ Takes(0)
  BY <1>4, Spending DEF UpdatePeers, Lost
<1>5. CASE Excused
  BY <1>5, Excusing
<1>6. CASE HostReboots
  <2>1. TimeLeft(rest) = 0
    BY <1>6 DEF HostReboots, TimeLeft, Work
  <2>2. Counting => left >= RebootTime
    BY <1>0, <2>1 DEF Timely, CountsInRange, Codes, Lost
  <2> QED  BY <1>6, <2>2, GoingDown DEF HostReboots
<1>7. CASE ReconcilerReboots
  <2>1. Counting => left >= RebootTime
    BY <1>0, <1>7 DEF Timely, ReconcilerReboots, SeesDeadline
  <2> QED  BY <1>7, <2>1, GoingDown DEF ReconcilerReboots
<1>8. ASSUME UNCHANGED <<agent, hasWatchdog>>
      PROVE  UNCHANGED <<SafeTimeToAssumeNodeRebooted, RebootTime, TimeLeft(rest)>>
  BY <1>8 DEF agent, SafeTimeToAssumeNodeRebooted, MinTimeToAssumeNodeRebooted, RebootTime,
     TimeLeft, Work, Times, BatchesLeft, ChecksLeft, Batches
<1>9. CASE SetDeadline
  <2>1. /\ UNCHANGED <<cluster, agent, hasWatchdog>> /\ cluster # "outage"
        /\ left' = SafeTimeToAssumeNodeRebooted
    BY <1>9 DEF SetDeadline
  <2>2. excused' \in BOOLEAN
    BY <1>9, Zenon DEF SetDeadline
  <2> QED  BY <1>0, <1>8, <2>1, <2>2 DEF Timely
<1>10. CASE Lag
  <2>1. /\ UNCHANGED <<cluster, agent, hasWatchdog, excused>> /\ cluster = "connected"
        /\ left > SafeTimeToAssumeNodeRebooted - ReactTime
        /\ left' = left - 1
    BY <1>10 DEF Lag
  <2> QED  BY <1>0, <1>8, <2>1 DEF Timely
<1>11. CASE Remediated
  <2>1. ~Counting' /\ left' = 0 /\ UNCHANGED hasWatchdog
    BY <1>11 DEF Remediated, Counting
  <2>2. excused' \in BOOLEAN
    BY <1>11, Zenon DEF Remediated
  <2> QED  BY <2>1, <2>2, NotCounting DEF Timely
<1>12. CASE \E what \in Losses : Lose(what)
  <2>1. UNCHANGED <<agent, hasWatchdog, fence, left, excused>>
        /\ cluster' \in {"apiLost", "cutOff"}
    BY <1>12, LossesAssumption DEF Lose, deadline
  <2>2. Counting' = Counting
    BY <2>1 DEF Counting
  <2>3. Counting => left >= RebootTime + TimeLeft(rest)
    BY <1>0 DEF Timely, CountsInRange, Codes, Lost
  <2> QED  BY <1>0, <1>8, <2>1, <2>2, <2>3 DEF Timely
<1>13. CASE UNCHANGED vars
  <2>1. UNCHANGED <<cluster, agent, hasWatchdog, fence, left, excused>>
    BY <1>13 DEF vars, deadline
  <2> QED  BY <1>8, <2>1 DEF Timely, Counting, Lost
<1> QED
  BY <1>1, <1>2, <1>3, <1>4, <1>5, <1>6, <1>7, <1>9, <1>10, <1>11, <1>12, <1>13, Steps
  DEF SoftwareRebootFails, ReconcilerRebootFails, Outage, Connected, Turn, AgentRestarts

-------------------------------------------------------------------------------

\* The account of the peers is an invariant.
LEMMA Accounted == Spec => [](CountsInRange /\ Asking)
<1>1. FencingInit => CountsInRange /\ Asking
  <2> SUFFICES ASSUME FencingInit
               PROVE  CountsInRange /\ Asking
    OBVIOUS
  <2> USE DEF FencingInit, Init, AgentInit
  <2>1. asking \in BOOLEAN /\ rebootCalled \in BOOLEAN
    BY Zenon
  <2>2. NewRound(0) \in Round
    BY NewRoundIsOne, PeersAssumption
  <2> QED  BY <2>1, <2>2, PeersAssumption, ThresholdAssumption DEF CountsInRange, Asking, Codes
<1>2. CountsInRange /\ Asking /\ [FencingNext]_vars => (CountsInRange /\ Asking)'
  BY CheckStep
<1> QED  BY <1>1, <1>2, PTL DEF Spec

\* The counters of handleError stay within the number of peers (popNodes).
THEOREM CountersBounded == Spec => []CountsInRange
BY Accounted, PTL

\* handleError loses no peer and asks none twice, however many there are.
THEOREM NobodyForgotten == Spec => []EveryPeerCounted
<1>1. CountsInRange /\ Asking => EveryPeerCounted
  BY DEF Asking, EveryPeerCounted
<1> QED  BY <1>1, Accounted, PTL

\* The errors that more than half of the peers report never add up to a
\* reboot, in whatever batches they come (handleError).
THEOREM NoRebootWithoutCause == Spec => RebootIsJustified
<1>1. ASSUME CountsInRange, Asking, FencingNext, ~rebootCalled, rebootCalled'
      PROVE  /\ errorCount = MaxErrorsThreshold
             /\ \/ round'.apiErrorsResponsesSum + round'.noResponseSum
                     + round'.nodesToAsk < round.nrAllNodes
                \/ /\ round'.nodesToAsk = 0
                   /\ 2 * round'.noResponseSum >= round.nrAllNodes
  <2>1. AskBatch
    BY <1>1, Steps DEF CheckSucceeds, ErrorIgnored, AskPeers, UpdatePeers, HostReboots,
       SoftwareRebootFails, ReconcilerReboots, ReconcilerRebootFails, SetDeadline, Lag,
       Remediated, Lose, Outage, Connected, Turn, AgentRestarts, GoesDown, Forgotten,
       RebootFails, agent
  <2>2. asking /\ errorCount = MaxErrorsThreshold /\ round \in Round /\ round.nodesToAsk > 0
    BY <1>1, <2>1 DEF AskBatch, Asking, CountsInRange
  <2>3. PICK r \in Responses :
          (PeerSaysUnhealthy(r) \/ AskedAllPeers(r)) /\ round' = Popped(r)
    BY <1>1, <2>1 DEF AskBatch, PeerSaysHealthy, AssumeControlPlaneFailure, AskMore
  <2>4. /\ r["Healthy"] \in Nat /\ r["Unhealthy"] \in Nat /\ r["ApiError"] \in Nat
        /\ r["RequestFailed"] \in Nat
    BY <2>2, Answers
  <2>5. /\ round' \in Round
        /\ round'.nodesToAsk + round'.apiErrorsResponsesSum + round'.noResponseSum
             = round.nrAllNodes - r["Healthy"] - r["Unhealthy"]
    BY <1>1, <2>2, <2>3, AfterBatch
  <2>6. /\ round'.nodesToAsk \in Nat /\ round'.apiErrorsResponsesSum \in Nat
        /\ round'.noResponseSum \in Nat /\ round.nrAllNodes \in Nat
        /\ round.apiErrorsResponsesSum \in Nat
    BY <2>2, <2>5, PeersAssumption DEF Round
  <2>7. CASE PeerSaysUnhealthy(r)
    BY <2>2, <2>4, <2>5, <2>6, <2>7 DEF PeerSaysUnhealthy
  <2>8. CASE AskedAllPeers(r)
    <3>1. /\ round'.nodesToAsk = round.nodesToAsk - NodesBatchCount
          /\ round'.apiErrorsResponsesSum = round.apiErrorsResponsesSum + r["ApiError"]
      BY <2>3 DEF Popped
    <3>2. round'.nodesToAsk = 0
      BY <2>2, <2>8, <3>1, Batch, PeersAssumption DEF AskedAllPeers, Round
    <3>3. round'.apiErrorsResponsesSum <= round.nrAllNodes \div 2
      BY <1>1, <2>2, <2>4, <2>6, <2>8, <3>1 DEF AskedAllPeers, ControlPlaneFailure, Asking
    <3>4. r["Healthy"] = 0 /\ r["Unhealthy"] = 0
      BY <2>8 DEF AskedAllPeers, NoVerdict
    <3> QED  BY <2>2, <2>5, <2>6, <3>2, <3>3, <3>4
  <2> QED  BY <2>3, <2>7, <2>8
<1>2. CountsInRange /\ Asking /\ [FencingNext]_vars
        => [~rebootCalled /\ rebootCalled'
              => /\ errorCount = MaxErrorsThreshold
                 /\ \/ round'.apiErrorsResponsesSum + round'.noResponseSum
                         + round'.nodesToAsk < round.nrAllNodes
                    \/ /\ round'.nodesToAsk = 0
                       /\ 2 * round'.noResponseSum >= round.nrAllNodes]_agent
  BY <1>1 DEF vars
<1> QED  BY <1>2, Accounted, PTL DEF Spec, RebootIsJustified

\* Whatever the times and the number of peers: if the time waited covers the
\* errors that have to be counted, the batches in which all peers are asked,
\* the watchdog's timeout and the time to react, then a node is not deleted
\* before its workload has stopped (initPoisonPillAgent).  The batches are
\* counted the way handleError takes them, three peers and then a tenth.
THEOREM FencedIfTimeIsEnough ==
    ASSUME NEW CONSTANT rest, NEW CONSTANT most, Bounds(rest, most), Enough(most)
    PROVE  Spec => []FencedInTime
<1>1. FencingInit => Timely(rest)
  <2> SUFFICES ASSUME FencingInit
               PROVE  Timely(rest)
    OBVIOUS
  <2>1. hasWatchdog \in Watchdogs
    BY DEF FencingInit
  <2>2. excused \in BOOLEAN
    BY Zenon DEF FencingInit
  <2>3. ~Counting /\ left \in Nat
    BY DEF FencingInit, Counting
  <2> QED  BY <2>1, <2>2, <2>3 DEF Timely
<1>2. CountsInRange /\ Asking /\ Timely(rest) /\ [FencingNext]_vars => Timely(rest)'
  BY TimelyStep
<1>3. Timely(rest) => FencedInTime
  BY DEF Timely, FencedInTime
<1> QED  BY <1>1, <1>2, <1>3, Accounted, PTL DEF Spec

\* Peers asked one by one after the first three: the bound that needs no count,
\* which is exact for up to 22 peers.
OneByOne == [n \in 0..MaxPeers |-> n]
MostOneByOne == IF MaxPeers > 3 THEN MaxPeers - 2 ELSE 1

\* Asking one by one takes the most batches.
LEMMA OneByOneBounds == Bounds(OneByOne, MostOneByOne)
<1> USE PeersAssumption
<1>1. OneByOne \in [0..MaxPeers -> Nat] /\ MostOneByOne \in Nat
  BY DEF OneByOne, MostOneByOne
<1>2. ASSUME NEW n \in 1..MaxPeers
      PROVE  OneByOne[n] >= 1 + OneByOne[n - Tenth(n)]
  <2>1. n \div 10 \in 0..n
    OBVIOUS
  <2>2. n - Tenth(n) \in 0..(n - 1)
    BY <2>1 DEF Tenth
  <2> QED  BY <2>2 DEF OneByOne
<1>3. ASSUME NEW n \in 0..MaxPeers
      PROVE  Batches(OneByOne, n) <= MostOneByOne
  BY DEF Batches, OneByOne, MostOneByOne
<1> QED  BY <1>1, <1>2, <1>3 DEF Bounds

\* The same for a time that covers a batch for each peer but two.
COROLLARY FencedOneByOne == Enough(MostOneByOne) => (Spec => []FencedInTime)
BY OneByOneBounds, FencedIfTimeIsEnough

\* Up to 13 peers, the minimum that initPoisonPillAgent works out is enough by
\* itself, whatever is configured, if what it adds for safety covers the time
\* to react and the reboot: which is the software reboot, if the watchdog's
\* timeout, that it means to add, is not to be taken from it.
THEOREM MinimumIsEnough ==
    MaxPeers <= 13 /\ ReactTime + LongestReboot <= Buffer => (Spec => []FencedInTime)
<1> SUFFICES ASSUME MaxPeers <= 13, ReactTime + LongestReboot <= Buffer
             PROVE  Enough(MostOneByOne)
  BY FencedOneByOne
<1>1. /\ CheckCost \in Nat /\ BatchCost \in Nat /\ Buffer \in Nat /\ ReactTime \in Nat
      /\ LongestReboot \in Nat /\ TimeToAssumeNodeRebooted \in Nat
      /\ MaxErrorsThreshold \in Nat
  BY Costs, TimesAssumption, ThresholdAssumption DEF LongestReboot
<1>2. MostOneByOne \in Nat /\ MostOneByOne <= 11
  BY PeersAssumption DEF MostOneByOne
<1>3. Times(MostOneByOne, BatchCost) <= Times(11, BatchCost)
  BY <1>1, <1>2, TimesGrow
<1>4. Times(MaxErrorsThreshold, CheckCost) = CheckCost * MaxErrorsThreshold
  BY <1>1 DEF Times
<1>5. /\ Times(MaxErrorsThreshold, CheckCost) \in Nat /\ Times(11, BatchCost) \in Nat
      /\ Times(MostOneByOne, BatchCost) \in Nat
  BY <1>1, <1>2, TimesAdd
<1>6. MinWait = Times(MaxErrorsThreshold, CheckCost) + Times(11, BatchCost) + Buffer
  BY <1>4 DEF MinWait, Times, CheckCost, BatchCost
<1>7. MinWait \in Nat /\ Wait \in Nat /\ Wait >= MinWait
  BY <1>1, <1>5, <1>6 DEF Wait
<1> QED  BY <1>1, <1>3, <1>5, <1>6, <1>7 DEF Enough, MostWork

-------------------------------------------------------------------------------
(***************************************************************************)
(* Why CutOffNodeReboots holds: the steps to the reboot are numbered.      *)
(***************************************************************************)
StepsToReboot == Work(OneByOne, 1, 1)

\* As long as a node that knows peers stays cut off and is not rebooting,
\* nothing takes it further from asking for its reboot, and every step of its
\* check brings it nearer; there are finitely many, and after the last one the
\* reboot has been asked for (Start, handleError).
CheckNearsReboot ==
    [][cluster = "cutOff" /\ cluster' = "cutOff" /\ peers # 0 /\ peers' # 0 /\ ~rebootCalled
         => /\ StepsToReboot \in Nat \ {0} /\ StepsToReboot' \in Nat
            /\ StepsToReboot' <= StepsToReboot
            /\ Check => StepsToReboot' < StepsToReboot]_vars

\* The check of a node that is cut off neither stops nor starts again, for any
\* number of peers and any threshold.
THEOREM CheckEnds == Spec => CheckNearsReboot
<1>1. ASSUME CountsInRange, Asking, FencingNext, cluster = "cutOff", cluster' = "cutOff",
             peers # 0, peers' # 0, ~rebootCalled
      PROVE  /\ StepsToReboot \in Nat \ {0} /\ StepsToReboot' \in Nat
             /\ StepsToReboot' <= StepsToReboot
             /\ Check => StepsToReboot' < StepsToReboot
  <2>1. StepsToReboot \in Nat
    BY <1>1, OneByOneBounds, WorkBounded DEF StepsToReboot
  <2>2. ASSUME Check
        PROVE  StepsToReboot' \in Nat /\ StepsToReboot' + 1 <= StepsToReboot
    <3>1. CASE (ErrorIgnored /\ ~KnowsNoPeers) \/ AskPeers
      BY <1>1, <3>1, OneByOneBounds, CostOfChecking DEF StepsToReboot, KnowsNoPeers
    <3>2. CASE AskBatch
      BY <1>1, <3>2, OneByOneBounds, CostOfAsking, Unanswered DEF StepsToReboot
    <3>3. ~CheckSucceeds /\ ~KnowsNoPeers
      BY <1>1 DEF CheckSucceeds, KnowsNoPeers
    <3> QED  BY <2>2, <3>1, <3>2, <3>3 DEF Check
  <2>3. ASSUME ~Check
        PROVE  StepsToReboot' = StepsToReboot
    <3>1. UNCHANGED agent
      BY <1>1, <2>3 DEF FencingNext, UpdatePeers, HostReboots, SoftwareRebootFails,
         RebootFails, ReconcilerReboots, SeesDeadline, ReconcilerRebootFails, SetDeadline,
         Lag, Remediated, Lose, Outage, Connected, Turn, AgentRestarts, Forgotten
    <3> QED  BY <3>1 DEF agent, StepsToReboot, Work, Times, BatchesLeft, ChecksLeft, Batches
  <2>4. StepsToReboot # 0
    <3>1. Batches(OneByOne, peers) >= 1 /\ Batches(OneByOne, peers) \in Nat
      BY <1>1, OneByOneBounds, BatchesBounded DEF CountsInRange
    <3>2. asking => BatchesLeft(OneByOne) >= 1 /\ BatchesLeft(OneByOne) \in Nat
      <4>1. asking => round.nodesToAsk \in 1..MaxPeers
        BY <1>1, PeersAssumption DEF CountsInRange, Asking, Round
      <4>2. asking => /\ OneByOne[round.nodesToAsk] = round.nodesToAsk
                      /\ Batches(OneByOne, round.nodesToAsk) \in Nat
                      /\ Batches(OneByOne, round.nodesToAsk) >= 1
        BY <4>1, OneByOneBounds, BatchesBounded, PeersAssumption DEF OneByOne
      <4> QED  BY <4>1, <4>2, PeersAssumption DEF BatchesLeft
    <3>3. ChecksLeft \in Nat
      BY <1>1, ThresholdAssumption DEF CountsInRange, ChecksLeft
    <3> QED  BY <1>1, <3>1, <3>2, <3>3 DEF StepsToReboot, Work, Times
  <2> QED  BY <2>1, <2>2, <2>3, <2>4
<1>2. CountsInRange /\ Asking /\ [FencingNext]_vars
        => [cluster = "cutOff" /\ cluster' = "cutOff" /\ peers # 0 /\ peers' # 0
              /\ ~rebootCalled
              => /\ StepsToReboot \in Nat \ {0} /\ StepsToReboot' \in Nat
                 /\ StepsToReboot' <= StepsToReboot
                 /\ Check => StepsToReboot' < StepsToReboot]_vars
  BY <1>1
<1> QED  BY <1>2, Accounted, PTL DEF Spec, CheckNearsReboot
===============================================================================
