# Poison pill: TLA+ models and proofs

Poison pill repairs nodes of a Kubernetes cluster. A health check operator
reports a node by creating a PoisonPillRemediation (PPR). The node's own agent
makes it reboot, or the node finds out by itself that it is cut off and reboots.
The other agents wait until they may assume that it has rebooted, delete the Node
object so that its workload is started elsewhere, and restore the object. The
whole point is that a node is never deleted while it may still be running
workload, and that it does come back.

## The system

| part | state | operations | hard behaviour |
|---|---|---|---|
| PPR reconciler, one per node (`controllers/poisonpillremediation_controller.go`) | PPR and Node in the API server, a cache and a work queue per agent | `Reconcile` and its helpers | all agents compete on the same objects with stale caches; agents restart; requests are dropped on some paths |
| watchdog (`pkg/watchdog`) | `isStarted`, `isStopped`, `stop`, the device | `Start`, feeding goroutine, `Stop` | feeding, stopping, disarming and pod restarts interleave |
| rebooter (`pkg/reboot`) | none | `Reboot` | called by two goroutines |
| API connectivity check (`pkg/apicheck`) | `errorCount` | periodic check, `handleError` | asks peers in batches while the cluster changes |
| peers (`pkg/peers`) | list of addresses | `Start`, `updatePeers`, `GetPeersAddresses` | list is as old as the last contact |
| peer health server (`pkg/peerhealth`) | `lastSeenPprNamespace`, `wasLastSeenPprMachine` | `Start`, `IsHealthy` | flags set by the reconciler in several critical sections |
| safe time (`main.go`) | constant | `initPoisonPillAgent` | must cover the slowest reboot |
| agent process (`main.go`) | what runs in it | `main`, `initPoisonPillAgent` | a part fails, or the process ends, while another part is starting |
| manager: configuration reconciler (`controllers/poisonpillconfig_controller.go`), certificate storage (`pkg/certificates/storage.go`), `pkg/apply` | PoisonPillConfig, Secret, DaemonSet | `initPoisonPillManager`, `Reconcile`, `GetCerts`, `StoreCerts`, `ApplyObject` | failures between several calls, several managers, foreign writers, garbage collection |

The reconciler and the API check call the rebooter, the rebooter stops the
watchdog. The API check of one node asks the peer health servers of others, which
look at what their reconcilers saw last and at the API server. The safe time is
what ties them together: it is computed on every node, and it is the promise the
deletion in the reconciler relies on. The manager installs the DaemonSet that runs
the agents and hands it the configured safe time, and stores the certificates by
which agents trust each other.

## Modules

**NodeRemediation** is the abstract specification: what the agents together promise
about one node and the reports on it. A report is claimed, the node cordoned,
backed up and given a deadline in one go, removed after the deadline, restored, and
only then is the report let go of. There are no agents, caches, queues, Machines or
finalizers in it.

**Remediation** models `Reconcile` for any set of agents. The API server holds one
Node and one PPR (and the Machine that may own the PPR); a new incarnation gets a
new `uid`. Each agent has its own copy of each object, brought up to date by
`SyncNode`, `SyncPpr` and `SyncMachine` independently and at any time. A reconcile
makes at most one write, so one action per branch is enough: what happens between
its reads and its write is what a cache that lags shows anyway. An `Update`
carries a resourceVersion and is refused when the object has changed (`UpdatePpr`,
`UpdateNode`); `Delete` and `Create` carry none. `queue[a]` says whether a request
is pending: `Result{}` drops it, everything else keeps it. All waits, errors and
conflicts are the action `Requeue`, which changes nothing. Only PPR events queue a
request, as in `SetupWithManager`; `Resync` is the informers' periodic resync.
`Restart` is the restart of an agent's pod. A cache skips intermediate versions
of an object, as each read sees only the latest one delivered. The clock stands still when no comparison
with it can change any more (`TimeMatters`), which keeps the state space finite
without bounding the runs.

Remediation implements NodeRemediation (`ImplementsNodeRemediation`) under this mapping:

| NodeRemediation | Remediation |
|---|---|
| `reportedAt`, `deadline` | creation time and `timeAssumedRebooted` of the PPR |
| `claimed` | the PPR has our finalizer |
| `backedUp` | the PPR holds a node backup |
| `incarnation`, `createdAt` | `uid` and creation time of the node |
| `present` | the node exists and is not being deleted |
| `cordoned` | it is present, unschedulable, and has the taint of the node lifecycle controller |

The one step out of turn that NodeRemediation has to allow is `RemoveSuccessor`:
`Delete` goes by name, so that an agent may remove the node that has taken the
place of the one in its cache (run `stale_delete`).

**Watchdog** models `synchronizedWatchdog` over the linux device, and `Reboot`.
Everything done under `swd.mutex` is one action. Outside of it are the assignment
of `swd.stop` (`StartFeeding`), the feeding goroutine between looking at its
context and getting the mutex (`FeedEnter`, `Feed`), and the two steps of `Reboot`
(`RebootChecks`, then `Stop` or `SoftwareReboot`). Opening, feeding and disarming
the device may fail as the code allows.

**Agent** puts the watchdog into the process it runs in. The manager of
controller-runtime (external) starts what `initPoisonPillAgent` has added once its
caches have synced: the watchdog, the list of peers and the peer health server; the
callers of `Reboot` run from then on too. `Start` of peers and of the server may fail
as the code allows, and the server may fail later. The manager stops for a signal or
for an error, cancels the context of all, waits for them, and `main` returns; or the
process is killed, or panics. The device goes on counting without it. `mishap` is a
history variable that remembers whether the process was killed or could not disarm.

**ApiCheck** models the check of one node. Answers only count by kind, so a batch is
a function from response codes to numbers. What can be answered depends on
`cluster`: connected, an outage of the control plane, the node alone without API
server (`apiLost`: peers may answer anything), or cut off from everything; it may
change between any two steps.

**Fencing** composes ApiCheck with the deadline of NodeRemediation, the reboot through
watchdog or software, and the reconciler on the sick node, on one clock: `left`, the
time until the deadline. A check or a batch takes the longest it can while the
node has lost the API server: a batch takes a dial and a request timeout while peers
can be reached, and a dial timeout once nobody can (`dialled` marks the batch in
whose middle that happens). `SafeTimeToAssumeNodeRebooted` is the formula of
`initPoisonPillAgent`; its `GetTimeout` is 0 because the watchdog has not been
started when it is called. `excused` marks what the code has no answer to: after
the deadline was set, an outage of the control plane, connectivity that comes and
goes, peers that reassure a node without API server (`Reassured`), a software reboot
that fails, an agent that is restarted, a node cut off before it has learnt of any
peer. Nothing is claimed of the deadline then, so that these are described by the
model and not ruled out by the property.

**PeerHealth** models one server and the reconciler of the same process, at the
granularity of their critical sections and API calls. PPRs, nodes and machine
annotations come and go in between; the machine that a node runs on stays the same.

**Config** models managers call by call: each API call of `Reconcile`,
`newConfigIfNotExist` and `newDefaultTemplateIfNotExist` is an action, which may
fail, or take effect and have its answer lost. Configurations and the Secret are
read from caches, the DaemonSet (an unstructured object) from the API server. A create is refused when
the object exists, an update when it has changed since it was read (`fresh`).
`ApplyObject` may skip an update that would change nothing (`NothingToUpdate`), or
make it all the same: whether `DeepEqual` finds the objects equal depends on fields
that the model leaves out.
A change of the DaemonSet queues the configurations that own it and owned it, at
once; `Resync` stands for late events too. The DaemonSet consists of what
distinguishes writers: its settings, owner, labels and finalizer. Leader election
is optional and its leases may overlap, so that managers are not taken to exclude
each other.

**Merge** is `MergeObjectForUpdate` with its branches for every kind of object, as
operators. Config uses them on DaemonSets, the only kind in the install folder; the
other kinds are checked over the objects of `MCConfig`.

`MCRemediation` and `MCConfig` give constants their values for TLC; the modules
whose names end in `Proofs`, and `RemediationRefinement`, hold theorems only.

Definitions called a faulty variant are alternatives to the definition that
follows them. They are not part of any specification: each is a plausible mistake
that the named property must detect when it takes that definition's place.

## What the runs show

| run | instance | result |
|---|---|---|
| `remediation` | 2 agents, 2 PPRs, 2 incarnations of the node | safety and refinement hold |
| `remediation_owned` | 1 agent, Machine, foreign finalizers, 3 incarnations | safety and refinement hold |
| `remediation_live` | 2 agents, the one on the sick node not fair | a remediation completes; with resync, the finalizer comes off |
| `stale_delete` | as `remediation`, 1 PPR | **violated**: a restored node is deleted |
| `machine_gone` | Machine deleted | **violated**: the finalizer stays |
| `agent` | timeout 8, lag 1, 1 failed feed, 2 callers of `Reboot` | hold |
| `watchdog_nil_stop` | same | **violated**: nil `swd.stop` is called |
| `fencing` | up to 13 peers, loss of the API server alone or of peers too, units of 5 s, the code's constants, 240 s configured, watchdog of 60 s or none | hold |
| `safe_time` | 15 peers, node cut off, 180 s configured, watchdog of 60 s | **violated**: deleted too early, for two reasons |
| `peerhealth` | 2 nodes, one kind of PPR, one namespace | hold |
| `peerhealth_mixed` | both kinds of PPR | **violated**: Healthy for a reported node |
| `config` | 2 managers, 2 configurations, 1 change by users, 1 fault | hold |

The main properties:

- `ImplementsNodeRemediation`: whatever the caches say and whoever acts, each write
  to node or PPR is a step of the abstract remediation that is due.
- `DeletionIsSafe`: an agent that deletes the node it decided about does so
  cordoned, backed up, and after the deadline *in the API server*, whatever its
  caches say. It rests on `DeadlineStoredOnce` and `CachedDeadlineIsCurrent`.
- `BackupComesWithDeadline`: a backup is never that of a node that was not cordoned,
  and never comes without a deadline or with that of an earlier PPR, also not in a
  cache: what is waited for is the deadline of this PPR, and what is restored was
  cordoned, whichever agent does it.
- `BackupKeptUntilRestored`, `FinalizerHeldUntilRestored`: from the deadline on,
  nothing loses what the node is restored from before a newer node exists.
- `DeletedNodeIsRecoverable` says the same from the node's side: while the first
  node is gone, finalizer, backup and a deadline that has passed are stored.
- `RestoredNodeLostToStaleCache`: a node created after the report is only ever
  deleted by an agent whose cache has an earlier one. It is what remains of
  `RestoredNodeIsLeftAlone`, which is violated (run `stale_delete`).
- `RemediationCompletes`: peers get it done without the sick node's help.
- `PprReleased` needs the resync: two paths of `handleDeletedNode` and
  `restoreNode` drop the request while the finalizer is on, and no event follows.
- `StopIsFinal`, `StopLeadsToReboot`, `RebootCarriedOut`, `FedInTime`: a watchdog
  in use does not fire; one that was stopped is left alone and fires. A new process
  that takes the device over first is excused: nothing in the code prevents it, and
  the properties show that it is the only way for the reboot not to happen.
- `RebootReturnsStopped`: a `Reboot` that went for the watchdog does not return while
  it is being fed, although it looks at `IsStarted` in another critical section. A
  watchdog that the end of `Start` has disarmed meanwhile counts as stopped, too;
  that the host does reboot is what `RebootCarriedOut` says.
- `EndedAgentDisarms`, `FailedRunnableEndsAgent`: an agent whose peers or server
  fail ends, and an agent that ends in order at any point of `Start` does not leave
  a device behind that reboots the host unasked.
- `FencedInTime` is the heart of the matter: when the other agents delete the node,
  its workload has stopped. Whether the node hears of the deadline, loses the API
  server before, or is cut off, and whatever its check was doing then, it has
  rebooted by then. It says nothing once `excused` is set.
- `RebootIsJustified`, `CutOffNodeReboots`, `EveryPeerCounted`, `CountsInRange`: the
  node reboots for a reason, after asking everybody once, and does so in the end when
  it is cut off and knows of peers, even if software reboots fail. A node that knows
  of none, as after a restart of its agent, does not reboot, and nothing is claimed.
- `ReconciledPprIsAnswered`, `UnhealthyIsReported`: a peer's answers are right as
  far as it has reconciled the PPR.

- `AgentsShareCerts`, `CertsBeforeDaemonSet`: whoever makes certificates, the agents
  find some, and all the same. This takes it that nobody deletes the Secret.
- `ForeignMetadataKept`: no update by a manager loses what others wrote.
- `MergeSettles`: merging keeps what the cluster set and takes what was rendered, and
  a second merge finds nothing to change, so that updates do not cause updates. This
  is about the merge; `DeepEqual` also compares what the API server fills in.
- `DaemonSetConverges`: with the default configuration only, that and its
  DaemonSet come back after any change or fault. Two limits became apparent. A
  deletion that falls between `newConfigIfNotExist` and the first listing of the
  informers is noticed by nobody (`unseen`). And two configurations in a namespace
  take the DaemonSet from each other without end, or leave none behind.

### Disagreements with comments and tests

1. `stale_delete`: `Delete` has no precondition. An agent whose cache still has
   the old node deletes the restored one, which is meant to be left alone.
2. `machine_gone`: a Machine that is not found is taken for a node that is not
   found; the finalizer is never removed.
3. `watchdog_nil_stop`: `swd.stop` is assigned after the unlock.
4. `safe_time`: the watchdog's timeout enters the safe time as 0. With the
   code's constants the minimum is 60 + 110 + 0 + 15 = 185 s. A node with 15 peers
   that is cut off up to 10 s after the deadline was set (`ReactTime`) needs
   10 + 60 + 65 s to ask them in vain, and the watchdog then takes its 60 s: 195 s.
   The shipped configuration's 180 s are below the minimum and do not help. If peers
   accept connections and answer too late, a batch takes 10 s instead of 5, and
   10 + 60 + 110 + 60 = 240 s are needed for 13 peers.
5. `safe_time`, again: after the first three, peers are asked by a tenth of those
   *left*. 15 peers take 13 batches, where 11 were allowed for; with 11 the cut-off
   node would be in time, at 185 s. 30 peers take 24 batches: 10 + 60 + 120 s exceed
   185 s without any watchdog.
6. `peerhealth_mixed`: `wasLastSeenPprMachine` is never reset.

### Bounds

Two agents show every competition of one agent with another; the sick node's own
agent is one of them. `DeletionIsSafe`, `DeadlineStoredOnce`,
`FinalizerHeldUntilRestored` and `RestoredNodeLostToStaleCache` are model-checked with one agent only; for several
they rest on the proofs, which hold for any set of agents. Two PPRs and two incarnations are needed for the confusion
of objects of the same name, three incarnations for a restored node that is
remediated again. A safe time of one second separates before and after. 13 peers
is the largest number for which the code's eleven batches suffice, and the 240 s
configured in `fencing` are exactly what the proof below asks for. 0, 1 and 4 peers
add no peers, a first batch that is not full, and one peer after it. The watchdog's
timeout of 8 with a lag of 1 satisfies `LagAssumption` for one failed feed.
Symmetry is not used: the agents are not alike, and runs with liveness do not
admit it. Run `remediation` has a view that leaves `rebooting` out: it is set
and reset, but no guard, no other variable and no property of the run reads it. In Config, two managers race for every create and update; one
configuration is created by a manager and one more by a user, or by a manager
after a deletion (`MaxConfigs`); one change and one fault hit any point of both
reconciles. The user's specification leaves the safe time at 0, so that its default
shows. The run does not look for deadlock, because after an unseen
deletion nothing is left to do.

### Fairness

`FairSpec` of Remediation assumes of the informers that they deliver, of agents on
healthy nodes that they work off their queues, of the node lifecycle controller and
of owners of foreign finalizers that they act, and that time passes. Marking the
node competes with the kubelet's status reports and is retried after every
conflict, so it is strongly fair. Nothing is assumed of the sick node's
reconciler, of the health check operator or of the kubelet. `ResyncFairness`, a premise of
`PprReleased`, adds the resync of the informers (every ten hours unless configured,
which it is not). In
Agent, goroutines of a live process run, the manager stops when a runnable has
failed, `main` returns, and the device fires; nobody has to call `Reboot`, and neither
caches nor restarts are assumed. In Fencing, the periodic check goes on, and a reboot
asked for again and again happens at some point (strong fairness: a software reboot
may fail any number of times, not for ever). In
Config, managers work off their queues, configurations reach their caches, garbage is collected and finalizers are
released; neither resync nor the Secret's cache is relied on.

## Proofs

All of them are for every value of the constants that satisfies the assumptions of
the modules: any number of agents, peers, managers, nodes, PPRs, changes and faults.

**RemediationProofs**: `BackupWithDeadline`, `BackupKept`, `DeadlineCurrent`,
`SafeDeletion`, `StoredOnce`, `FinalizerHeld` and `OnlyStaleCachesDelete`
(`RestoredNodeLostToStaleCache`). They rest on the inductive
invariant `IInv` of Remediation. `BackupKeptUntilRestored` alone is
not inductive: an agent writes what its cache holds. So `IInv` adds that a cache
which is not behind equals the object (`CachedPprLagsBehind`), that a cached node is an
earlier version or an earlier incarnation, whose cordon is never taken back
(`CachedNodeLagsBehind`), that a backup comes with its deadline everywhere, and that a cached deadline, unless a newer node exists, is the stored one
(`CachedDeadlineIsCurrent`). The lemmas `WritePprInv` and `WriteNodeInv`
say once what a write must satisfy to keep `IInv`; `ReconcileInv`,
`AgentInv` and `ClusterInv` go through the actions.

**RemediationRefinement**: `Implementation`. Init maps to Init; `StepSimulation`
maps every step, given `IInv` before and after, to a step of NodeRemediation or to a
stutter, with one lemma for each group of writes. `Recovery`
(`DeletedNodeIsRecoverable`) is shown of NodeRemediation, where `Recoverable` is
nearly inductive, and holds of Remediation because that implements it.

**AgentProofs**: `TypeCorrect`, `NoStrayReboot` (`FedInTime`), `NeverTouchedAgain`
(`StopIsFinal`), `NothingLeftArmed` (`EndedAgentDisarms`), `StopTakesEffect`
(`RebootReturnsStopped`), and `NilStopWindow`: `Stop` finds a nil `swd.stop` (run
`watchdog_nil_stop`) only between `Start`'s unlock and its assignment. The invariant
says which states of `Start`, feeding goroutine and flags go together (`Control`) and
what `Stop` finds when it is called (`Calls`), bounds the
age of the device by failed feeds and the time since the goroutine ran (`Timing`),
and says who answers for an armed device (`Ending`). The one assumption is
`LagAssumption`: failed feeds and late goroutines fit into the timeout.

**FencingProofs**: `CountersBounded`, `NobodyForgotten`, `NoRebootWithoutCause`, and
`FencedIfTimeIsEnough`. That one has a hypothesis, `Enough`: the time that is waited
(what is configured, or the minimum of `initPoisonPillAgent` if that is more) covers
`ReactTime`, the checks up to the threshold, the batches, and the watchdog. How many
batches there are is a parameter: any function that satisfies the recurrence of
`Bounds`, a tenth of those left, at least one. The exact count is one such function
(37 batches for 100 peers); its closed form would take induction. One batch for each
peer after the first three is another, and needs none: `FencedOneByOne`, exact up to
22 peers. `MinimumIsEnough` follows: up to 13 peers, the code's own minimum suffices
whatever is configured, as long as its buffer covers `ReactTime` and the watchdog's
timeout; with the code's constants that is so on hosts without a watchdog. Points
4 and 5 above are why neither condition can be dropped. The invariant `Timely`
compares the time left with the `Work` still to do by a node that has lost the API
server, at the longest a batch can take; each check or batch spends no more than it
takes off the work. The same `Work`, counting
steps instead of time, is the ranking of `CheckEnds`: while a node stays cut off,
every step of its check brings its reboot nearer, and nothing else delays it. This is
the safety half of `CutOffNodeReboots`.

**ConfigProofs**: `TypeCorrect`, `SameCerts`, `CertsFirst` and `NothingForeignLost`
(`ForeignMetadataKept`). The Secret is written once, so what
was derived from it lasts: agents hold what it holds, a manager past `syncCerts`, or
with the Secret in its cache, is right that it exists. Foreign metadata survive because
an update is refused unless its copy is current, and merging keeps what the copy has
(lemmas of MergeProofs). `UpdatesSettle` follows from
`MergeIsSound`.

**MergeProofs**: `MergeIsSound`, for any two objects, from lemmas on writing one function
over another.

**PeerHealthProofs**: `ReconciledIsAnswered`, and with it `LastSeenIsAnswered`
(`LastSeenPprIsAnswered`, which run `peerhealth_mixed` violates), under the hypothesis
`Uniform`: one kind of PPR, one namespace. `MachinesAreAnswered` needs one namespace
only: with kinds mixed, too, no machine based PPR is overlooked, because the flag that
is never reset errs on that side. `NoFalseAlarm` needs neither. The invariant says what
a request has read at each of its places.

Only model-checked: the liveness properties, which need fairness and `ENABLED`, and the
number of batches for a given number of peers, which needs induction. The violations
are runs by nature; where a theorem says how far they reach, it is named above.

## Not modelled

- Rendering of manifests (`pkg/render`) turns files into text and text into objects;
  there is no state or order in it that a property could be about.
- What is in certificates, TLS credentials and gRPC connections is up to libraries;
  the models know which certificates are made and used, and whether a request was
  answered.
- Flags, probes and errors of registration in `main` end the process before anything
  runs. An empty node name is only logged there.
- Answers with a code that no server sends (the `default` of `sumPeersResponses`), and
  the address that `popNodes` leaves empty for a peer without one, which is then asked
  in vain, or is the node's own server.
- Which addresses a peer has. `GetPeersAddresses` says it makes a deep copy and shares
  the inner slices; nobody writes to them.
- API types and generated code are declarations.
