------------------------------- MODULE Config -------------------------------
(***************************************************************************)
(* The manager: it makes sure that a PoisonPillConfig exists, that the     *)
(* Secret with the certificates of the agents exists, and that the         *)
(* DaemonSet that runs the agents is what the configuration says           *)
(* (controllers/poisonpillconfig_controller.go, pkg/certificates,          *)
(* pkg/apply, initPoisonPillManager in main.go).                           *)
(*                                                                         *)
(* Several manager processes may be at work, since the leader election is  *)
(* optional (main.go:81); each reconciles one request at a time.  Typed    *)
(* objects (configurations, the Secret) are read from an informer cache    *)
(* that lags behind; the DaemonSet is read as an unstructured object,      *)
(* which bypasses the cache.  All objects are in one namespace.            *)
(***************************************************************************)
EXTENDS Merge, Naturals

CONSTANTS
    Managers,      \* manager processes
    Names,         \* names of configurations
    Specs,         \* specifications a user may give: [path, time]
    MaxConfigs,    \* bound: configurations ever created
    MaxChanges,    \* bound: changes by users, to configurations and DaemonSet
    MaxFaults      \* bound: failing API calls, lost answers, restarted managers

DefaultName == "poison-pill-config"
DefaultSpec == [path |-> "/dev/watchdog1", time |-> 180]
Absent == [absent |-> TRUE]

ASSUME ConfigAssumption ==
    /\ DefaultName \in Names
    /\ \A s \in Specs : DOMAIN s = {"path", "time"}
    /\ {MaxConfigs, MaxChanges, MaxFaults} \subseteq Nat

VARIABLES
    config,    \* configurations in the API server, by name
    secret,    \* certificates in the Secret, or Absent
    ds,        \* the DaemonSet, or Absent
    template,  \* whether the default remediation template exists
    pc,        \* where each manager is
    req,       \* name of the configuration a manager reconciles
    cr,        \* the configuration it has read
    existing,  \* the DaemonSet it has read
    fresh,     \* managers whose copy of it is up to date (resourceVersion)
    queue,     \* requests queued in each manager
    cache,     \* each manager's cache of the configurations
    secretCache, \* each manager's cache of the Secret
    inUse,     \* certificates that running agents keep in memory
    unseen,    \* whether a configuration was deleted that no manager watched
    created, changes, faults  \* counters for the bounds

store == <<config, secret, ds, template>>
process == <<pc, req, cr, existing, queue>>
caches == <<cache, secretCache>>
counters == <<created, changes, faults>>
vars == <<store, process, fresh, caches, inUse, unseen, counters>>

-----------------------------------------------------------------------------
(* Data.                                                                   *)

Certs == [cert : 1 .. 3]
Uids == 1 .. MaxConfigs
Keys == {"k8s-app", "team"}
Values == {"poison-pill", "foreign"}
AllSpecs == Specs \cup {DefaultSpec}
Configs == [spec : AllSpecs, uid : Uids]

\* CreateCerts: a key pair that nobody has yet.
NewCert == CHOOSE c \in Certs : c \notin inUse \cup {secret}

\* Faulty variant: the specification as it is.
EffectiveAsIs(spec) == spec

\* What the agents get to see of a specification, with the defaults filled in.
Effective(spec) ==
    [path |-> IF spec.path = "" THEN DefaultSpec.path ELSE spec.path,
     time |-> IF spec.time = 0 THEN DefaultSpec.time ELSE spec.time]

NoAnnotations == [a \in {} |-> ""]

DaemonSet ==
    [kind : {"DaemonSet"},
     annotations : {NoAnnotations},
     labels : UNION {[K -> Values] : K \in SUBSET Keys},
     fields : [path : {s.path : s \in AllSpecs} \ {""},
               time : {s.time : s \in AllSpecs} \ {0},
               owner : [name : Names, uid : Uids]],
     meta : [finalizer : BOOLEAN, deleting : BOOLEAN]]

\* The object RenderDir makes from the install folder, with its owner.
Rendered(n, c) ==
    [kind |-> "DaemonSet",
     annotations |-> NoAnnotations,
     labels |-> [k \in {"k8s-app"} |-> "poison-pill"],
     fields |-> [path |-> Effective(c.spec).path, time |-> Effective(c.spec).time,
                 owner |-> [name |-> n, uid |-> c.uid]],
     meta |-> [finalizer |-> FALSE, deleting |-> FALSE]]

-----------------------------------------------------------------------------
(* The API server.                                                         *)

CreateConfig(n, spec) ==
    /\ created < MaxConfigs
    /\ config' = [config EXCEPT ![n] = [spec |-> spec, uid |-> created + 1]]
    /\ created' = created + 1

\* The informers and the controller of a manager run.
Running(m) == pc[m] \notin {"starting", "template"}

\* The DaemonSet changes, by whatever hand: copies read before are out of date,
\* and the watch queues the configurations that own it and that owned it.
OwnerNames(d) == IF d = Absent THEN {} ELSE {d.fields.owner.name}

WriteDs(d, q, done) ==
    /\ ds' = d
    /\ fresh' = IF d = ds THEN fresh \ done ELSE {}
    /\ queue' = [m \in Managers |->
                    IF d = ds \/ ~Running(m) THEN q[m]
                    ELSE q[m] \cup OwnerNames(ds) \cup OwnerNames(d)]

-----------------------------------------------------------------------------
(* Reconcile.                                                              *)

\* Return with an error: the request is queued again.
Requeued(m) == [queue EXCEPT ![m] = @ \cup {req[m]}]

\* The answer to a write arrives, or it is lost: then Reconcile returns an error.
Answer(lost) ==
    /\ lost => faults < MaxFaults
    /\ faults' = IF lost THEN faults + 1 ELSE faults

After(m, lost) == IF lost THEN Requeued(m) ELSE queue

Goto(m, l) == pc' = [pc EXCEPT ![m] = l]

\* Reconcile returns: what it read is forgotten.
Return(m) ==
    /\ Goto(m, "idle")
    /\ req' = [req EXCEPT ![m] = DefaultName]
    /\ cr' = [cr EXCEPT ![m] = Absent]
    /\ existing' = [existing EXCEPT ![m] = Absent]

Reconcile(m) ==
    /\ pc[m] = "idle"
    /\ \E n \in queue[m] :
        /\ queue' = [queue EXCEPT ![m] = @ \ {n}]
        /\ req' = [req EXCEPT ![m] = n]
        /\ cr' = [cr EXCEPT ![m] = cache[m][n]]
        /\ Goto(m, IF cache[m][n] = Absent THEN "create" ELSE "getCerts")
    /\ UNCHANGED <<store, existing, fresh, caches, inUse, unseen, counters>>

\* Faulty variant: a request for a configuration that is gone is dropped.
DefaultPpcNotCreated(m, lost) ==
    /\ pc[m] = "create"
    /\ Answer(lost)
    /\ queue' = After(m, lost)
    /\ Return(m)
    /\ UNCHANGED <<store, created, fresh, caches,
                   inUse, unseen, changes>>

\* DefaultPpcCreator; AlreadyExists is not an error.
DefaultPpcCreator(m, lost) ==
    /\ pc[m] = "create"
    /\ IF config[DefaultName] = Absent
       THEN CreateConfig(DefaultName, DefaultSpec)
       ELSE UNCHANGED <<config, created>>
    /\ Answer(lost)
    /\ queue' = After(m, lost)
    /\ Return(m)
    /\ UNCHANGED <<secret, ds, template, fresh, caches,
                   inUse, unseen, changes>>

\* Faulty variant: without a Secret the DaemonSet is applied first.
GetCertsLater(m) ==
    /\ pc[m] = "getCerts"
    /\ Goto(m, IF secretCache[m] # Absent \/ ds = Absent THEN "getDs" ELSE "storeCerts")
    /\ UNCHANGED <<store, req, cr, existing, queue, fresh, caches, inUse, unseen, counters>>

\* syncCerts, up to the creation of certificates.
GetCerts(m) ==
    /\ pc[m] = "getCerts"
    /\ Goto(m, IF secretCache[m] # Absent THEN "getDs" ELSE "storeCerts")
    /\ UNCHANGED <<store, req, cr, existing, queue, fresh, caches, inUse, unseen, counters>>

\* Faulty variant: certificates that are stored already are replaced.
StoreCertsOver(m, lost) ==
    /\ pc[m] = "storeCerts"
    /\ secret' = NewCert
    /\ Answer(lost)
    /\ queue' = After(m, lost)
    /\ IF lost THEN Return(m) ELSE Goto(m, "getDs") /\ UNCHANGED <<req, cr, existing>>
    /\ UNCHANGED <<config, ds, template, fresh, caches,
                   inUse, unseen, created, changes>>

\* CreateCerts and StoreCerts; AlreadyExists is not an error.
StoreCerts(m, lost) ==
    /\ pc[m] = "storeCerts"
    /\ secret' = IF secret = Absent THEN NewCert ELSE secret
    /\ Answer(lost)
    /\ queue' = After(m, lost)
    /\ IF lost THEN Return(m) ELSE Goto(m, "getDs") /\ UNCHANGED <<req, cr, existing>>
    /\ UNCHANGED <<config, ds, template, fresh, caches,
                   inUse, unseen, created, changes>>

\* ApplyObject reads the DaemonSet from the API server.
GetDaemonSet(m) ==
    /\ pc[m] = "getDs"
    /\ IsObjectSupported(Rendered(req[m], cr[m]))
    /\ existing' = [existing EXCEPT ![m] = ds]
    /\ fresh' = fresh \cup {m}
    /\ Goto(m, "apply")
    /\ UNCHANGED <<store, req, cr, queue, caches, inUse, unseen, counters>>

\* The write that ends ApplyObject, if the API server accepts it.
Desired(m) ==
    IF existing[m] = Absent
    THEN Rendered(req[m], cr[m])
    ELSE MergeObjectForUpdate(existing[m], Rendered(req[m], cr[m]))

\* Faulty variant: the Update does not carry the resourceVersion.
AcceptedAnyway(m) == (existing[m] = Absent) <=> (ds = Absent)

\* Create is refused when the object exists, Update when it has changed.
Accepted(m) == IF existing[m] = Absent THEN ds = Absent ELSE m \in fresh

ApplyObject(m, lost) ==
    /\ pc[m] = "apply"
    /\ Answer(lost)
    /\ Return(m)
    /\ UNCHANGED <<config, secret, template, caches, inUse, unseen,
                   created, changes>>
    /\ IF Accepted(m)
       THEN \E d \in {Desired(m)} : WriteDs(d, After(m, lost), {m})
       ELSE queue' = Requeued(m) /\ fresh' = fresh \ {m} /\ UNCHANGED ds

\* Merging has changed nothing, and DeepEqual may find so (what the model leaves
\* out of a DaemonSet, as its status, may differ): there is no Update.
NothingToUpdate(m) ==
    /\ pc[m] = "apply"
    /\ existing[m] # Absent
    /\ Return(m)
    /\ fresh' = fresh \ {m}
    /\ UNCHANGED <<store, queue, caches, inUse, unseen, counters>>
    /\ Desired(m) = existing[m]

\* A call of the API server fails, and Reconcile returns the error.
CallFails(m) ==
    /\ pc[m] \in {"create", "getCerts", "storeCerts", "getDs", "apply"}
    /\ faults < MaxFaults
    /\ faults' = faults + 1
    /\ queue' = Requeued(m)
    /\ Return(m)
    /\ fresh' = fresh \ {m}
    /\ UNCHANGED <<store, caches, inUse, unseen,
                   created, changes>>

-----------------------------------------------------------------------------
(* A manager process.                                                      *)

\* initPoisonPillManager, before the controllers run.
NewConfigIfNotExist(m) ==
    /\ pc[m] = "starting"
    /\ IF config[DefaultName] = Absent
       THEN CreateConfig(DefaultName, DefaultSpec)
       ELSE UNCHANGED <<config, created>>
    /\ Goto(m, "template")
    /\ UNCHANGED <<secret, ds, template, req, cr, existing, queue, fresh, caches,
                   inUse, unseen, changes, faults>>

\* The template is created, and the manager starts: its caches are filled, and
\* every configuration is queued.
StartManager(m) ==
    /\ pc[m] = "template"
    /\ template' = TRUE
    /\ cache' = [cache EXCEPT ![m] = config]
    /\ secretCache' = [secretCache EXCEPT ![m] = secret]
    /\ queue' = [queue EXCEPT ![m] = {n \in Names : config[n] # Absent} \cup OwnerNames(ds)]
    /\ Goto(m, "idle")
    /\ UNCHANGED <<config, secret, ds, req, cr, existing, fresh, inUse, unseen, counters>>

\* The process dies anywhere (a failure while it starts is one way: os.Exit),
\* and a new one starts.
RestartManager(m) ==
    /\ faults < MaxFaults
    /\ faults' = faults + 1
    /\ Goto(m, "starting")
    /\ req' = [req EXCEPT ![m] = DefaultName]
    /\ cr' = [cr EXCEPT ![m] = Absent]
    /\ existing' = [existing EXCEPT ![m] = Absent]
    /\ fresh' = fresh \ {m}
    /\ queue' = [queue EXCEPT ![m] = {}]
    /\ cache' = [cache EXCEPT ![m] = [n \in Names |-> Absent]]
    /\ secretCache' = [secretCache EXCEPT ![m] = Absent]
    /\ UNCHANGED <<store, inUse, unseen, created, changes>>

\* The informer of the configurations sees a change and queues the request.
SyncConfig(m, n) ==
    /\ Running(m)
    /\ cache[m][n] # config[n]
    /\ cache' = [cache EXCEPT ![m][n] = config[n]]
    /\ queue' = [queue EXCEPT ![m] = @ \cup {n}]
    /\ UNCHANGED <<store, pc, req, cr, existing, fresh, secretCache, inUse, unseen, counters>>

SyncSecret(m) ==
    /\ Running(m)
    /\ secretCache[m] # secret
    /\ secretCache' = [secretCache EXCEPT ![m] = secret]
    /\ UNCHANGED <<store, process, fresh, cache, inUse, unseen, counters>>

\* The informer's periodic resync, or a late event of the DaemonSet.
Resync(m, n) ==
    /\ Running(m)
    /\ n \notin queue[m]
    /\ cache[m][n] # Absent \/ n \in OwnerNames(ds)
    /\ queue' = [queue EXCEPT ![m] = @ \cup {n}]
    /\ UNCHANGED <<store, pc, req, cr, existing, fresh, caches, inUse, unseen, counters>>

-----------------------------------------------------------------------------
(* The agents, the user and others.                                        *)

\* An agent's GetCerts: the first read that finds the Secret is kept.
AgentGetCerts ==
    /\ ds # Absent
    /\ secret # Absent
    /\ secret \notin inUse
    /\ inUse' = inUse \cup {secret}
    /\ UNCHANGED <<store, process, fresh, caches, unseen, counters>>

\* Pods go, with the DaemonSet or to be replaced by new ones.
AgentsStop ==
    /\ \E c \in inUse : inUse' = inUse \ {c}
    /\ UNCHANGED <<store, process, fresh, caches, unseen, counters>>

UserCreates(n) ==
    /\ changes < MaxChanges
    /\ config[n] = Absent
    /\ \E s \in Specs : CreateConfig(n, s)
    /\ changes' = changes + 1
    /\ UNCHANGED <<secret, ds, template, process, fresh, caches, inUse, unseen, faults>>

UserEdits(n) ==
    /\ changes < MaxChanges
    /\ config[n] # Absent
    /\ \E s \in Specs \ {config[n].spec} : config' = [config EXCEPT ![n].spec = s]
    /\ changes' = changes + 1
    /\ UNCHANGED <<secret, ds, template, process, fresh, caches, inUse, unseen,
                   created, faults>>

\* The last creation is left to the managers.
UserDeletes(n) ==
    /\ changes < MaxChanges
    /\ created < MaxConfigs
    /\ config[n] # Absent
    /\ config' = [config EXCEPT ![n] = Absent]
    /\ unseen' = (unseen \/ \A m \in Managers : ~Running(m) \/ cache[m][n] = Absent)
    /\ changes' = changes + 1
    /\ UNCHANGED <<secret, ds, template, process, fresh, caches, inUse,
                   created, faults>>

\* Delete removes the DaemonSet at once, or, when it has a finalizer or is
\* deleted in the foreground, as soon as the finalizer is released.
DeleteDs(foreground) ==
    /\ ~ds.meta.deleting
    /\ WriteDs(IF foreground \/ ds.meta.finalizer
               THEN [ds EXCEPT !.meta.finalizer = TRUE, !.meta.deleting = TRUE]
               ELSE Absent,
               queue, {})

Others == UNCHANGED <<config, secret, template, pc, req, cr, existing, caches,
                      inUse, unseen, created, faults>>

\* Somebody labels the DaemonSet, puts a finalizer on it, or deletes it.
Meddle ==
    /\ changes < MaxChanges
    /\ changes' = changes + 1
    /\ ds # Absent
    /\ \/ \E k \in Keys :
            WriteDs([ds EXCEPT !.labels = Over([x \in {k} |-> "foreign"], @)], queue, {})
       \/ ~ds.meta.deleting /\ WriteDs([ds EXCEPT !.meta.finalizer = TRUE], queue, {})
       \/ \E foreground \in BOOLEAN : DeleteDs(foreground)
    /\ Others

\* The garbage collector, in the background: the owner is gone.
CollectDs ==
    /\ ds # Absent
    /\ \A n \in Names : config[n] # Absent => config[n].uid # ds.fields.owner.uid
    /\ DeleteDs(FALSE)
    /\ Others /\ UNCHANGED changes

ReleaseDs ==
    /\ ds # Absent
    /\ ds.meta.deleting
    /\ WriteDs(Absent, queue, {})
    /\ Others /\ UNCHANGED changes

-----------------------------------------------------------------------------
Init ==
    /\ config = [n \in Names |-> Absent]
    /\ secret = Absent
    /\ ds = Absent
    /\ template = FALSE
    /\ pc = [m \in Managers |-> "starting"]
    /\ req = [m \in Managers |-> DefaultName]
    /\ cr = [m \in Managers |-> Absent]
    /\ existing = [m \in Managers |-> Absent]
    /\ fresh = {}
    /\ queue = [m \in Managers |-> {}]
    /\ cache = [m \in Managers |-> [n \in Names |-> Absent]]
    /\ secretCache = [m \in Managers |-> Absent]
    /\ inUse = {}
    /\ unseen = FALSE
    /\ created = 0 /\ changes = 0 /\ faults = 0

\* What a manager does by itself.
ManagerStep(m) ==
    \/ NewConfigIfNotExist(m) \/ StartManager(m)
    \/ Reconcile(m) \/ GetCerts(m) \/ GetDaemonSet(m)
    \/ \E lost \in BOOLEAN :
        DefaultPpcCreator(m, lost) \/ StoreCerts(m, lost) \/ ApplyObject(m, lost)
    \/ NothingToUpdate(m)

Next ==
    \/ \E m \in Managers :
        \/ ManagerStep(m)
        \/ CallFails(m) \/ RestartManager(m) \/ SyncSecret(m)
        \/ \E n \in Names : SyncConfig(m, n) \/ Resync(m, n)
    \/ AgentGetCerts \/ AgentsStop
    \/ \E n \in Names : UserCreates(n) \/ UserEdits(n) \/ UserDeletes(n)
    \/ Meddle \/ CollectDs \/ ReleaseDs

Spec == Init /\ [][Next]_vars

\* Managers take their steps and their informers deliver what changed; the
\* garbage collector and the holder of a finalizer do their part.  Each of these
\* steps changes the variable that is its subscript.
Fairness ==
    /\ \A m \in Managers :
        /\ WF_pc(ManagerStep(m))
        /\ WF_cache(\E n \in Names : SyncConfig(m, n))
    /\ WF_ds(CollectDs \/ ReleaseDs)

FairSpec == Spec /\ Fairness

-----------------------------------------------------------------------------
(* Properties.                                                             *)

\* Every variable stays within its type; in particular the agents are never
\* given an empty watchdog path or a safe time of zero (syncConfigDaemonSet).
TypeOK ==
    /\ config \in [Names -> Configs \cup {Absent}]
    /\ secret \in Certs \cup {Absent}
    /\ ds \in DaemonSet \cup {Absent}
    /\ template \in BOOLEAN
    /\ pc \in [Managers -> {"starting", "template", "idle", "create", "getCerts",
                            "storeCerts", "getDs", "apply"}]
    /\ req \in [Managers -> Names]
    /\ cr \in [Managers -> Configs \cup {Absent}]
    /\ existing \in [Managers -> DaemonSet \cup {Absent}]
    /\ fresh \subseteq Managers
    /\ queue \in [Managers -> SUBSET Names]
    /\ cache \in [Managers -> [Names -> Configs \cup {Absent}]]
    /\ secretCache \in [Managers -> Certs \cup {Absent}]
    /\ inUse \subseteq Certs
    /\ unseen \in BOOLEAN
    /\ created \in 0 .. MaxConfigs
    /\ changes \in 0 .. MaxChanges
    /\ faults \in 0 .. MaxFaults

\* Agents that have read their certificates have read the same ones, so that
\* they accept each other's connections, however often and by however many
\* managers certificates were made (syncCerts, StoreCerts).
AgentsShareCerts == \A c, d \in inUse : c = d

\* There is no DaemonSet without certificates for its agents, whatever calls
\* failed and wherever managers died (Reconcile syncs the certificates first).
CertsBeforeDaemonSet == ds # Absent => secret # Absent

\* What others put on the DaemonSet, the managers leave there: a foreign label
\* keeps its value, a finalizer stays until its holder lets the object go
\* (ApplyObject, MergeObjectForUpdate).
ForeignMetadataKept ==
    [][ds # Absent /\ ds' # Absent =>
        /\ "team" \in DOMAIN ds.labels =>
               "team" \in DOMAIN ds'.labels /\ ds'.labels["team"] = ds.labels["team"]
        /\ ds.meta.finalizer => ds'.meta.finalizer]_vars

\* What a manager is about to update the DaemonSet to keeps what is the
\* cluster's, takes what is ours, and is what the next update would come to:
\* an update does not cause another one.  Objects of other kinds, which the
\* install folder may come to hold, settle just so (MergeObjectForUpdate).
MergeSettles ==
    /\ AllSettle
    /\ \A m \in Managers : pc[m] = "apply" /\ existing[m] # Absent =>
         Settles(existing[m], Rendered(req[m], cr[m]))

\* The DaemonSet is what the default configuration says, and belongs to it.
Installed ==
    /\ template
    /\ config[DefaultName] # Absent
    /\ ds # Absent
    /\ ~ds.meta.deleting
    /\ ds.fields.path = Effective(config[DefaultName].spec).path
    /\ ds.fields.time = Effective(config[DefaultName].spec).time
    /\ ds.fields.owner.uid = config[DefaultName].uid
    /\ ds.labels["k8s-app"] = "poison-pill"

\* With no configuration but the default one, the DaemonSet ends up being what
\* that says, whatever was edited, deleted, refused, lost or restarted on the
\* way: a configuration that is deleted comes back, and Reconcile is run again
\* until it is done.  The deletion has to be seen, though: when it falls between
\* newConfigIfNotExist and the first listing of the only manager, nothing follows.
DaemonSetConverges ==
    [](~unseen /\ \A n \in Names \ {DefaultName} : config[n] = Absent) => <>[]Installed
=============================================================================
