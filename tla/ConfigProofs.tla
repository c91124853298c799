----------------------------- MODULE ConfigProofs -----------------------------
(***************************************************************************)
(* Types, certificates and foreign metadata, for any number of managers,   *)
(* configurations, changes and faults.                                     *)
(*                                                                         *)
(* The Secret is written once, and that makes what is derived from it      *)
(* last: agents can only have read what it holds, and a manager that has   *)
(* seen it, or that is past syncCerts, is right about it for ever.         *)
(***************************************************************************)
EXTENDS Config, MergeProofs

Places == {"starting", "template", "idle", "create", "getCerts", "storeCerts",
           "getDs", "apply"}

IInv ==
    /\ secret \in Certs \cup {Absent}
    /\ pc \in [Managers -> Places]
    /\ secretCache \in [Managers -> Certs \cup {Absent}]
    /\ \A c \in inUse : c = secret /\ c # Absent
    /\ \A m \in Managers :
         \/ secretCache[m] # Absent
         \/ pc[m] \in {"getDs", "apply"}
         => secret # Absent
    /\ ds # Absent => secret # Absent

\* CreateCerts makes certificates: there are some that nobody has.
LEMMA NewCertIsOne ==
    ASSUME secret = Absent, inUse = {}
    PROVE  NewCert \in Certs /\ NewCert # Absent
<1>1. [cert |-> 1] \in Certs
  BY DEF Certs
<1>2. \A c \in Certs : c # Absent
  BY DEF Certs, Absent
<1> QED  BY <1>1, <1>2 DEF NewCert

\* A manager goes to another place; it gets to the DaemonSet only when the
\* Secret is there, which no step but StoreCerts writes.
LEMMA Going ==
    ASSUME IInv, NEW m \in Managers, NEW l \in Places, Goto(m, l),
           UNCHANGED <<secret, inUse, secretCache>>,
           l \in {"getDs", "apply"} => secret # Absent,
           ds' # Absent => secret # Absent
    PROVE  IInv'
BY DEF Goto, IInv

\* ApplyObject, wherever it comes from, is preceded by syncCerts.
LEMMA ReconcileStep ==
    ASSUME IInv, NEW m \in Managers, NEW lost \in BOOLEAN,
           \/ Reconcile(m) \/ DefaultPpcCreator(m, lost) \/ GetCerts(m)
           \/ StoreCerts(m, lost) \/ GetDaemonSet(m) \/ ApplyObject(m, lost)
           \/ NothingToUpdate(m) \/ CallFails(m)
    PROVE  IInv'
<1>0. {"idle", "create", "getCerts", "storeCerts", "getDs", "apply"} \subseteq Places
  BY DEF Places
<1>1. CASE Reconcile(m)
  <2>1. UNCHANGED <<secret, ds, inUse, secretCache>>
    BY <1>1 DEF Reconcile, store, caches
  <2>2. Goto(m, "create") \/ Goto(m, "getCerts")
    BY <1>1 DEF Reconcile
  <2> QED  BY <1>0, <2>1, <2>2, Going DEF IInv
<1>2. CASE DefaultPpcCreator(m, lost)
  <2>1. UNCHANGED <<secret, ds, inUse, secretCache>> /\ Goto(m, "idle")
    BY <1>2 DEF DefaultPpcCreator, Return, caches
  <2> QED  BY <1>0, <2>1, Going DEF IInv
<1>3. CASE GetCerts(m)
  <2>1. UNCHANGED <<secret, ds, inUse, secretCache>>
    BY <1>3 DEF GetCerts, store, caches
  <2>2. \/ Goto(m, "getDs") /\ secretCache[m] # Absent
        \/ Goto(m, "storeCerts")
    BY <1>3 DEF GetCerts
  <2> QED  BY <1>0, <2>1, <2>2, Going DEF IInv
<1>4. CASE StoreCerts(m, lost)
  <2>1. UNCHANGED <<ds, inUse, secretCache>>
    BY <1>4 DEF StoreCerts, caches
  <2>2. Goto(m, "idle") \/ Goto(m, "getDs")
    BY <1>4 DEF StoreCerts, Return
  <2>3. CASE secret # Absent
    <3>1. secret' = secret
      BY <1>4, <2>3 DEF StoreCerts
    <3> QED  BY <1>0, <2>1, <2>2, <2>3, <3>1, Going DEF IInv
  <2>4. CASE secret = Absent
    <3>1. inUse = {}
      BY <2>4 DEF IInv
    <3>2. secret' = NewCert
      BY <1>4, <2>4 DEF StoreCerts
    <3>3. pc' \in [Managers -> Places]
      BY <1>0, <2>2 DEF Goto, IInv
    <3> QED  BY <2>1, <2>4, <3>1, <3>2, <3>3, NewCertIsOne DEF IInv
  <2> QED  BY <2>3, <2>4
<1>5. CASE GetDaemonSet(m)
  <2>1. /\ UNCHANGED <<secret, ds, inUse, secretCache>>
        /\ Goto(m, "apply") /\ pc[m] = "getDs"
    BY <1>5 DEF GetDaemonSet, store, caches
  <2> QED  BY <1>0, <2>1, Going DEF IInv
<1>6. CASE ApplyObject(m, lost)
  <2>1. /\ UNCHANGED <<secret, inUse, secretCache>>
        /\ Goto(m, "idle") /\ pc[m] = "apply"
    BY <1>6 DEF ApplyObject, Return, caches
  <2> QED  BY <1>0, <2>1, Going DEF IInv
<1>7. CASE NothingToUpdate(m) \/ CallFails(m)
  <2>1. UNCHANGED <<secret, ds, inUse, secretCache>> /\ Goto(m, "idle")
    BY <1>7 DEF NothingToUpdate, CallFails, Return, store, caches
  <2> QED  BY <1>0, <2>1, Going DEF IInv
<1> QED  BY <1>1, <1>2, <1>3, <1>4, <1>5, <1>6, <1>7

\* A manager that starts knows nothing, and its informers tell what is there.
LEMMA ManagerStepKeeps ==
    ASSUME IInv, NEW m \in Managers,
           \/ NewConfigIfNotExist(m) \/ StartManager(m) \/ RestartManager(m)
           \/ SyncSecret(m)
           \/ \E n \in Names : SyncConfig(m, n) \/ Resync(m, n)
    PROVE  IInv'
<1>1. CASE NewConfigIfNotExist(m)
  <2>1. UNCHANGED <<secret, ds, inUse, secretCache>> /\ Goto(m, "template")
    BY <1>1 DEF NewConfigIfNotExist, caches
  <2> QED  BY <2>1, Going DEF IInv, Places
<1>2. CASE StartManager(m)
  <2>1. /\ UNCHANGED <<secret, ds, inUse>> /\ Goto(m, "idle")
        /\ secretCache' = [secretCache EXCEPT ![m] = secret]
    BY <1>2 DEF StartManager
  <2> QED  BY <2>1 DEF Goto, IInv, Places
<1>3. CASE RestartManager(m)
  <2>1. /\ UNCHANGED <<secret, ds, inUse>> /\ Goto(m, "starting")
        /\ secretCache' = [secretCache EXCEPT ![m] = Absent]
    BY <1>3 DEF RestartManager, store
  <2> QED  BY <2>1 DEF Goto, IInv, Places
<1>4. CASE SyncSecret(m)
  <2>1. /\ UNCHANGED <<secret, ds, inUse, pc>>
        /\ secretCache' = [secretCache EXCEPT ![m] = secret]
    BY <1>4 DEF SyncSecret, store, process
  <2> QED  BY <2>1 DEF IInv
<1>5. CASE \E n \in Names : SyncConfig(m, n) \/ Resync(m, n)
  <2>1. UNCHANGED <<secret, ds, inUse, pc, secretCache>>
    BY <1>5 DEF SyncConfig, Resync, store, caches
  <2> QED  BY <2>1 DEF IInv
<1> QED  BY <1>1, <1>2, <1>3, <1>4, <1>5

\* Others do not create the DaemonSet, and only agents read the Secret.
LEMMA OtherStep ==
    ASSUME IInv,
           \/ AgentGetCerts \/ AgentsStop
           \/ \E n \in Names : UserCreates(n) \/ UserEdits(n) \/ UserDeletes(n)
           \/ Meddle \/ CollectDs \/ ReleaseDs
    PROVE  IInv'
<1>1. CASE AgentGetCerts \/ AgentsStop
  <2>1. UNCHANGED <<secret, ds, pc, secretCache>>
    BY <1>1 DEF AgentGetCerts, AgentsStop, store, process, caches
  <2>2. \A c \in inUse' : c \in inUse \/ (c = secret /\ secret # Absent)
    BY <1>1 DEF AgentGetCerts, AgentsStop
  <2> QED  BY <2>1, <2>2 DEF IInv
<1>2. CASE \E n \in Names : UserCreates(n) \/ UserEdits(n) \/ UserDeletes(n)
  <2>1. UNCHANGED <<secret, ds, inUse, pc, secretCache>>
    BY <1>2 DEF UserCreates, UserEdits, UserDeletes, process, caches
  <2> QED  BY <2>1 DEF IInv
<1>3. CASE Meddle \/ CollectDs \/ ReleaseDs
  <2>1. ds # Absent /\ UNCHANGED <<secret, inUse, pc, secretCache>>
    BY <1>3 DEF Meddle, CollectDs, ReleaseDs, Others, caches
  <2> QED  BY <2>1 DEF IInv
<1> QED  BY <1>1, <1>2, <1>3

\* The invariant is inductive.
LEMMA Inductive == Spec => []IInv
<1>1. Init => IInv
  <2> SUFFICES ASSUME Init
               PROVE  IInv
    OBVIOUS
  <2>1. pc \in [Managers -> Places]
    BY DEF Init, Places
  <2>2. secretCache \in [Managers -> Certs \cup {Absent}]
    BY DEF Init
  <2>3. \A m \in Managers : secretCache[m] = Absent /\ pc[m] = "starting"
    BY DEF Init
  <2> QED  BY <2>1, <2>2, <2>3 DEF Init, IInv
<1>2. IInv /\ [Next]_vars => IInv'
  <2> SUFFICES ASSUME IInv, [Next]_vars
               PROVE  IInv'
    OBVIOUS
  <2>1. CASE Next
    BY <2>1, ReconcileStep, ManagerStepKeeps, OtherStep, Zenon
       DEF Next, ManagerStep
  <2>2. CASE UNCHANGED vars
    BY <2>2 DEF vars, store, process, caches, IInv
  <2> QED  BY <2>1, <2>2
<1> QED  BY <1>1, <1>2, PTL DEF Spec

\* All agents that have certificates have the same ones (GetCerts keeps what
\* it read, StoreCerts does not replace what is stored).
THEOREM SameCerts == Spec => []AgentsShareCerts
<1>1. IInv => AgentsShareCerts
  BY DEF IInv, AgentsShareCerts
<1> QED  BY <1>1, Inductive, PTL

\* The DaemonSet is never there without the Secret (Reconcile syncs the
\* certificates first).
THEOREM CertsFirst == Spec => []CertsBeforeDaemonSet
<1>1. IInv => CertsBeforeDaemonSet
  BY DEF IInv, CertsBeforeDaemonSet
<1> QED  BY <1>1, Inductive, PTL

\* Whatever a manager has read, its update settles (ApplyObject).
THEOREM UpdatesSettle == Spec => []MergeSettles
<1>1. MergeSettles
  BY MergeIsSound DEF MergeSettles, AllSettle
<1> QED  BY <1>1, PTL

-------------------------------------------------------------------------------
(***************************************************************************)
(* The DaemonSet and what managers make of it.                             *)
(***************************************************************************)
Labels == UNION {[K -> Values] : K \in SUBSET Keys}

\* Labels put over labels are labels.
LEMMA OverLabels ==
    ASSUME NEW f \in Labels, NEW g \in Labels
    PROVE  Over(f, g) \in Labels
<1>1. PICK K \in SUBSET Keys : f \in [K -> Values]
  BY DEF Labels
<1>2. PICK L \in SUBSET Keys : g \in [L -> Values]
  BY DEF Labels
<1>3. Over(f, g) \in [K \cup L -> Values]
  BY <1>1, <1>2 DEF Over
<1>4. K \cup L \in SUBSET Keys
  OBVIOUS
<1> QED  BY <1>3, <1>4 DEF Labels

\* One label is a set of labels.
LEMMA OneLabel ==
    ASSUME NEW k \in Keys, NEW v \in Values
    PROVE  [x \in {k} |-> v] \in Labels
<1>1. {k} \in SUBSET Keys
  OBVIOUS
<1>2. [x \in {k} |-> v] \in [{k} -> Values]
  OBVIOUS
<1> QED  BY <1>1, <1>2, Zenon DEF Labels

\* A configuration is not the absence of one, and a DaemonSet neither.
LEMMA Presence == Absent \notin Configs /\ Absent \notin DaemonSet
BY Zenon DEF Absent, Configs, DaemonSet

\* The agents are given a path and a time, whatever the user left out.
LEMMA EffectiveIsSet ==
    ASSUME NEW s \in AllSpecs
    PROVE  /\ Effective(s).path \in {t.path : t \in AllSpecs} \ {""}
           /\ Effective(s).time \in {t.time : t \in AllSpecs} \ {0}
<1>1. DefaultSpec \in AllSpecs /\ DefaultSpec.path # "" /\ DefaultSpec.time # 0
  BY DEF AllSpecs, DefaultSpec
<1>2. /\ Effective(s).path = IF s.path = "" THEN DefaultSpec.path ELSE s.path
      /\ Effective(s).time = IF s.time = 0 THEN DefaultSpec.time ELSE s.time
  BY DEF Effective
<1> QED  BY <1>1, <1>2, Zenon

\* What is rendered is a DaemonSet.
LEMMA RenderedIsOne ==
    ASSUME NEW n \in Names, NEW c \in Configs
    PROVE  Rendered(n, c) \in DaemonSet
<1>1. c.spec \in AllSpecs /\ c.uid \in Uids
  BY DEF Configs
<1>2. [k \in {"k8s-app"} |-> "poison-pill"] \in Labels
  BY OneLabel DEF Keys, Values
<1> QED  BY <1>1, <1>2, EffectiveIsSet, Zenon DEF Rendered, DaemonSet, Labels

\* So is what it is merged to.
LEMMA MergedIsOne ==
    ASSUME NEW n \in Names, NEW c \in Configs, NEW d \in DaemonSet
    PROVE  MergeObjectForUpdate(d, Rendered(n, c)) \in DaemonSet
<1> DEFINE r == Rendered(n, c)
           o == MergeObjectForUpdate(d, r)
<1>1. r \in DaemonSet
  BY RenderedIsOne
<1>2. /\ r.kind = "DaemonSet" /\ r.annotations = NoAnnotations /\ r.labels \in Labels
      /\ d.annotations = NoAnnotations /\ d.labels \in Labels
      /\ r.fields \in [path : {s.path : s \in AllSpecs} \ {""},
                       time : {s.time : s \in AllSpecs} \ {0},
                       owner : [name : Names, uid : Uids]]
      /\ d.meta \in [finalizer : BOOLEAN, deleting : BOOLEAN]
  BY <1>1, Zenon DEF DaemonSet, Labels
<1> HIDE DEF r
<1>3. o.fields = r.fields /\ o.kind = "DaemonSet" /\ o.meta = d.meta
  BY <1>2, Zenon DEF MergeObjectForUpdate, mergeServiceAccountForUpdate
<1>4. o.annotations = NoAnnotations
  BY <1>2, Zenon DEF MergeObjectForUpdate, mergeAnnotations, mergeDeploymentForUpdate,
     NoAnnotations, Over
<1>5. o.labels \in Labels
  BY <1>2, OverLabels, Zenon DEF MergeObjectForUpdate, mergeLabels
<1>6. o = [kind |-> o.kind, fields |-> o.fields, annotations |-> o.annotations,
           labels |-> o.labels, meta |-> o.meta]
  BY DEF MergeObjectForUpdate
<1> HIDE DEF o
<1>7. o \in DaemonSet
  BY <1>2, <1>3, <1>4, <1>5, <1>6, Zenon DEF DaemonSet, Labels
<1> QED  BY <1>7 DEF o, r

\* Others may change labels, finalizers and deletionTimestamp.
LEMMA MeddledIsOne ==
    ASSUME NEW d \in DaemonSet
    PROVE  /\ \A k \in Keys :
                [d EXCEPT !.labels = Over([x \in {k} |-> "foreign"], @)] \in DaemonSet
           /\ [d EXCEPT !.meta.finalizer = TRUE] \in DaemonSet
           /\ [d EXCEPT !.meta.finalizer = TRUE, !.meta.deleting = TRUE] \in DaemonSet
<1>1. ASSUME NEW k \in Keys
      PROVE  [d EXCEPT !.labels = Over([x \in {k} |-> "foreign"], @)] \in DaemonSet
  <2>1. Over([x \in {k} |-> "foreign"], d.labels) \in Labels
    BY OneLabel, OverLabels, Zenon DEF DaemonSet, Labels, Values
  <2> QED  BY <2>1, Zenon DEF DaemonSet, Labels
<1>2. [d EXCEPT !.meta.finalizer = TRUE] \in DaemonSet
  BY Zenon DEF DaemonSet
<1>3. [d EXCEPT !.meta.finalizer = TRUE, !.meta.deleting = TRUE] \in DaemonSet
  BY Zenon DEF DaemonSet
<1> QED  BY <1>1, <1>2, <1>3

-------------------------------------------------------------------------------
(***************************************************************************)
(* Types.  A manager that got past its read of the configuration has one.  *)
(***************************************************************************)
Reading ==
    \A m \in Managers :
        pc[m] \in {"getCerts", "storeCerts", "getDs", "apply"} => cr[m] \in Configs

\* What Reconcile has read is forgotten when it returns.
LEMMA ReturnTyped ==
    ASSUME TypeOK, Reading, NEW m \in Managers, Return(m)
    PROVE  /\ pc' \in [Managers -> Places] /\ req' \in [Managers -> Names]
           /\ cr' \in [Managers -> Configs \cup {Absent}]
           /\ existing' \in [Managers -> DaemonSet \cup {Absent}]
           /\ Reading'
BY ConfigAssumption DEF Return, Goto, TypeOK, Reading, Places

\* A request that is queued again is a name.
LEMMA QueueTyped ==
    ASSUME TypeOK, NEW m \in Managers, NEW lost \in BOOLEAN
    PROVE  /\ Requeued(m) \in [Managers -> SUBSET Names]
           /\ After(m, lost) \in [Managers -> SUBSET Names]
BY DEF Requeued, After, TypeOK

\* Faults are counted up to their bound.
LEMMA AnswerTyped ==
    ASSUME TypeOK, NEW lost \in BOOLEAN, Answer(lost)
    PROVE  faults' \in 0 .. MaxFaults
BY ConfigAssumption DEF Answer, TypeOK

\* Creating a configuration gives it the next uid.
LEMMA CreateTyped ==
    ASSUME TypeOK, NEW n \in Names, NEW spec \in AllSpecs, CreateConfig(n, spec)
    PROVE  /\ config' \in [Names -> Configs \cup {Absent}]
           /\ created' \in 0 .. MaxConfigs
<1>1. created + 1 \in Uids /\ created' \in 0 .. MaxConfigs
  BY ConfigAssumption DEF CreateConfig, TypeOK, Uids
<1>2. [spec |-> spec, uid |-> created + 1] \in Configs
  BY <1>1 DEF Configs
<1> QED  BY <1>1, <1>2 DEF CreateConfig, TypeOK

\* The creation of the default configuration, if it is not there.
LEMMA CreateDefaultTyped ==
    ASSUME TypeOK,
           IF config[DefaultName] = Absent
           THEN CreateConfig(DefaultName, DefaultSpec)
           ELSE UNCHANGED <<config, created>>
    PROVE  /\ config' \in [Names -> Configs \cup {Absent}]
           /\ created' \in 0 .. MaxConfigs
<1>1. CASE CreateConfig(DefaultName, DefaultSpec)
  BY <1>1, CreateTyped, ConfigAssumption DEF AllSpecs
<1>2. CASE UNCHANGED <<config, created>>
  BY <1>2 DEF TypeOK
<1> QED  BY <1>1, <1>2

\* A write of the DaemonSet queues names of configurations.
LEMMA WriteDsTyped ==
    ASSUME TypeOK, NEW d \in DaemonSet \cup {Absent},
           NEW q \in [Managers -> SUBSET Names], NEW done, WriteDs(d, q, done)
    PROVE  /\ ds' \in DaemonSet \cup {Absent}
           /\ fresh' \subseteq Managers
           /\ queue' \in [Managers -> SUBSET Names]
<1>1. OwnerNames(d) \in SUBSET Names /\ OwnerNames(ds) \in SUBSET Names
  BY ZenonT(30) DEF OwnerNames, TypeOK, DaemonSet
<1>2. fresh' \subseteq Managers
  BY DEF WriteDs, TypeOK
<1>3. queue' \in [Managers -> SUBSET Names]
  BY <1>1 DEF WriteDs
<1> QED  BY <1>2, <1>3 DEF WriteDs

\* The write that ends ApplyObject is one of a DaemonSet.
LEMMA DesiredTyped ==
    ASSUME TypeOK, Reading, NEW m \in Managers, pc[m] = "apply"
    PROVE  Desired(m) \in DaemonSet
<1>1. req[m] \in Names /\ cr[m] \in Configs /\ existing[m] \in DaemonSet \cup {Absent}
  BY DEF TypeOK, Reading
<1> QED  BY <1>1, RenderedIsOne, MergedIsOne DEF Desired

\* The steps of Reconcile keep types, and what it has read while it needs it.
LEMMA ReconcileTyped ==
    ASSUME TypeOK, Reading, IInv, NEW m \in Managers, NEW lost \in BOOLEAN,
           \/ Reconcile(m) \/ DefaultPpcCreator(m, lost) \/ GetCerts(m)
           \/ StoreCerts(m, lost) \/ GetDaemonSet(m) \/ ApplyObject(m, lost)
           \/ NothingToUpdate(m) \/ CallFails(m)
    PROVE  TypeOK' /\ Reading'
<1>1. CASE Reconcile(m)
  <2>1. UNCHANGED <<store, existing, fresh, caches, inUse, unseen, counters>>
    BY <1>1 DEF Reconcile
  <2>2. PICK n \in queue[m] :
          /\ queue' = [queue EXCEPT ![m] = @ \ {n}]
          /\ req' = [req EXCEPT ![m] = n]
          /\ cr' = [cr EXCEPT ![m] = cache[m][n]]
          /\ Goto(m, IF cache[m][n] = Absent THEN "create" ELSE "getCerts")
    BY <1>1, Zenon DEF Reconcile
  <2>3. n \in Names /\ cache[m][n] \in Configs \cup {Absent}
    BY <2>2 DEF TypeOK
  <2>4. Reading'
    BY <2>2, <2>3 DEF Goto, Reading, TypeOK
  <2> QED  BY <2>1, <2>2, <2>3, <2>4, SMTT(30) DEF store, caches, counters, Goto, TypeOK
<1>2. CASE DefaultPpcCreator(m, lost)
  <2>1. UNCHANGED <<secret, ds, template, fresh, caches, inUse, unseen, changes>>
    BY <1>2 DEF DefaultPpcCreator
  <2>2. /\ config' \in [Names -> Configs \cup {Absent}]
        /\ created' \in 0 .. MaxConfigs
    BY <1>2, CreateDefaultTyped DEF DefaultPpcCreator
  <2>3. Answer(lost) /\ queue' = After(m, lost) /\ Return(m)
    BY <1>2 DEF DefaultPpcCreator
  <2> QED
    BY <2>1, <2>2, <2>3, ReturnTyped, QueueTyped, AnswerTyped DEF caches, TypeOK, Places
<1>3. CASE GetCerts(m)
  BY <1>3 DEF GetCerts, Goto, store, caches, counters, TypeOK, Reading
<1>4. CASE StoreCerts(m, lost)
  <2>1. UNCHANGED <<config, ds, template, fresh, caches, inUse, unseen, created, changes>>
    BY <1>4 DEF StoreCerts
  <2>2. secret' \in Certs \cup {Absent}
    BY <1>4, NewCertIsOne DEF StoreCerts, IInv
  <2>3. Answer(lost) /\ queue' = After(m, lost)
    BY <1>4 DEF StoreCerts
  <2>4. /\ pc' \in [Managers -> Places] /\ req' \in [Managers -> Names]
        /\ cr' \in [Managers -> Configs \cup {Absent}]
        /\ existing' \in [Managers -> DaemonSet \cup {Absent}]
        /\ Reading'
    <3>1. CASE lost
      BY <1>4, <3>1, ReturnTyped DEF StoreCerts
    <3>2. CASE ~lost
      BY <1>4, <3>2 DEF StoreCerts, Goto, TypeOK, Reading, Places
    <3> QED  BY <3>1, <3>2
  <2> QED
    BY <2>1, <2>2, <2>3, <2>4, QueueTyped, AnswerTyped DEF caches, TypeOK, Places
<1>5. CASE GetDaemonSet(m)
  BY <1>5 DEF GetDaemonSet, Goto, store, caches, counters, TypeOK, Reading
<1>6. CASE ApplyObject(m, lost)
  <2>1. UNCHANGED <<config, secret, template, caches, inUse, unseen, created, changes>>
    BY <1>6 DEF ApplyObject
  <2>2. Answer(lost) /\ Return(m) /\ pc[m] = "apply"
    BY <1>6 DEF ApplyObject
  <2>3. /\ ds' \in DaemonSet \cup {Absent}
        /\ fresh' \subseteq Managers
        /\ queue' \in [Managers -> SUBSET Names]
    <3>1. CASE Accepted(m)
      BY <1>6, <2>2, <3>1, DesiredTyped, QueueTyped, WriteDsTyped DEF ApplyObject
    <3>2. CASE ~Accepted(m)
      BY <1>6, <3>2, QueueTyped, SMTT(30) DEF ApplyObject, TypeOK
    <3> QED  BY <3>1, <3>2
  <2> QED
    BY <2>1, <2>2, <2>3, ReturnTyped, AnswerTyped DEF caches, TypeOK, Places
<1>7. CASE CallFails(m)
  <2>1. UNCHANGED <<store, caches, inUse, unseen, created, changes>>
    BY <1>7 DEF CallFails
  <2>2. Return(m) /\ queue' = Requeued(m) /\ fresh' = fresh \ {m}
    BY <1>7 DEF CallFails
  <2>3. faults' \in 0 .. MaxFaults
    BY <1>7, ConfigAssumption DEF CallFails, TypeOK
  <2> QED
    BY <2>1, <2>2, <2>3, ReturnTyped, QueueTyped DEF store, caches, TypeOK, Places
<1>8. CASE NothingToUpdate(m)
  <2>1. /\ UNCHANGED <<store, queue, caches, inUse, unseen, counters>>
        /\ Return(m) /\ fresh' = fresh \ {m}
    BY <1>8 DEF NothingToUpdate
  <2> QED
    BY <2>1, ReturnTyped DEF store, caches, counters, TypeOK, Places
<1> QED  BY <1>1, <1>2, <1>3, <1>4, <1>5, <1>6, <1>7, <1>8

\* So do the steps of a manager's process and of its informers.
LEMMA ManagerTyped ==
    ASSUME TypeOK, Reading, NEW m \in Managers,
           \/ NewConfigIfNotExist(m) \/ StartManager(m) \/ RestartManager(m)
           \/ SyncSecret(m)
           \/ \E n \in Names : SyncConfig(m, n) \/ Resync(m, n)
    PROVE  TypeOK' /\ Reading'
<1>1. CASE NewConfigIfNotExist(m)
  <2>1. /\ config' \in [Names -> Configs \cup {Absent}]
        /\ created' \in 0 .. MaxConfigs
    BY <1>1, CreateDefaultTyped DEF NewConfigIfNotExist
  <2> QED  BY <1>1, <2>1 DEF NewConfigIfNotExist, Goto, caches, TypeOK, Reading
<1>2. CASE StartManager(m)
  <2>1. {n \in Names : config[n] # Absent} \cup OwnerNames(ds) \in SUBSET Names
    BY Zenon DEF OwnerNames, TypeOK, DaemonSet
  <2>2. template' \in BOOLEAN
    BY <1>2, Zenon DEF StartManager
  <2>3. Reading'
    BY <1>2 DEF StartManager, Goto, TypeOK, Reading
  <2> QED  BY <1>2, <2>1, <2>2, <2>3 DEF StartManager, Goto, counters, TypeOK
<1>3. CASE RestartManager(m)
  <2>1. faults' \in 0 .. MaxFaults
    BY <1>3, ConfigAssumption DEF RestartManager, TypeOK
  <2>2. [n \in Names |-> Absent] \in [Names -> Configs \cup {Absent}]
    OBVIOUS
  <2>3. /\ cache' \in [Managers -> [Names -> Configs \cup {Absent}]]
        /\ secretCache' \in [Managers -> Certs \cup {Absent}]
        /\ queue' \in [Managers -> SUBSET Names]
        /\ fresh' \subseteq Managers
    BY <1>3, <2>2 DEF RestartManager, TypeOK
  <2>4. /\ pc' \in [Managers -> Places] /\ req' \in [Managers -> Names]
        /\ cr' \in [Managers -> Configs \cup {Absent}]
        /\ existing' \in [Managers -> DaemonSet \cup {Absent}]
        /\ Reading'
    BY <1>3, ConfigAssumption DEF RestartManager, Goto, TypeOK, Reading, Places
  <2> QED  BY <1>3, <2>1, <2>3, <2>4 DEF RestartManager, store, TypeOK, Places
<1>4. CASE SyncSecret(m)
  BY <1>4 DEF SyncSecret, store, process, counters, TypeOK, Reading
<1>5. ASSUME NEW n \in Names, SyncConfig(m, n)
      PROVE  TypeOK' /\ Reading'
  <2>1. cache' \in [Managers -> [Names -> Configs \cup {Absent}]]
    BY <1>5, SMTT(30) DEF SyncConfig, TypeOK
  <2> QED  BY <1>5, <2>1 DEF SyncConfig, store, counters, TypeOK, Reading
<1>6. ASSUME NEW n \in Names, Resync(m, n)
      PROVE  TypeOK' /\ Reading'
  BY <1>6 DEF Resync, store, caches, counters, TypeOK, Reading
<1> QED  BY <1>1, <1>2, <1>3, <1>4, <1>5, <1>6

\* So do agents, users and the other writers of the DaemonSet.
LEMMA OtherTyped ==
    ASSUME TypeOK, Reading,
           \/ AgentGetCerts \/ AgentsStop
           \/ \E n \in Names : UserCreates(n) \/ UserEdits(n) \/ UserDeletes(n)
           \/ Meddle \/ CollectDs \/ ReleaseDs
    PROVE  TypeOK' /\ Reading'
<1>1. CASE AgentGetCerts \/ AgentsStop
  <2>1. UNCHANGED <<store, process, fresh, caches, unseen, counters>>
    BY <1>1 DEF AgentGetCerts, AgentsStop
  <2>2. inUse' \subseteq Certs
    BY <1>1 DEF AgentGetCerts, AgentsStop, TypeOK
  <2> QED  BY <2>1, <2>2 DEF store, process, caches, counters, TypeOK, Reading
<1>2. ASSUME NEW n \in Names, UserCreates(n) \/ UserEdits(n) \/ UserDeletes(n)
      PROVE  TypeOK' /\ Reading'
  <2>1. UNCHANGED <<secret, ds, template, process, fresh, caches, inUse, faults>>
    BY <1>2 DEF UserCreates, UserEdits, UserDeletes
  <2>2. changes' \in 0 .. MaxChanges
    BY <1>2, ConfigAssumption DEF UserCreates, UserEdits, UserDeletes, TypeOK
  <2>3. unseen' \in BOOLEAN
    <3>1. CASE UserCreates(n) \/ UserEdits(n)
      BY <3>1 DEF UserCreates, UserEdits, TypeOK
    <3>2. CASE UserDeletes(n)
      BY <3>2, Zenon DEF UserDeletes
    <3> QED  BY <1>2, <3>1, <3>2
  <2>4. config' \in [Names -> Configs \cup {Absent}] /\ created' \in 0 .. MaxConfigs
    <3>1. CASE UserCreates(n)
      BY <3>1, CreateTyped DEF UserCreates, AllSpecs
    <3>2. CASE UserEdits(n)
      <4>1. PICK s \in Specs : config' = [config EXCEPT ![n].spec = s]
        BY <3>2, Zenon DEF UserEdits
      <4>2. config[n] \in Configs
        BY <3>2 DEF UserEdits, TypeOK
      <4>3. [config[n] EXCEPT !.spec = s] \in Configs
        BY <4>2 DEF Configs, AllSpecs
      <4> QED  BY <3>2, <4>1, <4>3, Zenon DEF UserEdits, TypeOK
    <3>3. CASE UserDeletes(n)
      BY <3>3 DEF UserDeletes, TypeOK
    <3> QED  BY <1>2, <3>1, <3>2, <3>3
  <2> QED  BY <2>1, <2>2, <2>3, <2>4 DEF process, caches, TypeOK, Reading
<1>3. CASE Meddle \/ CollectDs \/ ReleaseDs
  <2>1. Others
    BY <1>3 DEF Meddle, CollectDs, ReleaseDs
  <2>2. changes' \in 0 .. MaxChanges
    <3>1. changes' = changes \/ (changes < MaxChanges /\ changes' = changes + 1)
      BY <1>3, Zenon DEF Meddle, CollectDs, ReleaseDs
    <3> QED  BY <3>1, ConfigAssumption DEF TypeOK
  <2>3. ds \in DaemonSet /\ queue \in [Managers -> SUBSET Names]
    BY <1>3 DEF Meddle, CollectDs, ReleaseDs, TypeOK
  <2>4. PICK d \in DaemonSet \cup {Absent} : WriteDs(d, queue, {})
    BY <1>3, <2>3, MeddledIsOne, Zenon DEF Meddle, CollectDs, ReleaseDs, DeleteDs
  <2>5. /\ ds' \in DaemonSet \cup {Absent}
        /\ fresh' \subseteq Managers
        /\ queue' \in [Managers -> SUBSET Names]
    BY <2>3, <2>4, WriteDsTyped
  <2> QED  BY <2>1, <2>2, <2>5 DEF Others, caches, TypeOK, Reading
<1> QED  BY <1>1, <1>2, <1>3

\* Types are kept, together with the certificates.
LEMMA Typed == Spec => [](TypeOK /\ Reading)
<1>1. Init => TypeOK /\ Reading
  <2> SUFFICES ASSUME Init
               PROVE  TypeOK /\ Reading
    OBVIOUS
  <2>1. template \in BOOLEAN /\ unseen \in BOOLEAN
    BY Zenon DEF Init
  <2>2. [n \in Names |-> Absent] \in [Names -> Configs \cup {Absent}]
    OBVIOUS
  <2>3. \A m \in Managers : pc[m] = "starting"
    BY DEF Init
  <2> QED  BY <2>1, <2>2, <2>3, ConfigAssumption DEF Init, TypeOK, Reading
<1>2. TypeOK /\ Reading /\ IInv /\ [Next]_vars => (TypeOK /\ Reading)'
  <2> SUFFICES ASSUME TypeOK, Reading, IInv, [Next]_vars
               PROVE  TypeOK' /\ Reading'
    OBVIOUS
  <2>1. CASE Next
    BY <2>1, ReconcileTyped, ManagerTyped, OtherTyped, Zenon DEF Next, ManagerStep
  <2>2. CASE UNCHANGED vars
    BY <2>2 DEF vars, store, process, caches, counters, TypeOK, Reading
  <2> QED  BY <2>1, <2>2
<1> QED  BY <1>1, <1>2, Inductive, PTL DEF Spec

\* Every object, copy and queue has its type; in particular the agents are
\* never handed an empty path or a time of zero (syncConfigDaemonSet).
THEOREM TypeCorrect == Spec => []TypeOK
BY Typed, PTL

-------------------------------------------------------------------------------
(***************************************************************************)
(* What others put on the DaemonSet.  A manager updates it only if what it *)
(* has read is still what is stored.                                       *)
(***************************************************************************)
CopiesCurrent ==
    /\ \A m \in fresh : pc[m] = "apply" /\ existing[m] = ds
    /\ ds # Absent /\ "team" \in DOMAIN ds.labels => ds.labels["team"] = "foreign"

\* What a step that writes d may not do to what others have put there.
Keeps(d) ==
    /\ "team" \in DOMAIN ds.labels =>
         "team" \in DOMAIN d.labels /\ d.labels["team"] = ds.labels["team"]
    /\ ds.meta.finalizer => d.meta.finalizer

\* A write of the DaemonSet leaves no copy that is out of date.
LEMMA WriteKept ==
    ASSUME CopiesCurrent, NEW d, NEW q, NEW done, WriteDs(d, q, done),
           \A m \in Managers : m \notin done => UNCHANGED <<pc[m], existing[m]>>,
           fresh \subseteq Managers,
           d # Absent /\ "team" \in DOMAIN d.labels => d.labels["team"] = "foreign"
    PROVE  CopiesCurrent'
<1>1. \A m \in fresh' : d = ds /\ m \in fresh /\ m \notin done
  BY DEF WriteDs
<1> QED  BY <1>1 DEF WriteDs, CopiesCurrent

\* An update keeps the label and the finalizer, and adds no such label.
LEMMA DesiredKeeps ==
    ASSUME NEW m \in Managers, existing[m] # Absent, existing[m] = ds
    PROVE  /\ Keeps(Desired(m))
           /\ "team" \in DOMAIN Desired(m).labels => "team" \in DOMAIN ds.labels
<1> DEFINE r == Rendered(req[m], cr[m])
<1>1. Desired(m) = MergeObjectForUpdate(ds, r)
  BY SMTT(30) DEF Desired
<1>2. "team" \notin DOMAIN r.labels
  BY DEF Rendered
<1> HIDE DEF r
<1>3. KeepsClusterState(ds, r, Desired(m))
  BY <1>1, MergeIsSound, SMTT(30) DEF Settles
<1>4. Desired(m).labels = Over(r.labels, ds.labels)
  BY <1>1, SMTT(30) DEF MergeObjectForUpdate, mergeLabels
<1>5. DOMAIN Over(r.labels, ds.labels) = DOMAIN r.labels \cup DOMAIN ds.labels
  BY DEF Over
<1>6. Keeps(Desired(m))
  BY <1>2, <1>3 DEF KeepsClusterState, Keeps
<1> QED  BY <1>2, <1>4, <1>5, <1>6

\* What others do to the DaemonSet.
LEMMA MeddledKeeps ==
    ASSUME TypeOK, CopiesCurrent, Meddle \/ CollectDs \/ ReleaseDs
    PROVE  \E d : /\ WriteDs(d, queue, {})
                  /\ d # Absent =>
                       /\ Keeps(d)
                       /\ "team" \in DOMAIN d.labels => d.labels["team"] = "foreign"
<1>0. ds \in DaemonSet /\ ds # Absent
  BY DEF Meddle, CollectDs, ReleaseDs, TypeOK
<1>1. ASSUME NEW k \in Keys,
             WriteDs([ds EXCEPT !.labels = Over([x \in {k} |-> "foreign"], @)], queue, {})
      PROVE  \E d : /\ WriteDs(d, queue, {})
                    /\ d # Absent =>
                         /\ Keeps(d)
                         /\ "team" \in DOMAIN d.labels => d.labels["team"] = "foreign"
  <2> DEFINE d == [ds EXCEPT !.labels = Over([x \in {k} |-> "foreign"], @)]
  <2>1. d.labels = Over([x \in {k} |-> "foreign"], ds.labels) /\ d.meta = ds.meta
    BY <1>0, Zenon DEF DaemonSet
  <2>2. /\ "team" \in DOMAIN ds.labels => "team" \in DOMAIN d.labels
        /\ "team" \in DOMAIN d.labels => d.labels["team"] = "foreign"
    BY <1>0, <2>1 DEF Over, CopiesCurrent
  <2>3. Keeps(d)
    BY <1>0, <2>1, <2>2 DEF Keeps, CopiesCurrent
  <2> QED  BY <1>1, <2>2, <2>3, Zenon
<1>2. ASSUME NEW d \in {[ds EXCEPT !.meta.finalizer = TRUE],
                        [ds EXCEPT !.meta.finalizer = TRUE, !.meta.deleting = TRUE]}
      PROVE  /\ Keeps(d)
             /\ "team" \in DOMAIN d.labels => d.labels["team"] = "foreign"
  <2> DEFINE held == [ds EXCEPT !.meta.finalizer = TRUE]
             going == [ds EXCEPT !.meta.finalizer = TRUE, !.meta.deleting = TRUE]
  <2>1. held.labels = ds.labels /\ held.meta.finalizer = TRUE
    BY <1>0, Zenon DEF DaemonSet
  <2>2. going.labels = ds.labels /\ going.meta.finalizer = TRUE
    BY <1>0, Zenon DEF DaemonSet
  <2>3. d.labels = ds.labels /\ d.meta.finalizer = TRUE
    BY <1>2, <2>1, <2>2, Zenon
  <2> QED  BY <1>0, <2>3 DEF Keeps, CopiesCurrent
<1>3. CASE WriteDs(Absent, queue, {})
  BY <1>3
<1> QED  BY <1>1, <1>2, <1>3, Zenon DEF Meddle, CollectDs, ReleaseDs, DeleteDs

\* The manifest has one label, and that is the code's own.
LEMMA RenderedLabels ==
    ASSUME NEW n, NEW c
    PROVE  "team" \notin DOMAIN Rendered(n, c).labels
<1>1. Rendered(n, c).labels = [k \in {"k8s-app"} |-> "poison-pill"]
  BY Zenon DEF Rendered
<1>2. DOMAIN Rendered(n, c).labels = {"k8s-app"}
  BY <1>1, Zenon
<1> QED  BY <1>2

\* A step of a manager.
LEMMA ManagerKept ==
    ASSUME TypeOK, CopiesCurrent, NEW m \in Managers, NEW lost \in BOOLEAN,
           \/ NewConfigIfNotExist(m) \/ StartManager(m) \/ RestartManager(m)
           \/ SyncSecret(m)
           \/ \E n \in Names : SyncConfig(m, n) \/ Resync(m, n)
           \/ Reconcile(m) \/ DefaultPpcCreator(m, lost) \/ GetCerts(m)
           \/ StoreCerts(m, lost) \/ GetDaemonSet(m) \/ ApplyObject(m, lost)
           \/ NothingToUpdate(m) \/ CallFails(m)
    PROVE  CopiesCurrent' /\ (ds # Absent /\ ds' # Absent => Keeps(ds'))
<1>0. fresh \subseteq Managers /\ pc \in [Managers -> Places]
      /\ existing \in [Managers -> DaemonSet \cup {Absent}]
  BY DEF TypeOK, Places
<1>1. ASSUME UNCHANGED ds, fresh' \subseteq fresh, m \notin fresh',
             \A k \in Managers \ {m} : UNCHANGED <<pc[k], existing[k]>>
      PROVE  CopiesCurrent' /\ (ds # Absent /\ ds' # Absent => Keeps(ds'))
  BY <1>0, <1>1, Zenon DEF CopiesCurrent, Keeps
<1>2. ASSUME Return(m) \/ (UNCHANGED existing /\ \E l \in Places : Goto(m, l))
      PROVE  \A k \in Managers \ {m} : UNCHANGED <<pc[k], existing[k]>>
  BY <1>0, <1>2 DEF Return, Goto
<1>3. CASE NewConfigIfNotExist(m) \/ StartManager(m)
  <2>1. /\ UNCHANGED <<ds, fresh, existing>> /\ pc[m] # "apply"
        /\ Goto(m, "template") \/ Goto(m, "idle")
    BY <1>3 DEF NewConfigIfNotExist, StartManager
  <2> QED  BY <1>1, <1>2, <2>1, Zenon DEF CopiesCurrent, Places
<1>4. CASE RestartManager(m)
  <2>1. /\ UNCHANGED ds /\ fresh' = fresh \ {m}
        /\ pc' = [pc EXCEPT ![m] = "starting"]
        /\ existing' = [existing EXCEPT ![m] = Absent]
    BY <1>4 DEF RestartManager, store, Goto
  <2> QED  BY <1>0, <1>1, <2>1
<1>5. CASE SyncSecret(m) \/ \E n \in Names : SyncConfig(m, n) \/ Resync(m, n)
  <2>1. UNCHANGED <<ds, fresh, pc, existing>>
    BY <1>5 DEF SyncSecret, SyncConfig, Resync, store, process
  <2> QED  BY <2>1, Zenon DEF CopiesCurrent, Keeps
<1>6. CASE Reconcile(m) \/ GetCerts(m)
  <2>1. /\ UNCHANGED <<ds, fresh, existing>> /\ pc[m] # "apply"
        /\ \E l \in {"create", "getCerts", "getDs", "storeCerts"} : Goto(m, l)
    BY <1>6, ZenonT(30) DEF Reconcile, GetCerts, store
  <2> QED  BY <1>1, <1>2, <2>1, Zenon DEF CopiesCurrent, Places
<1>7. CASE DefaultPpcCreator(m, lost) \/ StoreCerts(m, lost)
  <2>1. /\ UNCHANGED <<ds, fresh>> /\ pc[m] # "apply"
        /\ Return(m) \/ (UNCHANGED existing /\ Goto(m, "getDs"))
    BY <1>7 DEF DefaultPpcCreator, StoreCerts
  <2> QED  BY <1>1, <1>2, <2>1, Zenon DEF CopiesCurrent, Places
<1>8. CASE GetDaemonSet(m)
  <2>1. /\ UNCHANGED ds /\ fresh' = fresh \cup {m}
        /\ pc' = [pc EXCEPT ![m] = "apply"]
        /\ existing' = [existing EXCEPT ![m] = ds]
    BY <1>8, Zenon DEF GetDaemonSet, store, Goto
  <2> QED  BY <1>0, <2>1, Zenon DEF CopiesCurrent, Keeps
<1>9. CASE NothingToUpdate(m) \/ CallFails(m)
  <2>1. UNCHANGED ds /\ fresh' = fresh \ {m} /\ Return(m)
    BY <1>9 DEF NothingToUpdate, CallFails, store
  <2> QED  BY <1>1, <1>2, <2>1, Zenon
<1>10. CASE ApplyObject(m, lost)
  <2>1. Return(m)
    BY <1>10 DEF ApplyObject
  <2>2. CASE ~Accepted(m)
    <3>1. UNCHANGED ds /\ fresh' = fresh \ {m}
      BY <1>10, <2>2 DEF ApplyObject
    <3> QED  BY <1>1, <1>2, <2>1, <3>1, Zenon
  <2>3. CASE Accepted(m)
    <3>1. WriteDs(Desired(m), After(m, lost), {m})
      BY <1>10, <2>3 DEF ApplyObject
    <3>2. \A k \in Managers : k \notin {m} => UNCHANGED <<pc[k], existing[k]>>
      BY <1>2, <2>1, Zenon
    <3>3. CASE existing[m] = Absent
      <4>1. Desired(m) = Rendered(req[m], cr[m]) /\ ds = Absent
        BY <2>3, <3>3, ZenonT(30) DEF Desired, Accepted
      <4>2. "team" \notin DOMAIN Desired(m).labels
        BY <4>1, RenderedLabels, Zenon
      <4> QED  BY <1>0, <3>1, <3>2, <4>1, <4>2, WriteKept, Zenon
    <3>4. CASE existing[m] # Absent
      <4>1. existing[m] = ds
        BY <2>3, <3>4, Zenon DEF Accepted, CopiesCurrent
      <4>2. /\ Keeps(Desired(m))
            /\ "team" \in DOMAIN Desired(m).labels => "team" \in DOMAIN ds.labels
        BY <3>4, <4>1, DesiredKeeps, ZenonT(30)
      <4>3. "team" \in DOMAIN Desired(m).labels => Desired(m).labels["team"] = "foreign"
        BY <3>4, <4>1, <4>2, Zenon DEF Keeps, CopiesCurrent
      <4>4. ds' = Desired(m)
        BY <3>1, Zenon DEF WriteDs
      <4> QED  BY <1>0, <3>1, <3>2, <4>2, <4>3, <4>4, WriteKept, Zenon
    <3> QED  BY <3>3, <3>4
  <2> QED  BY <2>2, <2>3
<1> QED  BY <1>3, <1>4, <1>5, <1>6, <1>7, <1>8, <1>9, <1>10

\* Any step.
LEMMA KeptStep ==
    ASSUME TypeOK, CopiesCurrent, [Next]_vars
    PROVE  CopiesCurrent' /\ (ds # Absent /\ ds' # Absent => Keeps(ds'))
<1>1. CASE Meddle \/ CollectDs \/ ReleaseDs
  <2>1. PICK d : /\ WriteDs(d, queue, {})
                 /\ d # Absent =>
                      /\ Keeps(d)
                      /\ "team" \in DOMAIN d.labels => d.labels["team"] = "foreign"
    BY <1>1, MeddledKeeps
  <2>2. UNCHANGED <<pc, existing>>
    BY <1>1, Zenon DEF Meddle, CollectDs, ReleaseDs, Others
  <2>3. fresh \subseteq Managers /\ ds' = d
    BY <2>1 DEF TypeOK, WriteDs
  <2> QED  BY <2>1, <2>2, <2>3, WriteKept
<1>2. CASE \/ AgentGetCerts \/ AgentsStop \/ UNCHANGED vars
           \/ \E n \in Names : UserCreates(n) \/ UserEdits(n) \/ UserDeletes(n)
  <2>1. UNCHANGED <<ds, fresh, pc, existing>>
    BY <1>2 DEF AgentGetCerts, AgentsStop, UserCreates, UserEdits, UserDeletes, vars,
       store, process
  <2> QED  BY <2>1 DEF CopiesCurrent, Keeps
<1> QED  BY <1>1, <1>2, ManagerKept, ZenonT(30) DEF Next, ManagerStep

\* No update by a manager loses a label or a finalizer that others have put
\* on the DaemonSet, however the update interleaves with theirs: a copy that
\* is out of date is refused, and merging keeps the rest (ApplyObject).
THEOREM NothingForeignLost == Spec => ForeignMetadataKept
<1>1. Init => CopiesCurrent
  BY DEF Init, CopiesCurrent
<1>2. TypeOK /\ CopiesCurrent /\ [Next]_vars => CopiesCurrent'
  BY KeptStep
<1>3. TypeOK /\ CopiesCurrent /\ [Next]_vars =>
        [ds # Absent /\ ds' # Absent =>
          /\ "team" \in DOMAIN ds.labels =>
                 "team" \in DOMAIN ds'.labels /\ ds'.labels["team"] = ds.labels["team"]
          /\ ds.meta.finalizer => ds'.meta.finalizer]_vars
  BY KeptStep DEF Keeps
<1> QED  BY <1>1, <1>2, <1>3, TypeCorrect, PTL DEF Spec, ForeignMetadataKept
===============================================================================
