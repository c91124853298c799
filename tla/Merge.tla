-------------------------------- MODULE Merge ---------------------------------
(***************************************************************************)
(* How ApplyObject merges an object it has rendered with the one in the    *)
(* API server (pkg/apply/merge.go).                                        *)
(*                                                                         *)
(* An object has a kind, annotations, labels, fields (functions on the     *)
(* names that are set; a nil map is an empty one), and the metadata that   *)
(* is taken over from the stored object as it is.  Fields have the types   *)
(* their kind gives them, so that reading them yields no error.            *)
(***************************************************************************)
CONSTANT Objects  \* objects of any kind, rendered or stored

\* What Go passes as unstructured.Unstructured.
IsObject(o) ==
    o = [kind |-> o.kind, annotations |-> o.annotations, labels |-> o.labels,
         fields |-> o.fields, meta |-> o.meta]

ASSUME ObjectsAssumption == \A o \in Objects : IsObject(o)

Over(f, g) ==
    [x \in DOMAIN f \cup DOMAIN g |-> IF x \in DOMAIN f THEN f[x] ELSE g[x]]

Only(f, names) == [x \in DOMAIN f \cap names |-> f[x]]

Revision == "deployment.kubernetes.io/revision"

\* The annotations to render.  Faulty variant: what we render wins.
mergeDeploymentIgnored(current, updated) == updated.annotations

mergeDeploymentForUpdate(current, updated) ==
    IF updated.kind = "Deployment"
    THEN Over(Only(current.annotations, {Revision}), updated.annotations)
    ELSE updated.annotations

\* The fields: the policy may be set by us, the rest is the cluster's.
mergeServiceForUpdate(current, updated) ==
    IF updated.kind = "Service"
    THEN Over(Only(current.fields, {"clusterIP", "clusterIPs", "ipFamilies"}),
              Over(updated.fields, Only(current.fields, {"ipFamilyPolicy"})))
    ELSE updated.fields

mergeServiceAccountForUpdate(current, updated) ==
    IF updated.kind = "ServiceAccount"
    THEN Over(Only(current.fields, {"secrets", "imagePullSecrets"}),
              updated.fields)
    ELSE updated.fields

mergeAnnotations(current, rendered) == Over(rendered, current.annotations)

mergeLabels(current, updated) == Over(updated.labels, current.labels)

\* A Service is not a ServiceAccount: one of the two changes no field.
MergeObjectForUpdate(current, updated) ==
    [kind |-> updated.kind,
     fields |-> IF updated.kind = "Service"
                THEN mergeServiceForUpdate(current, updated)
                ELSE mergeServiceAccountForUpdate(current, updated),
     annotations |-> mergeAnnotations(current,
                         mergeDeploymentForUpdate(current, updated)),
     labels |-> mergeLabels(current, updated),
     meta |-> current.meta]

\* ServiceAccounts with secrets are refused.
IsObjectSupported(obj) ==
    ~(/\ obj.kind = "ServiceAccount"
      /\ "secrets" \in DOMAIN obj.fields
      /\ obj.fields["secrets"] # <<>>)

-------------------------------------------------------------------------------

\* What the cluster sets in the fields of an object of that kind.
ClusterFields(kind) ==
    IF kind = "Service" THEN {"clusterIP", "clusterIPs", "ipFamilies"}
    ELSE IF kind = "ServiceAccount" THEN {"secrets", "imagePullSecrets"}
    ELSE {}

\* What the cluster has set stays: its fields, the revision of a Deployment,
\* metadata, and whatever labels and annotations we do not render.
KeepsClusterState(current, updated, merged) ==
    /\ merged.meta = current.meta
    /\ \A f \in ClusterFields(updated.kind) \cap DOMAIN current.fields :
         f \in DOMAIN merged.fields /\ merged.fields[f] = current.fields[f]
    /\ \A a \in DOMAIN current.annotations :
         /\ a \in DOMAIN merged.annotations
         /\ \/ a \notin DOMAIN updated.annotations
            \/ updated.kind = "Deployment" /\ a = Revision
            => merged.annotations[a] = current.annotations[a]
    /\ \A l \in DOMAIN current.labels :
         /\ l \in DOMAIN merged.labels
         /\ l \notin DOMAIN updated.labels => merged.labels[l] = current.labels[l]

\* Everything else that we render is in the merged object as we render it.
TakesRendered(current, updated, merged) ==
    /\ merged.kind = updated.kind
    /\ \A f \in DOMAIN updated.fields :
         /\ f \in DOMAIN merged.fields
         /\ f \notin ClusterFields(updated.kind) \cap DOMAIN current.fields
              => merged.fields[f] = updated.fields[f]
    /\ \A l \in DOMAIN updated.labels :
         l \in DOMAIN merged.labels /\ merged.labels[l] = updated.labels[l]
    /\ \A a \in DOMAIN updated.annotations :
         /\ a \in DOMAIN merged.annotations
         /\ ~(updated.kind = "Deployment" /\ a = Revision)
              => merged.annotations[a] = updated.annotations[a]

\* Merging keeps what is the cluster's and takes what is ours, and merging
\* once more into what has been stored changes nothing: ApplyObject has
\* nothing left to update, and does not wake the managers up for ever.
Settles(current, updated) ==
    LET merged == MergeObjectForUpdate(current, updated)
    IN  /\ KeepsClusterState(current, updated, merged)
        /\ TakesRendered(current, updated, merged)
        /\ MergeObjectForUpdate(merged, updated) = merged

AllSettle == \A current, updated \in Objects : Settles(current, updated)
===============================================================================
