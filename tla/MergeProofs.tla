------------------------------ MODULE MergeProofs -----------------------------
(***************************************************************************)
(* What MergeObjectForUpdate does, for objects of every kind and with any  *)
(* labels, annotations and fields.                                         *)
(***************************************************************************)
EXTENDS Merge, TLAPS

\* Writing the same entries over a function again changes nothing: labels,
\* and annotations of what is not a Deployment (mergeLabels, mergeAnnotations).
LEMMA OverAgain ==
    ASSUME NEW f, NEW g
    PROVE  Over(f, Over(f, g)) = Over(f, g)
BY DEF Over

\* Nor does taking over the same entries again, as of a ServiceAccount
\* (mergeServiceAccountForUpdate).
LEMMA OverKeeping ==
    ASSUME NEW u, NEW c, NEW names
    PROVE  LET m == Over(Only(c, names), u)
           IN  Over(Only(m, names), u) = m
BY SMTT(30) DEF Over, Only

\* Nor does taking over one annotation and then all that are not rendered
\* (mergeDeploymentForUpdate, mergeAnnotations).
LEMMA OverRevision ==
    ASSUME NEW u, NEW c, NEW names
    PROVE  LET m == Over(Over(Only(c, names), u), c)
           IN  Over(Over(Only(m, names), u), m) = m
BY ZenonT(30) DEF Over, Only

\* Nor does taking over some fields, and others where we render none
\* (mergeServiceForUpdate).
LEMMA OverPolicy ==
    ASSUME NEW u, NEW c, NEW names, NEW policy
    PROVE  LET m == Over(Only(c, names), Over(u, Only(c, policy)))
           IN  Over(Only(m, names), Over(u, Only(m, policy))) = m
BY DEF Over, Only

\* The steps of MergeObjectForUpdate in one.
LEMMA Merged ==
    ASSUME NEW current, NEW updated
    PROVE  MergeObjectForUpdate(current, updated) =
             [kind |-> updated.kind,
              annotations |->
                Over(IF updated.kind = "Deployment"
                     THEN Over(Only(current.annotations, {Revision}),
                               updated.annotations)
                     ELSE updated.annotations,
                     current.annotations),
              labels |-> Over(updated.labels, current.labels),
              fields |->
                IF updated.kind = "Service"
                THEN Over(Only(current.fields,
                               {"clusterIP", "clusterIPs", "ipFamilies"}),
                          Over(updated.fields,
                               Only(current.fields, {"ipFamilyPolicy"})))
                ELSE IF updated.kind = "ServiceAccount"
                THEN Over(Only(current.fields, {"secrets", "imagePullSecrets"}),
                          updated.fields)
                ELSE updated.fields,
              meta |-> current.meta]
BY DEF MergeObjectForUpdate, mergeServiceAccountForUpdate,
       mergeServiceForUpdate, mergeDeploymentForUpdate, mergeAnnotations,
       mergeLabels

\* Merging what we render into the merged object yields that object
\* (MergeObjectForUpdate).
LEMMA Settled ==
    ASSUME NEW current, NEW updated
    PROVE  LET merged == MergeObjectForUpdate(current, updated)
           IN  MergeObjectForUpdate(merged, updated) = merged
<1> DEFINE m == MergeObjectForUpdate(current, updated)
           n == MergeObjectForUpdate(m, updated)
<1>0. n.kind = m.kind /\ n.meta = m.meta
  BY Merged
<1>1. n.labels = m.labels
  BY Merged, OverAgain
<1>2. n.annotations = m.annotations
  BY Merged, OverAgain, OverRevision
<1>3. n.fields = m.fields
  BY Merged, OverKeeping, OverPolicy
<1>4. IsObject(m) /\ IsObject(n)
  BY Merged DEF IsObject
<1> QED  BY <1>0, <1>1, <1>2, <1>3, <1>4 DEF IsObject

\* What the cluster has set is in the merged object (MergeObjectForUpdate).
LEMMA Kept ==
    ASSUME NEW current, NEW updated
    PROVE  KeepsClusterState(current, updated,
                             MergeObjectForUpdate(current, updated))
<1> DEFINE m == MergeObjectForUpdate(current, updated)
           owned == ClusterFields(updated.kind)
<1> HIDE DEF m, owned
<1>1. m.meta = current.meta
  BY Merged DEF m
<1>2. ASSUME NEW f \in owned \cap DOMAIN current.fields
      PROVE  f \in DOMAIN m.fields /\ m.fields[f] = current.fields[f]
  <2>1. PICK g : m.fields = Over(Only(current.fields, owned), g)
    BY Merged DEF ClusterFields, m, owned
  <2> QED  BY <2>1 DEF Over, Only
<1>3. ASSUME NEW a \in DOMAIN current.annotations
      PROVE  /\ a \in DOMAIN m.annotations
             /\ \/ a \notin DOMAIN updated.annotations
                \/ updated.kind = "Deployment" /\ a = Revision
                => m.annotations[a] = current.annotations[a]
  <2>1. CASE updated.kind = "Deployment"
    <3>1. m.annotations = Over(Over(Only(current.annotations, {Revision}),
                                    updated.annotations),
                               current.annotations)
      BY <2>1, Merged DEF m
    <3> QED  BY <3>1 DEF Over, Only
  <2>2. CASE updated.kind # "Deployment"
    <3>1. m.annotations = Over(updated.annotations, current.annotations)
      BY <2>2, Merged DEF m
    <3> QED  BY <2>2, <3>1 DEF Over
  <2> QED  BY <2>1, <2>2
<1>4. ASSUME NEW l \in DOMAIN current.labels
      PROVE  /\ l \in DOMAIN m.labels
             /\ l \notin DOMAIN updated.labels
                  => m.labels[l] = current.labels[l]
  <2>1. m.labels = Over(updated.labels, current.labels)
    BY Merged DEF m
  <2> QED  BY <2>1 DEF Over
<1> QED  BY <1>1, <1>2, <1>3, <1>4 DEF KeepsClusterState, m, owned

\* What we render is in the merged object (MergeObjectForUpdate).
LEMMA Taken ==
    ASSUME NEW current, NEW updated
    PROVE  TakesRendered(current, updated,
                         MergeObjectForUpdate(current, updated))
<1> DEFINE m == MergeObjectForUpdate(current, updated)
           owned == ClusterFields(updated.kind)
<1> HIDE DEF m, owned
<1>1. m.kind = updated.kind
  BY Merged DEF m
<1>2. ASSUME NEW f \in DOMAIN updated.fields
      PROVE  /\ f \in DOMAIN m.fields
             /\ f \notin owned \cap DOMAIN current.fields
                  => m.fields[f] = updated.fields[f]
  <2>1. CASE updated.kind = "Service"
    <3>1. m.fields = Over(Only(current.fields, owned),
                          Over(updated.fields,
                               Only(current.fields, {"ipFamilyPolicy"})))
      BY <2>1, Merged DEF ClusterFields, m, owned
    <3> QED  BY <3>1 DEF Over, Only
  <2>2. CASE updated.kind = "ServiceAccount"
    <3>1. m.fields = Over(Only(current.fields, owned), updated.fields)
      BY <2>2, Merged DEF ClusterFields, m, owned
    <3> QED  BY <3>1 DEF Over, Only
  <2>3. CASE updated.kind \notin {"Service", "ServiceAccount"}
    BY <2>3, Merged DEF m
  <2> QED  BY <2>1, <2>2, <2>3
<1>3. ASSUME NEW l \in DOMAIN updated.labels
      PROVE  l \in DOMAIN m.labels /\ m.labels[l] = updated.labels[l]
  <2>1. m.labels = Over(updated.labels, current.labels)
    BY Merged DEF m
  <2> QED  BY <2>1 DEF Over
<1>4. ASSUME NEW a \in DOMAIN updated.annotations
      PROVE  /\ a \in DOMAIN m.annotations
             /\ ~(updated.kind = "Deployment" /\ a = Revision)
                  => m.annotations[a] = updated.annotations[a]
  <2>1. CASE updated.kind = "Deployment"
    <3>1. m.annotations = Over(Over(Only(current.annotations, {Revision}),
                                    updated.annotations),
                               current.annotations)
      BY <2>1, Merged DEF m
    <3> QED  BY <2>1, <3>1 DEF Over, Only
  <2>2. CASE updated.kind # "Deployment"
    <3>1. m.annotations = Over(updated.annotations, current.annotations)
      BY <2>2, Merged DEF m
    <3> QED  BY <3>1 DEF Over
  <2> QED  BY <2>1, <2>2
<1> QED  BY <1>1, <1>2, <1>3, <1>4 DEF TakesRendered, m, owned

\* MergeObjectForUpdate keeps what is the cluster's, takes what is ours, and
\* leaves ApplyObject nothing to do the next time.
THEOREM MergeIsSound == \A current, updated : Settles(current, updated)
BY Settled, Kept, Taken DEF Settles
===============================================================================
