------------------------------ MODULE MCConfig ------------------------------
(* Instances of Config for TLC. *)
EXTENDS Config

MCNames == {DefaultName, "other"}
\* Objects that tell apart what the kinds, annotations and fields tell apart.
MCObjects ==
    {[kind |-> k, annotations |-> [x \in a |-> v], labels |-> [x \in l |-> v],
      fields |-> [x \in f |-> v], meta |-> v] :
        k \in {"Deployment", "Service", "ServiceAccount"},
        a \in SUBSET {Revision, "other"}, l \in SUBSET {"label"},
        f \in {{}, {"clusterIP", "ipFamilyPolicy"}, {"secrets", "ports"}},
        v \in {1, 2}}

MCSpecs == {[path |-> "/dev/foo", time |-> 0]}
=============================================================================
