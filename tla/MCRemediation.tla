---------------------------- MODULE MCRemediation ----------------------------
(* Instances of Remediation for TLC. *)
EXTENDS Remediation, TLC

MCTaints == {"unschedulable"}

\* What tells states apart where rebooting is in no property: no guard and no
\* other variable depends on it.
MCView == <<now, apiVars, cacheVars, queue>>
==============================================================================
