--------------------------- MODULE NodeRemediation ---------------------------
(***************************************************************************)
(* What the agents together promise about one node and the reports (PPRs)  *)
(* on it, whoever of them does the work and however late they hear of it.  *)
(*                                                                         *)
(* A reported node is claimed, cordoned, backed up and given a deadline in *)
(* one go, removed after the deadline, restored, and only then let go of.  *)
(* The one thing the agents do out of turn is to remove, by its name, a    *)
(* node that has taken the place of one they still believe to be there.    *)
(***************************************************************************)
EXTENDS Naturals

CONSTANT SafeTime   \* from the backup to the deadline, in seconds

VARIABLES
    now,          \* the clock
    reportedAt,   \* when the last report was made
    claimed,      \* the report cannot go away
    backedUp,     \* the report holds what the node is restored from
    deadline,     \* when the node is assumed to have rebooted, 0 for none
    incarnation,  \* how many nodes with this name there have been
    createdAt,    \* when the last one was created
    present,      \* it exists, and nobody has asked to delete it
    cordoned      \* it exists, and no new workload is placed on it

report == <<reportedAt, claimed, backedUp, deadline>>
node == <<incarnation, createdAt, present, cordoned>>
vars == <<now, report, node>>

Replaced == createdAt > reportedAt

\* Another node had this name before, which an agent may still take it for.
Successor == incarnation > 1

Init ==
    /\ now = 0 /\ reportedAt = 0 /\ createdAt = 0 /\ deadline = 0
    /\ incarnation = 1
    /\ present = TRUE
    /\ claimed = FALSE /\ backedUp = FALSE /\ cordoned = FALSE

Report ==
    /\ ~claimed
    /\ reportedAt' = now
    /\ deadline' = 0
    /\ ~claimed' /\ ~backedUp'
    /\ UNCHANGED <<now, node>>

Claim ==
    /\ ~claimed
    /\ claimed'
    /\ UNCHANGED <<now, reportedAt, backedUp, deadline, node>>

Cordon ==
    /\ present
    /\ cordoned'
    /\ UNCHANGED <<now, report, incarnation, createdAt, present>>

\* A deadline is never moved while the reported node is there or away.
SetDeadline ==
    /\ claimed
    /\ deadline = 0 \/ Replaced
    /\ present => cordoned \/ Successor
    /\ backedUp'
    /\ deadline' = now + SafeTime
    /\ UNCHANGED <<now, reportedAt, claimed, node>>

Gone ==
    /\ present
    /\ ~present' /\ ~cordoned'
    /\ UNCHANGED <<now, report, incarnation, createdAt>>

Remove ==
    /\ claimed /\ backedUp /\ cordoned /\ ~Replaced
    /\ deadline # 0 /\ deadline <= now
    /\ Gone

RemoveSuccessor == Successor /\ Gone

Restore ==
    /\ ~present
    /\ present' /\ ~cordoned'
    /\ incarnation' = incarnation + 1
    /\ createdAt' = now
    /\ UNCHANGED <<now, report>>

DropBackup ==
    /\ Replaced
    /\ ~backedUp'
    /\ UNCHANGED <<now, reportedAt, claimed, deadline, node>>

\* The report is let go of, and may go away with what it holds.
Release ==
    /\ claimed => Replaced
    /\ ~claimed'
    /\ UNCHANGED <<backedUp, deadline>> \/ (~backedUp' /\ deadline' = 0)
    /\ UNCHANGED <<now, reportedAt, node>>

Tick ==
    /\ now' = now + 1
    /\ UNCHANGED <<report, node>>

Next ==
    \/ Report \/ Claim \/ Cordon \/ SetDeadline \/ Remove \/ RemoveSuccessor
    \/ Restore \/ DropBackup \/ Release \/ Tick

Spec == Init /\ [][Next]_vars

\* The node that was there first is never away without a report that is still
\* held, with what the node is restored from and a deadline that has passed.
Recoverable ==
    ~Successor /\ ~present => claimed /\ backedUp /\ deadline # 0 /\ deadline <= now
==============================================================================
