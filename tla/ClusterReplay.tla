---------------------------- MODULE ClusterReplay ----------------------------
(***************************************************************************)
(* The kernel beside its own replay.  A restarted controller restores a    *)
(* snapshot, whose clock is that of its writing, and applies the journaled *)
(* commands to it (NodeService::replay, Cluster::replay).  Clock, epoch    *)
(* and agreement are not journaled; the controller never changes the last  *)
(* two.  Whatever else the kernel holds is shared: the replay has followed *)
(* every command so far.                                                   *)
(***************************************************************************)
EXTENDS Cluster

VARIABLE clock      \* the clock in the snapshot

Replayed == INSTANCE Cluster WITH now <- clock, Replaying <- TRUE

ReplayInit == Init /\ clock = 0

\* A compaction writes the kernel, with its clock.
Snapshot ==
    /\ clock' = now
    /\ UNCHANGED vars

ReplayNext == (Next /\ UNCHANGED clock) \/ Snapshot

ReplaySpec == ReplayInit /\ [][ReplayNext]_<<vars, clock>>

ReplayStep == Next /\ UNCHANGED clock_vars => Replayed!Next

\* Every command the kernel accepted is accepted again when it is replayed
\* over the snapshot, at the clock of the snapshot, and leaves the same
\* leases, bindings, sessions and fences: a restart neither refuses its own
\* history nor reads it differently (replay, expire_lease, activate_lease,
\* promote_lease, renew_lease).
ReplayAgrees == [][ReplayStep]_vars
=============================================================================
