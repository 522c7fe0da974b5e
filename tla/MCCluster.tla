------------------------------ MODULE MCCluster ------------------------------
(***************************************************************************)
(* Instances of Cluster, beside its replay, for TLC.  Machine m1 holds the *)
(* leaf n1 and, in the second run, the leaf n2; m2 is a machine that n1    *)
(* may move to.  A run covers several shapes: which part of the inputs the *)
(* commands of one behaviour draw from.                                    *)
(***************************************************************************)
EXTENDS ClusterGrants, ClusterReplay, TLC

CONSTANTS m1, m2, n1, n2, p1, Shapes

VARIABLE shape      \* the shape of this behaviour

Share == [provider |-> p1, scope |-> "IndependentShare"]
Excl  == [provider |-> p1, scope |-> "Exclusive"]

\* Leaves hold cap units under the given contract; n1 is on machine m.
GraphOf(cap, k, m) ==
    LET leaf(n)    == n \notin Machines
        machine(n) == IF n = n1 THEN m ELSE IF n = n2 THEN m1 ELSE n
    IN  [capacity   |-> [n \in Nodes |-> IF leaf(n) THEN cap ELSE 0],
         machine_of |-> [n \in Nodes |-> machine(n)],
         ancestors  |-> [n \in Nodes |-> IF leaf(n) THEN {machine(n)} ELSE {}],
         contract   |-> [n \in Nodes |-> IF leaf(n) THEN k ELSE None]]

\* The same quantity of every node of S.
ClaimOf(S, q) == [n \in Nodes |-> IF n \in S THEN q ELSE 0]

\* No action reads the effects of the command before it.
KernelView ==
    <<clock_vars, graph_vars, lease_vars, binding_vars, node_vars, clock, shape>>

LeaseSymmetry == Permutations(Leases)

Opened == Cardinality({l \in Leases : lease_state[l] # "Absent"})

\* Lease trees on one node of two shareable units.
Tree ==
    /\ graph = GraphOf(2, Share, m1) /\ revision = 1
    /\ \A k \in DOMAIN last_fence : last_fence[k] = 0
    /\ binding_state[2] = "Absent"

\* Two leases and two bindings on one node, whose contract changes between
\* exclusive and shared; "tree" has the other ways to end.
Endpoint ==
    /\ epoch = 1 /\ Opened <= 2
    /\ \A l \in Leases : /\ leases[l].claims[n1] <= 1 /\ leases[l].parent = None
                         /\ lease_state[l] \notin {"Revoked", "Completed"}

\* A gang of two exclusive nodes, whose agent is replaced.
Gang ==
    /\ graph = GraphOf(1, Excl, m1) /\ revision = 1
    /\ clock = 0 /\ Opened <= 1 /\ sessions[m2] = 0
    /\ \A l \in Leases : /\ leases[l].claims[n1] = leases[l].claims[n2]
                         /\ terms[l].expires_at <= 1
    /\ bindings[1].node # n2
    /\ node_states[m1] = "Schedulable"

\* A node that loses capacity, changes contract or moves to another machine,
\* while the state of its first machine changes.
Moving ==
    /\ revision = 1 => graph = GraphOf(1, Excl, m1)
    /\ now = 0 /\ clock = 0 /\ agreed /\ Opened <= 1
    /\ \A m \in Machines : sessions[m] <= 1
    /\ \A l \in Leases : leases[l].claims[n2] = 0 /\ terms[l].expires_at <= 1

\* Two leases and a clock, beside the replay.
Timed ==
    /\ graph = GraphOf(1, Share, m1) /\ revision = 1 /\ agreed
    /\ binding_state[2] = "Absent"
    /\ sessions[m1] <= 1 /\ sessions[m2] = 0
    /\ \A l \in Leases : leases[l].claims[n2] = 0
    /\ node_states[m1] = "Schedulable"

\* The controller hands out binding identities in ascending order.
InShape ==
    /\ binding_state[1] = "Absent" => binding_state[2] = "Absent"
    /\ CASE shape = "tree"     -> Tree
         [] shape = "endpoint" -> Endpoint
         [] shape = "gang"     -> Gang
         [] shape = "moving"   -> Moving
         [] shape = "timed"    -> Timed

ShapeInit == ReplayInit /\ shape \in Shapes /\ InShape

ShapeNext == ReplayNext /\ UNCHANGED shape /\ InShape'

ShapeSpec == ShapeInit /\ [][ShapeNext]_<<vars, clock, shape>>

\* ReplayAgrees, on the steps taken beside a clock (replay, expire_lease,
\* activate_lease, promote_lease, renew_lease).
TimedReplayAgrees == [][shape = "timed" => ReplayStep]_vars

AuthorityGraphs == {GraphOf(2, Share, m1), GraphOf(1, Excl, m1)}
AuthorityClaims == {ClaimOf({n1}, 1), ClaimOf({n1}, Whole)}

LifecycleGraphs == {GraphOf(1, Excl, m1), GraphOf(1, Excl, m2),
                    GraphOf(1, Share, m1), GraphOf(0, None, m1)}
LifecycleClaims == {ClaimOf({n1, n2}, 1), ClaimOf({n1}, 1)}
=============================================================================
