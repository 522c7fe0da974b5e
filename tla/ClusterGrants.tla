---------------------------- MODULE ClusterGrants ----------------------------
(***************************************************************************)
(* The kernel seen by the agents: Cluster implements Grants.  A binding is *)
(* a grant, Released and Fenced are both closed, and an open binding is    *)
(* served by the machine of its node.                                      *)
(***************************************************************************)
EXTENDS Cluster

\* A kernel binding as a grant.
GrantStateOf(b) == IF binding_state[b] \in ClosedBinding THEN "Closed"
                                                         ELSE binding_state[b]

GrantOf(b) ==
    [endpoint |-> IF binding_state[b] = "Absent" THEN None
                  ELSE <<bindings[b].provider, bindings[b].node>>,
     scope    |-> bindings[b].scope,
     fence    |-> bindings[b].fence]

ServingOf(b) == IF Open(b) THEN graph.machine_of[bindings[b].node] ELSE None

\* A Reconcile effect names bindings and orders nothing.
OrdersOf(E) ==
    {[kind |-> e.kind, binding |-> e.binding, fence |-> e.fence] :
        e \in {x \in E : x.kind # "Reconcile"}}

GState   == [b \in Bindings |-> GrantStateOf(b)]
GGrants  == [b \in Bindings |-> GrantOf(b)]
GServing == [b \in Bindings |-> ServingOf(b)]
GOrders  == OrdersOf(effects)

G == INSTANCE Grants WITH
    Endpoints   <- Providers \X Nodes,
    grant_state <- GState,
    grants      <- GGrants,
    serving     <- GServing,
    confirmed   <- prepared,
    watermark   <- last_fence,
    orders      <- GOrders

\* Every step of the kernel is a step of the promise made to the agents, or
\* leaves it alone: leases, graph updates that move nodes, node states,
\* retries and late acknowledgements included.
ImplementsGrants == G!GrantSpec
=============================================================================
