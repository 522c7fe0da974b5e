------------------------------- MODULE Cluster -------------------------------
(***************************************************************************)
(* The kernel's transition function (crates/kernel/src/cluster.rs): one    *)
(* action per Command, guarded by the conditions under which the command   *)
(* is accepted.  A rejected command changes nothing and is not a step.     *)
(*                                                                         *)
(* Data that no decision depends on is left out: owners, priorities,       *)
(* reasons, exit codes and the value of a provider handle.  A quantity has *)
(* one dimension.  The resource graph is a member of Graphs, the set of    *)
(* graphs that discovery may install.                                      *)
(***************************************************************************)
EXTENDS Naturals, FiniteSets

CONSTANTS
    Leases,         \* lease identities
    Bindings,       \* binding identities, natural numbers
    Nodes,          \* resource nodes of the graph
    Machines,       \* the nodes an agent may register for
    Providers,      \* resource providers
    None,           \* the absent parent, machine or contract
    Whole,          \* a claim with an empty quantity: the node's capacity
    Graphs,         \* the graphs discovery may install
    ClaimSets,      \* the claims a lease may ask for
    Expiries,       \* the values expires_at may be given
    Deadlines,      \* the values prepare_deadline may be given
    ControlledNodes,\* the nodes whose state operators change
    AgreementInputs,\* the values set_agreement is called with
    Replaying,      \* whether committed history is replayed
    MaxQuantity,    \* bound on quantities (u64::MAX in the code)
    MaxRevision,    \* bound on graph.revision
    MaxTime,        \* bound on now
    MaxEpoch,       \* bound on epoch
    MaxSession,     \* bound on agent sessions
    MaxFence        \* bound on fences adopted from an endpoint

VARIABLES
    epoch,          \* controller generation, stamped on every effect
    now,            \* the clock the time guards read
    agreed,         \* whether the controller may commit new authority
    graph,          \* capacity, containment and contracts of the nodes
    revision,       \* graph.revision
    lease_state,    \* Leases -> state, "Absent" before the lease is opened
    leases,         \* Leases -> parent and claims
    terms,          \* Leases -> graph revision, expiry and prepare deadline
    binding_state,  \* Bindings -> state, "Absent" before it is opened
    bindings,       \* Bindings -> lease, endpoint, scope and fence
    agent_session,  \* Bindings -> session that last acknowledged it
    prepared,       \* the bindings with a provider handle
    sessions,       \* Machines -> current agent session, 0 before the first
    last_fence,     \* <<provider, node>> -> newest exclusive fence
    node_states,    \* Nodes -> control state
    effects         \* what the last command told the agents to do

clock_vars   == <<epoch, now, agreed>>
graph_vars   == <<graph, revision>>
lease_vars   == <<lease_state, leases, terms>>
binding_vars == <<binding_state, bindings, agent_session, prepared>>
node_vars    == <<sessions, last_fence, node_states>>

vars == <<clock_vars, graph_vars, lease_vars, binding_vars, node_vars, effects>>

-----------------------------------------------------------------------------
(* States, records and the assumptions on the constants.                   *)

LiveLease     == {"Reserved", "Preparing", "Active"}
EndedLease    == {"Failed", "Released", "Revoked", "Expired"}
LeaseState    == {"Absent", "Completed"} \cup LiveLease \cup EndedLease
OpenBinding   == {"Preparing", "Active", "Failed"}
ClosedBinding == {"Released", "Fenced"}
BindingState  == {"Absent"} \cup OpenBinding \cup ClosedBinding
BindingScope  == {"Exclusive", "IndependentShare"}
NodeState     == {"Joining", "Schedulable", "Draining", "Unavailable",
                  "Quarantined", "Retired"}
EffectKind    == {"Prepare", "Activate", "Release", "Fence", "Reconcile"}

Quantity == 0 .. MaxQuantity
Claims   == [Nodes -> Quantity]
Contract == [provider : Providers, scope : BindingScope]

Graph == [capacity   : Claims,
          machine_of : [Nodes -> Machines \cup {None}],
          ancestors  : [Nodes -> SUBSET Nodes],
          contract   : [Nodes -> Contract \cup {None}]]

Lease   == [parent : Leases \cup {None}, claims : Claims]
Terms   == [revision : Nat, expires_at : Nat, prepare_deadline : Nat]
Binding == [lease : Leases \cup {None}, node : Nodes \cup {None},
            provider : Providers \cup {None}, scope : BindingScope, fence : Nat]

Effect == [kind : EffectKind, binding : Bindings, fence : Nat,
           session : Nat, epoch : Nat]

ASSUME ConstantsAssumption ==
    /\ IsFiniteSet(Leases) /\ None \notin Leases
    /\ IsFiniteSet(Bindings) /\ Bindings \subseteq Nat
    /\ IsFiniteSet(Nodes) /\ None \notin Nodes
    /\ ControlledNodes \subseteq Nodes
    /\ Machines \subseteq Nodes /\ None \notin Machines
    /\ None \notin Providers
    /\ None \notin Contract
    /\ MaxQuantity \in Nat /\ MaxRevision \in Nat /\ MaxTime \in Nat
    /\ MaxEpoch \in Nat /\ MaxSession \in Nat /\ MaxFence \in Nat
    /\ Graphs \subseteq Graph
    /\ ClaimSets \subseteq [Nodes -> Quantity \cup {Whole}]
    /\ Expiries \subseteq Nat /\ Deadlines \subseteq Nat
    /\ AgreementInputs \subseteq BOOLEAN /\ Replaying \in BOOLEAN

\* Containment and service agree: a node is its own machine or below it.
ASSUME GraphsAssumption ==
    \A g \in Graphs : \A n \in Nodes :
        g.machine_of[n] = None \/ g.machine_of[n] \in {n} \cup g.ancestors[n]

NoLease   == [parent |-> None, claims |-> [n \in Nodes |-> 0]]
NoTerms   == [revision |-> 0, expires_at |-> 0, prepare_deadline |-> 0]
NoBinding == [lease |-> None, node |-> None, provider |-> None,
              scope |-> "Exclusive", fence |-> 0]

TypeOK ==
    /\ epoch \in Nat /\ now \in Nat /\ agreed \in BOOLEAN
    /\ graph \in Graphs /\ revision \in Nat
    /\ lease_state \in [Leases -> LeaseState]
    /\ leases \in [Leases -> Lease]
    /\ terms \in [Leases -> Terms]
    /\ binding_state \in [Bindings -> BindingState]
    /\ bindings \in [Bindings -> Binding]
    /\ agent_session \in [Bindings -> Nat]
    /\ prepared \subseteq Bindings
    /\ sessions \in [Machines -> Nat]
    /\ last_fence \in [Providers \X Nodes -> Nat]
    /\ node_states \in [Nodes -> NodeState]
    /\ effects \subseteq Effect

\* A controller that has just installed its first graph.
Init ==
    /\ epoch = 1 /\ now = 0 /\ agreed = TRUE
    /\ graph \in Graphs /\ revision = 1
    /\ lease_state = [l \in Leases |-> "Absent"]
    /\ leases = [l \in Leases |-> NoLease]
    /\ terms = [l \in Leases |-> NoTerms]
    /\ binding_state = [b \in Bindings |-> "Absent"]
    /\ bindings = [b \in Bindings |-> NoBinding]
    /\ agent_session = [b \in Bindings |-> 0]
    /\ prepared = {}
    /\ sessions = [m \in Machines |-> 0]
    /\ last_fence = [k \in Providers \X Nodes |-> 0]
    /\ node_states = [n \in Nodes |-> "Schedulable"]
    /\ effects = {}

-----------------------------------------------------------------------------
(* Queries on the state.                                                   *)

Exists(l) == lease_state[l] # "Absent"
Open(b)   == binding_state[b] \in OpenBinding

\* Bindings of a lease that are not closed: they still hold an endpoint.
OpenBindings(l) == {b \in Bindings : bindings[b].lease = l /\ Open(b)}

Occupies(l) == lease_state[l] \in LiveLease \/ OpenBindings(l) # {}

Children(p) == {l \in Leases : leases[l].parent = p}

\* The least set that holds the children of p and is closed under Children.
DescendantClosed(p, S) ==
    Children(p) \subseteq S /\ \A l \in S : Children(l) \subseteq S

Descendants(p) ==
    {l \in Leases : \A S \in SUBSET Leases : DescendantClosed(p, S) => l \in S}

\* Occupying leases outside X that are not accounted for by their parent.
Roots(X) ==
    LET occupying == {l \in Leases \ X : Occupies(l)}
    IN  {l \in occupying : leases[l].parent \notin occupying}

\* The units of node n that the leases of S claim, one pair per unit, so
\* that a sum of claims is a cardinality.
Units(S, n) ==
    {u \in S \X (1 .. MaxQuantity) : u[2] <= leases[u[1]].claims[n]}

\* occupancy_from_leases: independent root trees hold disjoint units.
OccupancyExcept(X, n) == Cardinality(Units(Roots(X), n))

\* subtree_used: only direct children of p are charged to p.
SubtreeUsed(p, n) == Cardinality(Units({l \in Children(p) : Occupies(l)}, n))

Claimed(c) == {n \in Nodes : c[n] # 0}

ResolveClaim(c) == [n \in Nodes |-> IF c[n] = Whole THEN graph.capacity[n]
                                                    ELSE c[n]]

\* resolve_claim succeeds: a positive quantity of a node with a contract.
Claimable(c) ==
    \A n \in Claimed(c) : /\ ResolveClaim(c)[n] > 0
                          /\ graph.contract[n] # None

\* Mutant: a blocked ancestor does not block the node.
NodeQuarantinedAlone(n) == node_states[n] # "Schedulable"

NodeQuarantined(n) ==
    \E a \in {n} \cup graph.ancestors[n] : node_states[a] # "Schedulable"

Placeable(c) == \A n \in Claimed(c) : ~NodeQuarantined(n)

\* Mutant: the claim itself is not added to the occupancy.
CanCoverUncharged(l, c) ==
    \A n \in Claimed(c) : OccupancyExcept({l}, n) < graph.capacity[n]

\* Capacity left by the other occupying trees covers every claim.
CanCover(l, c) ==
    \A n \in Claimed(c) : OccupancyExcept({l}, n) + c[n] <= graph.capacity[n]

Covers(p, c) == \A n \in Claimed(c) : c[n] <= leases[p].claims[n]

\* Mutant: each child is compared with the parent alone.
FitsParentAlone(p, c) == Covers(p, c)

\* The claims fit beside the live siblings under parent p.
FitsParent(p, c) ==
    \A n \in Claimed(c) : SubtreeUsed(p, n) + c[n] <= leases[p].claims[n]

RequireSession(n, s) ==
    LET m == graph.machine_of[n]
    IN  m # None /\ sessions[m] # 0 /\ sessions[m] = s

\* The session an effect is stamped with: the machine's current one.
EffectSession(bnd, own) ==
    LET m == graph.machine_of[bnd.node]
    IN  IF m # None /\ sessions[m] # 0 THEN sessions[m] ELSE own

EffectOn(kind, b) ==
    [kind |-> kind, binding |-> b, fence |-> bindings[b].fence,
     session |-> EffectSession(bindings[b], agent_session[b]), epoch |-> epoch]

\* Mutant: bindings still preparing are not torn down.
BindingEffectsActive(kind, S) ==
    {EffectOn(kind, b) : b \in {x \in Bindings :
        binding_state[x] = "Active" /\ bindings[x].lease \in S}}

\* The same effect on every open binding of the leases of S.
BindingEffects(kind, S) ==
    {EffectOn(kind, b) : b \in {x \in Bindings : Open(x) /\ bindings[x].lease \in S}}

FenceEffects(S)   == BindingEffects("Fence", S)
ReleaseEffects(S) == BindingEffects("Release", S)

\* Nodes at or below n, and the open bindings on them.
InScope(n, c) == c = n \/ n \in graph.ancestors[c]
OpenInScope(n) == \E b \in Bindings : Open(b) /\ InScope(n, bindings[b].node)

NodeHasLiveAuthority(n) ==
    \/ \E l \in Leases : /\ Occupies(l)
                         /\ \E c \in Claimed(leases[l].claims) : InScope(n, c)
    \/ OpenInScope(n)

-----------------------------------------------------------------------------
(* Clock, agreement, controller generation and graph.                      *)

SetNow(t) ==
    /\ now' = t
    /\ effects' = {}
    /\ UNCHANGED <<epoch, agreed, graph_vars, lease_vars, binding_vars, node_vars>>

SetAgreement(a) ==
    /\ agreed' = a
    /\ effects' = {}
    /\ UNCHANGED <<epoch, now, graph_vars, lease_vars, binding_vars, node_vars>>

AdvanceEpoch ==
    /\ epoch < MaxEpoch
    /\ epoch' = epoch + 1
    /\ effects' = {}
    /\ UNCHANGED <<now, agreed, graph_vars, lease_vars, binding_vars, node_vars>>

\* Mutants: leases that are still being torn down are forgotten, in the check
\* of the capacity or in the check of the machines.
InstallableLiveCapacity(g) ==
    LET live == {l \in Leases : lease_state[l] \in LiveLease}
    IN  /\ \A n \in Nodes : Cardinality(Units(live, n)) <= g.capacity[n]
        /\ \A l \in Leases : Occupies(l) =>
               \A n \in Claimed(leases[l].claims) :
                   g.machine_of[n] = graph.machine_of[n]

InstallableLiveMachines(g) ==
    /\ \A n \in Nodes : OccupancyExcept({}, n) <= g.capacity[n]
    /\ \A l \in Leases : lease_state[l] \in LiveLease =>
           \A n \in Claimed(leases[l].claims) :
               g.machine_of[n] = graph.machine_of[n]

\* Capacity never drops below what is occupied, and no claim of an occupying
\* lease changes machine.
Installable(g) ==
    /\ \A n \in Nodes : OccupancyExcept({}, n) <= g.capacity[n]
    /\ \A l \in Leases : Occupies(l) =>
           \A n \in Claimed(leases[l].claims) :
               g.machine_of[n] = graph.machine_of[n]

ApplyResourceFacts(g) ==
    /\ agreed
    /\ revision < MaxRevision
    /\ Installable(g)
    /\ graph' = g
    /\ revision' = revision + 1
    /\ effects' = {}
    /\ UNCHANGED <<clock_vars, lease_vars, binding_vars, node_vars>>

-----------------------------------------------------------------------------
(* Leases.  A retry of a committed reservation or opening returns without  *)
(* effect, and any other reuse of an identity is refused: neither is a     *)
(* step here.                                                              *)

\* What no command on leases changes.
OutsideLeases == UNCHANGED <<clock_vars, graph_vars, binding_vars, node_vars>>

\* The leases of S outside the states of keep move to state st.
SetStates(S, keep, st) ==
    [l \in Leases |-> IF l \in S /\ lease_state[l] \notin keep
                      THEN st ELSE lease_state[l]]

NewLease(l, st, p, claims, exp, dl) ==
    /\ lease_state' = [lease_state EXCEPT ![l] = st]
    /\ leases' = [leases EXCEPT ![l] = [parent |-> p, claims |-> claims]]
    /\ terms' = [terms EXCEPT ![l] = [revision |-> revision, expires_at |-> exp,
                                      prepare_deadline |-> dl]]
    /\ effects' = {}
    /\ OutsideLeases

ReserveLease(l, c, exp) ==
    LET claims == ResolveClaim(c)
    IN  /\ agreed
        /\ ~Exists(l)
        /\ Claimable(c)
        /\ Placeable(claims)
        /\ CanCover(l, claims)
        /\ NewLease(l, "Reserved", None, claims, exp, 0)

\* The time guards.  Replay skips them: its clock is older than the command's.
\* Mutant: an expiry is compared with the clock of the replay.
ExpiredByClock(l) == now >= terms[l].expires_at

Expired(l) == Replaying \/ now >= terms[l].expires_at

Unexpired(l) == Replaying \/ now < terms[l].expires_at

WithinDeadline(l) == Replaying \/ now <= terms[l].prepare_deadline

Later(exp) == Replaying \/ exp > now

\* The committed claims are revalidated against the current graph.
PromoteLease(l, dl) ==
    LET claims == leases[l].claims
    IN  /\ agreed
        /\ lease_state[l] = "Reserved"
        /\ Claimable(claims)
        /\ Placeable(claims)
        /\ Unexpired(l)
        /\ CanCover(l, claims)
        /\ lease_state' = [lease_state EXCEPT ![l] = "Preparing"]
        /\ terms' = [terms EXCEPT ![l] =
               [revision |-> revision, expires_at |-> terms[l].expires_at,
                prepare_deadline |-> dl]]
        /\ effects' = {}
        /\ UNCHANGED leases /\ OutsideLeases

\* A root is charged to the graph, a child to its Active parent's claims.
Delegable(p, claims) ==
    /\ lease_state[p] = "Active"
    /\ Covers(p, claims)
    /\ FitsParent(p, claims)

OpenLease(l, c, p, exp, dl) ==
    LET claims == ResolveClaim(c)
    IN  /\ agreed
        /\ ~Exists(l)
        /\ Claimable(c)
        /\ Placeable(claims)
        /\ IF p = None THEN CanCover(l, claims) ELSE Delegable(p, claims)
        /\ NewLease(l, "Preparing", p, claims, exp, dl)

\* Mutant: a claim without a binding is not noticed.
BindingsPreparedOpened(l) ==
    \A b \in Bindings : bindings[b].lease = l =>
        binding_state[b] = "Preparing" /\ b \in prepared

\* Every binding of the lease is prepared, and a root has one per claim.
BindingsPrepared(l) ==
    LET own   == {b \in Bindings : bindings[b].lease = l}
        ready == {b \in own : binding_state[b] = "Preparing" /\ b \in prepared}
    IN  /\ own = ready
        /\ leases[l].parent = None =>
               \A n \in Claimed(leases[l].claims) :
                   \E b \in ready : bindings[b].node = n

ActivateLease(l) ==
    LET p == leases[l].parent
        claims == leases[l].claims
    IN  /\ agreed
        /\ lease_state[l] = "Preparing"
        /\ terms[l].revision = revision
        /\ Placeable(claims)
        /\ Unexpired(l)
        /\ WithinDeadline(l)
        /\ IF p = None THEN CanCover(l, claims) ELSE lease_state[p] = "Active"
        /\ BindingsPrepared(l)
        /\ lease_state' = [lease_state EXCEPT ![l] = "Active"]
        /\ effects' = {}
        /\ UNCHANGED <<leases, terms>> /\ OutsideLeases

\* The lease and its descendants, those already ended apart, move to st.
EndTree(l, keep, st) ==
    /\ lease_state' = SetStates({l} \cup Descendants(l), keep, st)
    /\ UNCHANGED <<leases, terms>>

FailLease(l) ==
    /\ Exists(l)
    /\ EndTree(l, EndedLease, "Failed")
    /\ effects' = FenceEffects(IF lease_state[l] \in EndedLease
                               THEN Descendants(l)
                               ELSE {l} \cup Descendants(l))
    /\ OutsideLeases

\* The owner terminates descendants first.
ReleaseLease(l) ==
    /\ \A d \in Descendants(l) : ~Occupies(d)
    /\ lease_state[l] \in {"Active", "Reserved", "Released"}
    /\ lease_state' = [lease_state EXCEPT ![l] = "Released"]
    /\ effects' = ReleaseEffects({l})
    /\ UNCHANGED <<leases, terms>> /\ OutsideLeases

RevokeLease(l) ==
    /\ Exists(l)
    /\ EndTree(l, EndedLease, "Revoked")
    /\ effects' = FenceEffects({l} \cup Descendants(l))
    /\ OutsideLeases

\* Expiry of an expired lease only fences again.
ExpireLease(l) ==
    /\ \/ /\ lease_state[l] = "Expired"
          /\ effects' = FenceEffects({l})
          /\ UNCHANGED lease_vars
       \/ /\ lease_state[l] \in LiveLease
          /\ Expired(l)
          /\ EndTree(l, EndedLease, "Expired")
          /\ effects' = FenceEffects({l} \cup Descendants(l))
    /\ OutsideLeases

\* The workload exited: code 0 completes the lease, any other code fails it.
CompleteLease(l, final) ==
    /\ \/ /\ lease_state[l] \in {"Completed", "Failed"}
          /\ effects' = FenceEffects({l})
          /\ UNCHANGED lease_vars
       \/ /\ lease_state[l] \in LiveLease
          /\ EndTree(l, EndedLease \cup {"Completed"}, final)
          /\ effects' = FenceEffects({l} \cup Descendants(l))
    /\ OutsideLeases

RenewLease(l, exp) ==
    /\ agreed
    /\ lease_state[l] \in {"Active", "Reserved"}
    /\ exp > terms[l].expires_at
    /\ Later(exp)
    /\ terms' = [terms EXCEPT ![l] =
           [revision |-> terms[l].revision, expires_at |-> exp,
            prepare_deadline |-> terms[l].prepare_deadline]]
    /\ effects' = {}
    /\ UNCHANGED <<lease_state, leases>> /\ OutsideLeases

-----------------------------------------------------------------------------
(* Bindings.                                                               *)

\* What no command on bindings changes.
OutsideBindings == UNCHANGED <<clock_vars, graph_vars, lease_vars,
                               sessions, node_states>>

\* Mutant: an exclusive binding does not exclude a later share.
ConflictingEndpointNew(n, k) ==
    \E b \in Bindings : /\ Open(b)
                        /\ bindings[b].node = n
                        /\ bindings[b].provider = k.provider
                        /\ k.scope = "Exclusive"

\* An open binding on the endpoint, one of the two being exclusive.
ConflictingEndpoint(n, k) ==
    \E b \in Bindings : /\ Open(b)
                        /\ bindings[b].node = n
                        /\ bindings[b].provider = k.provider
                        /\ "Exclusive" \in {k.scope, bindings[b].scope}

\* A fresh fence of the exclusive endpoint, or the share's own generation.
NextFence(b, n, k) ==
    IF k.scope = "Exclusive" THEN last_fence[<<k.provider, n>>] + 1
    ELSE IF b > 1 THEN b ELSE 1

Bindable(l, n) ==
    /\ lease_state[l] = "Preparing"
    /\ leases[l].parent = None
    /\ n \in Claimed(leases[l].claims)

OpenNewBinding(b, l, n) ==
    LET k     == graph.contract[n]
        m     == graph.machine_of[n]
        fence == NextFence(b, n, k)
    IN  /\ binding_state[b] = "Absent"
        /\ Bindable(l, n)
        /\ k # None
        /\ ~NodeQuarantined(n)
        /\ m # None
        /\ sessions[m] # 0
        /\ ~ConflictingEndpoint(n, k)
        /\ last_fence' = IF k.scope = "Exclusive"
                         THEN [last_fence EXCEPT ![<<k.provider, n>>] = fence]
                         ELSE last_fence
        /\ binding_state' = [binding_state EXCEPT ![b] = "Preparing"]
        /\ bindings' = [bindings EXCEPT ![b] =
               [lease |-> l, node |-> n, provider |-> k.provider,
                scope |-> k.scope, fence |-> fence]]
        /\ agent_session' = [agent_session EXCEPT ![b] = sessions[m]]
        /\ effects' = {[kind |-> "Prepare", binding |-> b, fence |-> fence,
                        session |-> sessions[m], epoch |-> epoch]}
        /\ UNCHANGED prepared /\ OutsideBindings

\* A command that only sends an effect on binding b.
Send(kind, b) ==
    /\ effects' = {EffectOn(kind, b)}
    /\ UNCHANGED <<binding_vars, last_fence>> /\ OutsideBindings

\* A retry re-emits Prepare while the binding is still preparing.
RetryOpenBinding(b) == binding_state[b] = "Preparing" /\ Send("Prepare", b)

FenceBinding(b) ==
    binding_state[b] \in OpenBinding \cup {"Fenced"} /\ Send("Fence", b)

ReleaseBinding(b) ==
    binding_state[b] \in OpenBinding \cup {"Released"} /\ Send("Release", b)

ActivateBinding(b) ==
    /\ binding_state[b] \in {"Preparing", "Active"}
    /\ lease_state[bindings[b].lease] = "Active"
    /\ binding_state' = [binding_state EXCEPT ![b] = "Active"]
    /\ effects' = {EffectOn("Activate", b)}
    /\ UNCHANGED <<bindings, agent_session, prepared, last_fence>>
    /\ OutsideBindings

FailBinding(b) ==
    /\ Open(b)
    /\ binding_state' = [binding_state EXCEPT ![b] = "Failed"]
    /\ effects' = {EffectOn("Fence", b)}
    /\ UNCHANGED <<bindings, agent_session, prepared, last_fence>>
    /\ OutsideBindings

\* What every acknowledgement must match: the machine's current session and
\* the binding's own fence.
Acknowledged(b, s, f) ==
    /\ binding_state[b] # "Absent"
    /\ RequireSession(bindings[b].node, s)
    /\ f = bindings[b].fence

\* The acknowledged binding moves to state st, served by session s.
Record(b, s, st) ==
    /\ binding_state' = [binding_state EXCEPT ![b] = st]
    /\ agent_session' = [agent_session EXCEPT ![b] = s]
    /\ UNCHANGED <<bindings, last_fence>>

RecordPrepared(b, s, f) ==
    /\ Acknowledged(b, s, f)
    /\ binding_state[b] \in {"Preparing", "Active"}
    /\ Record(b, s, binding_state[b])
    /\ prepared' = prepared \cup {b}
    /\ effects' = {}
    /\ OutsideBindings

RecordActive(b, s, f) ==
    /\ Acknowledged(b, s, f)
    /\ binding_state[b] = "Active"
    /\ Record(b, s, "Active")
    /\ effects' = {}
    /\ UNCHANGED prepared /\ OutsideBindings

RecordReleased(b, s, f) ==
    /\ Acknowledged(b, s, f)
    /\ Record(b, s, "Released")
    /\ effects' = {}
    /\ UNCHANGED prepared /\ OutsideBindings

RecordFenced(b, s, f) ==
    /\ Acknowledged(b, s, f)
    /\ Record(b, s, "Fenced")
    /\ effects' = {}
    /\ UNCHANGED prepared /\ OutsideBindings

\* A closed binding stays closed.  Mutant: it does not.
FailedStateAlways(b) == "Failed"

FailedState(b) == IF Open(b) THEN "Failed" ELSE binding_state[b]

\* Enforcement was lost: the lease fails with the binding.  Its descendants
\* are left alone.
RecordFailed(b, s, f) ==
    LET l == bindings[b].lease
    IN  /\ Acknowledged(b, s, f)
        /\ Record(b, s, FailedState(b))
        /\ lease_state' = SetStates({l}, EndedLease, "Failed")
        /\ effects' = FenceEffects({l})
        /\ UNCHANGED <<clock_vars, graph_vars, leases, terms, prepared,
                       sessions, node_states>>

-----------------------------------------------------------------------------
(* Node states, agent sessions and endpoint fences.                        *)

\* Retirement is final and needs an idle node.  A node that may have lost
\* its enforcement is schedulable again only when no binding is open on it.
NodeStateAllowed(n, st) ==
    /\ node_states[n] = "Retired" => st = "Retired"
    /\ st = "Schedulable" /\ node_states[n] \notin {"Schedulable", "Draining"}
           => ~OpenInScope(n)
    /\ st = "Retired" => ~NodeHasLiveAuthority(n)

SetNodeState(n, st) ==
    /\ NodeStateAllowed(n, st)
    /\ node_states' = [node_states EXCEPT ![n] = st]
    /\ effects' = {}
    /\ UNCHANGED <<clock_vars, graph_vars, lease_vars, binding_vars, sessions,
                   last_fence>>

QuarantineNode(n) == SetNodeState(n, "Quarantined")

UnquarantineNode(n) ==
    node_states[n] = "Quarantined" /\ SetNodeState(n, "Schedulable")

\* Preparing and Active bindings of the machine, named by a Reconcile effect.
LiveMachineBindings(m) ==
    {b \in Bindings : /\ binding_state[b] \in {"Preparing", "Active"}
                      /\ graph.machine_of[bindings[b].node] = m}

\* An older process never becomes current again.  An equal session is a
\* retransmission and only repeats the reconciliation.
SetAgentSession(m, s) ==
    /\ s >= sessions[m]
    /\ sessions' = [sessions EXCEPT ![m] = s]
    /\ effects' = {[kind |-> "Reconcile", binding |-> b,
                    fence |-> bindings[b].fence, session |-> s, epoch |-> epoch] :
                       b \in LiveMachineBindings(m)}
    /\ UNCHANGED <<clock_vars, graph_vars, lease_vars, binding_vars, last_fence,
                   node_states>>

RebindSession(b, s) ==
    /\ binding_state[b] # "Absent"
    /\ RequireSession(bindings[b].node, s)
    /\ Record(b, s, binding_state[b])
    /\ effects' = {}
    /\ UNCHANGED prepared /\ OutsideBindings

\* Mutant: the reported fence replaces the watermark.
AdvanceEndpointFenceTo(p, n, f) ==
    /\ last_fence' = [last_fence EXCEPT ![<<p, n>>] = f]
    /\ effects' = {}
    /\ UNCHANGED <<clock_vars, graph_vars, lease_vars, binding_vars, sessions,
                   node_states>>

\* The endpoint already accepted fence f: later fences must be above it.
AdvanceEndpointFence(p, n, f) ==
    /\ f > 0
    /\ last_fence' = [last_fence EXCEPT ![<<p, n>>] =
                          IF f > last_fence[<<p, n>>] THEN f
                                                      ELSE last_fence[<<p, n>>]]
    /\ effects' = {}
    /\ UNCHANGED <<clock_vars, graph_vars, lease_vars, binding_vars, sessions,
                   node_states>>

-----------------------------------------------------------------------------

LeaseNext(l) ==
    \/ \E c \in ClaimSets, exp \in Expiries :
           \/ ReserveLease(l, c, exp)
           \/ \E p \in Leases \cup {None}, dl \in Deadlines :
                  OpenLease(l, c, p, exp, dl)
    \/ \E dl \in Deadlines : PromoteLease(l, dl)
    \/ \E exp \in Expiries : RenewLease(l, exp)
    \/ \E final \in {"Completed", "Failed"} : CompleteLease(l, final)
    \/ ActivateLease(l)
    \/ FailLease(l)
    \/ ReleaseLease(l)
    \/ RevokeLease(l)
    \/ ExpireLease(l)

\* An agent may report any fence it was ever given.
Acknowledge(b, s, f) ==
    \/ RecordPrepared(b, s, f)
    \/ RecordActive(b, s, f)
    \/ RecordReleased(b, s, f)
    \/ RecordFenced(b, s, f)
    \/ RecordFailed(b, s, f)

BindingNext(b) ==
    \/ \E l \in Leases, n \in Nodes : OpenNewBinding(b, l, n)
    \/ RetryOpenBinding(b)
    \/ ActivateBinding(b)
    \/ FenceBinding(b)
    \/ FailBinding(b)
    \/ ReleaseBinding(b)
    \/ \E s \in 1 .. MaxSession :
           \/ RebindSession(b, s)
           \/ \E x \in Bindings : Acknowledge(b, s, bindings[x].fence)

NodeNext(n) ==
    \/ \E st \in NodeState : SetNodeState(n, st)
    \/ QuarantineNode(n)
    \/ UnquarantineNode(n)

Next ==
    \/ \E t \in 0 .. MaxTime : SetNow(t)
    \/ \E a \in AgreementInputs : SetAgreement(a)
    \/ AdvanceEpoch
    \/ \E g \in Graphs : ApplyResourceFacts(g)
    \/ \E l \in Leases : LeaseNext(l)
    \/ \E b \in Bindings : BindingNext(b)
    \/ \E n \in ControlledNodes : NodeNext(n)
    \/ \E p \in Providers, n \in Nodes, f \in 1 .. MaxFence :
           AdvanceEndpointFence(p, n, f)
    \/ \E m \in Machines, s \in 1 .. MaxSession : SetAgentSession(m, s)

Spec == Init /\ [][Next]_vars

-----------------------------------------------------------------------------
(* Safety.                                                                 *)

\* No node is oversubscribed: the claims of the occupying root trees, those
\* still being torn down included, sum to at most the node's capacity
\* (reserve_lease, open_lease, install_resource_graph, the Record commands).
CapacityRespected ==
    \A n \in Nodes : OccupancyExcept({}, n) <= graph.capacity[n]

\* A lease delegates no unit twice: its occupying children together claim at
\* most what it claims itself, even after it has ended (open_lease).
ChildrenFitParent ==
    \A p \in Leases, n \in Nodes : SubtreeUsed(p, n) <= leases[p].claims[n]

\* A binding enforces one claim of one root lease for as long as it is
\* remembered.
BindingsEnforceRoots ==
    \A b \in Bindings :
        \/ binding_state[b] = "Absent" /\ bindings[b] = NoBinding
        \/ /\ binding_state[b] # "Absent"
           /\ bindings[b].lease \in {l \in Leases : Exists(l)}
           /\ leases[bindings[b].lease].parent = None
           /\ bindings[b].node \in Claimed(leases[bindings[b].lease].claims)
           /\ bindings[b].provider \in Providers

\* The parent of a delegated lease was opened before it.
LeaseForest ==
    \A l \in Leases : LET p == leases[l].parent
                      IN  p # None => Exists(l) /\ Exists(p)

\* Every binding enforces one claim of one root lease, for as long as it is
\* remembered, and every delegated lease has a parent that was opened before
\* it: a child never gets an endpoint of its own (open_binding, open_lease).
AuthorityShape == BindingsEnforceRoots /\ LeaseForest

SameEndpoint(b1, b2) ==
    /\ bindings[b1].node = bindings[b2].node
    /\ bindings[b1].provider = bindings[b2].provider

\* Two open bindings on one (provider, node) endpoint are both independent
\* shares; a contract that changes under open bindings does not break this
\* (open_binding, conflicting_endpoint).
ExclusiveEndpoint ==
    \A b1, b2 \in Bindings :
        b1 # b2 /\ Open(b1) /\ Open(b2) /\ SameEndpoint(b1, b2)
            => /\ bindings[b1].scope = "IndependentShare"
               /\ bindings[b2].scope = "IndependentShare"

\* The open exclusive binding of an endpoint carries the newest fence ever
\* issued for it: no other exclusive binding there has a fence as high, and
\* the watermark covers it (open_binding, advance_endpoint_fence).
OpenHasNewestFence ==
    \A b1 \in Bindings : Open(b1) /\ bindings[b1].scope = "Exclusive" =>
        /\ bindings[b1].fence <= last_fence[<<bindings[b1].provider, bindings[b1].node>>]
        /\ \A b2 \in Bindings :
               b2 # b1 /\ SameEndpoint(b1, b2) /\ bindings[b2].scope = "Exclusive"
                   => bindings[b2].fence < bindings[b1].fence

\* Node c is n or is served by machine n.
PartOf(c, n) == c = n \/ graph.machine_of[c] = n

\* A retired node or machine holds no authority: no occupying lease claims a
\* node of it and no binding is open there, even when nodes are placed on the
\* machine after it retired (set_node_state, node_quarantined).
RetiredIsIdle ==
    \A n \in Nodes : node_states[n] = "Retired" =>
        /\ \A b \in Bindings : Open(b) => ~PartOf(bindings[b].node, n)
        /\ \A l \in Leases : Occupies(l) =>
               \A c \in Claimed(leases[l].claims) : ~PartOf(c, n)

\* No endpoint is told to activate before every claim of the lease has been
\* prepared by its own binding (activate_lease, activate_binding).
ActivateAfterAllPrepared ==
    [][\A e \in effects' : e.kind = "Activate" =>
           LET l == bindings[e.binding].lease
           IN  \A n \in Claimed(leases[l].claims) : \E b \in Bindings :
                   /\ bindings[b].lease = l /\ bindings[b].node = n
                   /\ b \in prepared]_vars

\* The step that ends a lease tells every endpoint it still holds to close
\* that very generation: authority never ends without a fence or a release
\* on its way (fail_lease, release_lease, revoke_lease, expire_lease,
\* complete_lease, record_failed).
TeardownRequested ==
    [][\A b \in Bindings :
           LET l == bindings[b].lease
           IN  /\ Open(b)
               /\ lease_state[l] \in LiveLease
               /\ lease_state'[l] \notin LiveLease
               => \E e \in effects' : /\ e.kind \in {"Fence", "Release"}
                                      /\ e.binding = b
                                      /\ e.fence = bindings[b].fence]_vars

\* What one step may not do to an ended lease or a closed binding.
StaysEnded ==
    /\ \A l \in Leases : Exists(l) /\ lease_state[l] \notin LiveLease
                            => lease_state'[l] \notin LiveLease
    /\ \A b \in Bindings : binding_state[b] \in ClosedBinding
                              => binding_state'[b] \in ClosedBinding

\* An ended lease is never live again and a closed binding never reopens,
\* whatever acknowledgement or retry arrives late.
NothingRevives == [][StaysEnded]_vars

\* An open binding is acknowledged and torn down by the machine that serves
\* its node until it closes: graph updates do not move it
\* (install_resource_graph).
OpenBindingKeepsMachine ==
    [][\A b \in Bindings : Open(b) =>
           graph'.machine_of[bindings[b].node]
               = graph.machine_of[bindings[b].node]]_vars

=============================================================================
