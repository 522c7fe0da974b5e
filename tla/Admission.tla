------------------------------ MODULE Admission ------------------------------
(***************************************************************************)
(* The admission scheduler: queue order, owner ceilings, weighted fair     *)
(* share, backfill behind blocked heads, hard exclusions and the           *)
(* preemption planner (crates/kernel/src/admit.rs, preempt.rs, lib.rs,     *)
(* execution_exclusions of crates/node/src/service.rs).                    *)
(*                                                                         *)
(* Time is kept relative: a lease carries what is left of its lifetime, so *)
(* there is no clock to bound.  The queue is in submission order.  Leases  *)
(* are in the order of their identities; one that no longer occupies       *)
(* anything is dropped.  A lease may have delegated claims to one child.   *)
(***************************************************************************)
EXTENDS Placement

CONSTANTS
    Scale,          \* the resolution of a share
    Normalized,     \* nodes with a host identity
    Setups          \* policies, what is submitted under them, and bounds

VARIABLES
    setup,      \* the setup of this behaviour, which never changes
    queue,      \* sequence of [request, owner]
    leases,     \* sequence of [owner, request, claims, live, open, left, child]
    blocked     \* machines that are not schedulable

vars == <<queue, leases, blocked>>

Requests     == setup.requests      \* what may be submitted: [needs, ..., lifetime, priority, runs, pin]
Owners       == setup.owners        \* those who submit
Ceiling      == setup.ceiling       \* resource class -> quantity an owner may hold
FairShare    == setup.fair_share    \* whether owners are ordered by their dominant share
Weights      == setup.weights       \* owner -> weight
Capabilities == setup.capabilities  \* machine -> [process, container: what its runtimes guarantee]
Blockable    == setup.blockable     \* machines that may be taken out of scheduling
Delegates    == setup.delegates     \* whether leases delegate to a child
Renews       == setup.renews        \* whether leases are renewed
Preempts     == setup.preempts      \* whether the preemption plan is carried out
MaxQueue     == setup.max_queue     \* bound on the queue

Init == setup \in Setups /\ queue = <<>> /\ leases = <<>> /\ blocked = {}

-----------------------------------------------------------------------------
(* Occupancy.  A holder is a lease <<i, 0>> or its child <<i, 1>>.         *)

Holder(ls, h) == IF h[2] = 0 THEN ls[h[1]] ELSE ls[h[1]].child[1]

Holders(ls) == {<<i, 0>> : i \in DOMAIN ls}
               \cup {<<i, 1>> : i \in {k \in DOMAIN ls : ls[k].child # <<>>}}

\* Mutant: an ended lease releases at once.
OccupyingLive(ls) == {h \in Holders(ls) : Holder(ls, h).live}

\* Live, or with open bindings.
Occupying(ls) == {h \in Holders(ls) : Holder(ls, h).live \/ Holder(ls, h).open}

Held(claims, n) ==
    LET on == {c \in ToSet(claims) : c.node = n}
    IN  [d \in Dims |-> Max({0} \cup {c.quantity[d] : c \in on})]

\* occupancy_from_leases: the claims of every root of what occupies.
OccupancyExcept(ls, except) ==
    LET occupying == Occupying(ls) \ except
        roots == {h \in occupying : h[2] = 0 \/ <<h[1], 0>> \notin occupying}
        held == UNION {{<<h, c.node>> : c \in ToSet(Holder(ls, h).claims)} : h \in roots}
    IN  FoldSet(LAMBDA p, used : [used EXCEPT ![p[2]] = Plus(@, Held(Holder(ls, p[1]).claims, p[2]))],
                Unused, held)

Occupancy(ls) == OccupancyExcept(ls, {})

-----------------------------------------------------------------------------
(* Owners.                                                                 *)

\* What the claims take of a class.
HeldOf(claims, kind) ==
    LET nodes == {n \in {c.node : c \in ToSet(claims)} : Graph.kind[n] = kind}
    IN  [d \in Dims |-> MapThenSumSet(LAMBDA n : Held(claims, n)[d], nodes)]

\* owner_usage: the claims of the owner's root leases, by class.
OwnerUsage(ls, owner, kind) ==
    LET roots == {i \in DOMAIN ls : ls[i].owner = owner /\ <<i, 0>> \in Occupying(ls)}
    IN  [d \in Dims |-> MapThenSumSet(LAMBDA i : HeldOf(ls[i].claims, kind)[d], roots)]

\* What a need is charged: what select grants.
Charge(need) ==
    IF IsConsumable(need) THEN ConsumableQuantity(need) ELSE Qty("count", NeedCount(need))

WithinBudget(ls, entry) ==
    \A kind \in DOMAIN Ceiling : \A d \in Dims :
        LET asked == {i \in DOMAIN entry.request.needs : entry.request.needs[i].kind = kind}
        IN  OwnerUsage(ls, entry.owner, kind)[d]
            + MapThenSumSet(LAMBDA i : Charge(entry.request.needs[i])[d], asked)
            <= Ceiling[kind][d]

\* Capacity that some provider enforces, by class and dimension.
ClaimableCapacity ==
    [kd \in {Graph.kind[n] : n \in Nodes} \X Dims |->
        MapThenSumSet(LAMBDA n : Graph.capacity[n][kd[2]],
                      {n \in Nodes : Graph.kind[n] = kd[1] /\ Graph.provider[n][kd[2]] # "none"})]

Claimable == {kd \in DOMAIN ClaimableCapacity : ClaimableCapacity[kd] > 0}

WeightedDominantShare(ls, owner) ==
    LET weight == Max({1, Weights[owner]})
    IN  Max({0} \cup {(OwnerUsage(ls, owner, kd[1])[kd[2]] * Scale)
                      \div (ClaimableCapacity[kd] * weight) : kd \in Claimable})

\* Positions of the queue: priority, then share, then submission.
OrderQueue(q, ls) ==
    LET share(i) == IF FairShare THEN WeightedDominantShare(ls, q[i].owner) ELSE 0
        ranks == {<<-q[i].request.priority, share(i), i>> : i \in DOMAIN q}
        before(a, b) == \E k \in 1 .. 3 : a[k] < b[k] /\ \A j \in 1 .. k - 1 : a[j] = b[j]
    IN  [k \in DOMAIN q |->
            (CHOOSE i \in ranks : Cardinality({a \in ranks : before(a, i)}) = k - 1)[3]]

-----------------------------------------------------------------------------
(* Hard exclusions: machines whose runtime cannot guarantee what the       *)
(* request asks for, and every other machine for a pinned member.          *)

MachineNodes == {n \in Nodes : Graph.kind[n] = "machine"}

Guarantees(m, request) ==
    LET mode == IF request.runs = "container" THEN Capabilities[m].container
                                              ELSE Capabilities[m].process
        needs(kinds) == \E need \in ToSet(request.needs) : need.kind \in kinds
        normalized(kind) == needs({kind}) /\
            \E n \in Descendants[m] \cap Normalized : Graph.kind[n] = kind
    IN  /\ "available" \in mode
        /\ needs({"cpu"}) => "cpu_limit" \in mode
        /\ needs({"memory"}) => "memory_limit" \in mode
        /\ needs({"gpu", "nic", "nvme"}) => "device_isolation" \in mode
        /\ normalized("cpu") => "physical_cpu_placement" \in mode
        /\ normalized("memory") => "numa_memory_placement" \in mode

ExecutionExclusions(request) ==
    {m \in MachineNodes : \/ request.pin \notin {0, m}
                          \/ request.runs # "nothing" /\ ~Guarantees(m, request)}

-----------------------------------------------------------------------------
(* Backfill.  A head is a request that cannot start: the time left until   *)
(* its shadow (0: no release is proven) and the nodes it would then take.  *)

Unproven == 0

HeadAt(shadow, selection) == [shadow |-> shadow, claims |-> NodesOf(selection.picked)]

\* The holders that expire by t.  One that has ended stays until its fence
\* is acknowledged.
ReleasedBy(ls, t) == {h \in Holders(ls) : Holder(ls, h).live /\ Holder(ls, h).left <= t}

\* Sequences of at most one head.
UnprovenHead(selection) ==
    IF selection.ok THEN <<HeadAt(Unproven, selection)>> ELSE <<>>

ProvenHead(at) ==
    LET proven == {t \in DOMAIN at : at[t].ok}
    IN  IF proven = {} THEN <<>> ELSE <<HeadAt(Min(proven), at[Min(proven)])>>

HeadOr(head, other) == IF head = <<>> THEN other ELSE head

ShadowHead(ls, request, effective) ==
    LET times == {Holder(ls, h).left : h \in Occupying(ls)} \ {0}
        without(holders) == Select(OccupancyExcept(ls, holders), request, effective)
    IN  HeadOr(ProvenHead([t \in times |-> without(ReleasedBy(ls, t))]),
               UnprovenHead(without(Occupying(ls))))

\* Mutant: a hard exclusion is waited for.
BlockedHeadPatient(ls, request, out) == ShadowHead(ls, request, out)

\* The head that a request that does not select becomes, if any.
BlockedHead(ls, request, out) ==
    LET hard == ExecutionExclusions(request)
    IN  HeadOr(UnprovenHead(Select(Occupancy(ls), request, hard)),
               ShadowHead(ls, request, out \cup hard))

\* Mutant: a request that finishes after the shadow is safe as well.
SafeAlways(head, lifetime, claims) == head.shadow # Unproven \/ claims \cap head.claims = {}

\* Whether a request may start before the head.
Safe(head, lifetime, claims) ==
    (head.shadow # Unproven /\ lifetime <= head.shadow) \/ claims \cap head.claims = {}

\* The request at i, given its selection: it becomes a head, is admitted, or
\* is passed over because it would delay one.
Considered(acc, i, request, selection, heads) ==
    IF ~selection.ok THEN [acc EXCEPT !.heads = @ \o heads]
    ELSE IF \A k \in DOMAIN acc.heads :
                Safe(acc.heads[k], request.lifetime, NodesOf(selection.picked))
    THEN [acc EXCEPT !.index = i, !.picked = selection.picked]
    ELSE acc

\* admit_backfill_with_policy: the first request of the order that fits its
\* budget, selects and delays no head before it.  index 0: none.
AdmitBackfill(q, ls, out) ==
    LET select(request) == Select(Occupancy(ls), request, out \cup ExecutionExclusions(request))
        step(acc, i) ==
            IF acc.index # 0 \/ ~WithinBudget(ls, q[i]) THEN acc
            ELSE Considered(acc, i, q[i].request, select(q[i].request),
                            BlockedHead(ls, q[i].request, out))
    IN  FoldLeft(step, [index |-> 0, picked |-> <<>>, heads |-> <<>>], OrderQueue(q, ls))

-----------------------------------------------------------------------------
(* Preemption.                                                             *)

\* Root leases of lower priority, lowest first, then newest first.
VictimOrder(ls, request) ==
    LET C == {i \in DOMAIN ls : /\ <<i, 0>> \in Occupying(ls)
                                /\ ls[i].request.priority < request.priority}
        before(a, b) == \/ ls[a].request.priority < ls[b].request.priority
                        \/ ls[a].request.priority = ls[b].request.priority /\ a > b
    IN  [k \in 1 .. Cardinality(C) |->
            CHOOSE i \in C : Cardinality({a \in C : before(a, i)}) = k - 1]

\* Mutant: the children of a victim stay.
EvictedRoots(ls, victims) == {<<i, 0>> : i \in victims}

\* The victims and their descendants.
Evicted(ls, victims) == {h \in Holders(ls) : h[1] \in victims}

\* preemption_plan: the shortest prefix of the candidates that makes room.
PreemptionPlan(ls, request, out) ==
    LET candidates == VictimOrder(ls, request)
        first(k) == {candidates[j] : j \in 1 .. k}
        enough == {k \in DOMAIN candidates :
                      Selects(OccupancyExcept(ls, Evicted(ls, first(k))), request, out)}
    IN  IF Selects(Occupancy(ls), request, out) THEN [outcome |-> "feasible", victims |-> {}]
        ELSE IF enough = {} THEN [outcome |-> "not-feasible", victims |-> {}]
        ELSE [outcome |-> "planned", victims |-> first(Min(enough))]

-----------------------------------------------------------------------------
(* Actions.                                                                *)

\* Leases that occupy nothing any more are dropped.
Kept(ls) == SelectSeq(ls, LAMBDA l : l.live \/ l.open)

\* The lease and its child end; the bindings of the lease stay open.
Ended(l) == [l EXCEPT !.live = FALSE,
                      !.child = [k \in DOMAIN @ |-> [@[k] EXCEPT !.live = FALSE]]]

Submit(request, owner) ==
    /\ Len(queue) < MaxQueue
    /\ queue' = Append(queue, [request |-> request, owner |-> owner])
    /\ UNCHANGED <<leases, blocked>>

\* admit_one: the lease opens with its bindings.
Admit ==
    \E admission \in {AdmitBackfill(queue, leases, blocked)} :
        LET entry == queue[admission.index]
        IN  /\ admission.index # 0
            /\ queue' = RemoveAt(queue, admission.index)
            /\ leases' = Append(leases, [owner |-> entry.owner, request |-> entry.request,
                                         claims |-> Claims(admission), child |-> <<>>,
                                         live |-> TRUE, open |-> TRUE,
                                         left |-> entry.request.lifetime])
            /\ UNCHANGED blocked

\* A child lease over the first claim of its parent, for as long.  Bindings of a
\* child are refused.
Delegate(i) ==
    /\ Delegates /\ leases[i].live /\ leases[i].child = <<>>
    /\ leases' = [leases EXCEPT ![i].child =
                     <<[claims |-> SubSeq(leases[i].claims, 1, 1), live |-> TRUE, open |-> FALSE,
                        left |-> leases[i].left]>>]
    /\ UNCHANGED <<queue, blocked>>

Renew(i) ==
    /\ Renews /\ leases[i].live /\ leases[i].left < leases[i].request.lifetime
    /\ leases' = [leases EXCEPT ![i].left = leases[i].request.lifetime]
    /\ UNCHANGED <<queue, blocked>>

\* revoke or release
End(i) ==
    /\ leases[i].live
    /\ leases' = [leases EXCEPT ![i] = Ended(@)]
    /\ UNCHANGED <<queue, blocked>>

\* The fence of an ended lease is acknowledged.
Close(i) ==
    /\ ~leases[i].live /\ leases[i].open
    /\ leases' = Kept([leases EXCEPT ![i].open = FALSE])
    /\ UNCHANGED <<queue, blocked>>

\* One second: leases whose lifetime is over expire, with their children.
Tick ==
    LET less(x) == [x EXCEPT !.left = Max({0, @ - 1})]
        child(c) == [less(c) EXCEPT !.live = @ /\ less(c).left > 0]
        older(l) == [less(l) EXCEPT !.child = [k \in DOMAIN @ |-> child(@[k])]]
    IN  /\ leases # <<>>
        /\ leases' = [i \in DOMAIN leases |->
               IF older(leases[i]).left = 0 THEN Ended(older(leases[i])) ELSE older(leases[i])]
        /\ UNCHANGED <<queue, blocked>>

\* The planned victims of a queued request are revoked.
Preempt(i) ==
    /\ Preempts
    /\ \E plan \in {PreemptionPlan(leases, queue[i].request, blocked)} :
           /\ plan.outcome = "planned" /\ \E v \in plan.victims : leases[v].live
           /\ leases' = [k \in DOMAIN leases |->
                  IF k \in plan.victims THEN Ended(leases[k]) ELSE leases[k]]
    /\ UNCHANGED <<queue, blocked>>

Block(m) ==
    /\ m \notin blocked /\ blocked' = blocked \cup {m}
    /\ UNCHANGED <<queue, leases>>

Unblock(m) ==
    /\ m \in blocked /\ blocked' = blocked \ {m}
    /\ UNCHANGED <<queue, leases>>

Next ==
    \/ \E request \in Requests, owner \in Owners : Submit(request, owner)
    \/ Admit \/ Tick
    \/ \E i \in DOMAIN leases : Delegate(i) \/ Renew(i) \/ End(i) \/ Close(i)
    \/ \E i \in DOMAIN queue : Preempt(i)
    \/ \E m \in Blockable : Block(m) \/ Unblock(m)

Spec == Init /\ [][Next /\ UNCHANGED setup]_<<vars, setup>>

CloseOldest ==
    LET waiting == {i \in DOMAIN leases : ~leases[i].live /\ leases[i].open}
    IN  \E i \in waiting : (\A k \in waiting : i <= k) /\ Close(i)

\* Maintenance admits what it can, time passes and fences are acknowledged.
Fairness ==
    /\ []<>(AdmitBackfill(queue, leases, blocked).index = 0) \/ []<><<Admit>>_vars
    /\ WF_vars(Tick)
    /\ WF_vars(CloseOldest)

FairSpec == Spec /\ Fairness

-----------------------------------------------------------------------------
(* Properties.                                                             *)

\* What leases hold of a node, until their fences are acknowledged, never
\* exceeds its capacity, where a child holds nothing beside its parent, and no
\* owner ever holds more of a class than its ceiling (occupancy_from_leases,
\* select, owner_usage, within_budget).
NoOvercommit ==
    LET holds(l) == l.live \/ l.open
        of(owner) == {i \in DOMAIN leases : leases[i].owner = owner /\ holds(leases[i])}
    IN  \A d \in Dims :
            /\ \A n \in Nodes : MapThenSumSet(LAMBDA i : Held(leases[i].claims, n)[d], DOMAIN leases)
                                <= Graph.capacity[n][d]
            /\ \A owner \in Owners, kind \in DOMAIN Ceiling :
                   MapThenSumSet(LAMBDA i : HeldOf(leases[i].claims, kind)[d], of(owner))
                   <= Ceiling[kind][d]

\* owner's dominant share, per weight, is below other's: every fraction of a
\* class it holds is below some fraction of other's.
LessServed(owner, other) ==
    LET holds(o, kd) == OwnerUsage(leases, o, kd[1])[kd[2]]
    IN  \A kd \in Claimable : \E ke \in Claimable :
            holds(owner, kd) * ClaimableCapacity[ke] * Max({1, Weights[other]})
            < holds(other, ke) * ClaimableCapacity[kd] * Max({1, Weights[owner]})

\* Under fair share a request is not admitted while the same request of an
\* owner who holds less for its weight waits.
ServesLeast ==
    LET i == AdmitBackfill(queue, leases, blocked).index
    IN  FairShare /\ Len(queue') < Len(queue) =>
            \A k \in DOMAIN queue :
                queue[k].request = queue[i].request /\ WithinBudget(leases, queue[k])
                => ~LessServed(queue[k].owner, queue[i].owner)

\* When the request could start: at once, after the time its head proves,
\* or not provably.
Start(request, ls) ==
    LET proven(heads) == IF heads = <<>> \/ Head(heads).shadow = Unproven THEN 1000
                         ELSE Head(heads).shadow
    IN  IF Selects(Occupancy(ls), request, blocked \cup ExecutionExclusions(request)) THEN 0
        ELSE proven(BlockedHead(ls, request, blocked))

\* Admitting a request never puts off the proven start of a request that
\* comes before it in the queue's order.
DelaysNoHead ==
    LET admission == AdmitBackfill(queue, leases, blocked)
        order == OrderQueue(queue, leases)
        ahead == {k \in DOMAIN order : \A j \in 1 .. k : order[j] # admission.index}
    IN  Len(queue') < Len(queue) =>
            \A k \in ahead :
                LET entry == queue[order[k]]
                IN  WithinBudget(leases, entry) /\ Start(entry.request, leases) > 0 =>
                        Start(entry.request, leases') <= Start(entry.request, leases)

\* Admission respects the queue: it delays no head and, under fair share,
\* serves first who holds least (admit_backfill_with_policy,
\* weighted_dominant_share, order_queue_with_policy).
OrderRespected == [][DelaysNoHead /\ ServesLeast]_vars

\* A request that no machine it may run on could ever place is as good as
\* absent: the others are admitted as if it were not queued (exclusions in
\* admit_backfill_with_policy).
HopelessBlocksNobody ==
    \A i \in DOMAIN queue :
        ~Selects(OccupancyExcept(leases, Occupying(leases)), queue[i].request,
                 ExecutionExclusions(queue[i].request))
        => AdmitBackfill(queue, leases, blocked).picked
           = AdmitBackfill(RemoveAt(queue, i), leases, blocked).picked

\* Where there are root leases of lower priority, the plan names only such;
\* ending and fencing them makes room for the request, and when it names none
\* no set of such leases would do (preemption_plan).
PlanMakesRoom ==
    \A request \in Requests :
        LET plan == PreemptionPlan(leases, request, blocked)
            lower == {i \in DOMAIN leases : /\ leases[i].live \/ leases[i].open
                                            /\ leases[i].request.priority < request.priority}
            without(victims) == [i \in DOMAIN leases |->
                IF i \in victims THEN [leases[i] EXCEPT !.live = FALSE, !.open = FALSE, !.child = <<>>]
                                 ELSE leases[i]]
        IN  lower # {} =>
            /\ plan.victims \subseteq lower
            /\ plan.outcome = "planned" =>
                   Selects(Occupancy(without(plan.victims)), request, blocked)
            /\ plan.outcome = "not-feasible" =>
                   \A victims \in SUBSET lower :
                       ~Selects(Occupancy(without(victims)), request, blocked)

\* The oldest request of the queue is not passed over for ever by younger
\* ones (admit_backfill_with_policy).
FrontIsServed ==
    \/ []<>(queue = <<>>)
    \/ []<><<queue # <<>> /\ queue' = Tail(queue)>>_queue
=============================================================================
