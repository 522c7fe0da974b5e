------------------------------ MODULE Placement ------------------------------
(***************************************************************************)
(* Placement: the resource graph's derived relations, remaining capacity   *)
(* and the selector that turns a request into claims (crates/kernel/src/   *)
(* graph.rs, occupancy.rs, select.rs).                                     *)
(*                                                                         *)
(* Operators only.  Nodes are numbers, in the order of their identities;   *)
(* 0 is no node.  A quantity is a function from dimensions to amounts, an  *)
(* absent dimension being 0, and bytes are counted in MiB.  A request's    *)
(* topology constraints name needs by their position, from 1.              *)
(***************************************************************************)
EXTENDS Integers, FiniteSets, Sequences, SequencesExt

CONSTANTS
    Graph,          \* [kind, parent, capacity, provider, attrs: by node;
                    \*  degraded: nodes; cached, connected: pairs of nodes]
    SearchBudget    \* steps of the fallback search

Nodes == DOMAIN Graph.kind
Dims == {"count", "bytes"}

ASSUME PlacementAssumption ==
    /\ Nodes \subseteq Nat \ {0} /\ SearchBudget \in Nat
    /\ \A n \in Nodes : Graph.parent[n] \in 0 .. n - 1
    /\ Graph.capacity \in [Nodes -> [Dims -> Nat]]

-----------------------------------------------------------------------------
(* Relations derived from containment and sparse edges.                    *)

\* The node and its ancestors, nearest first.
Path[n \in Nodes] ==
    IF Graph.parent[n] = 0 THEN <<n>> ELSE <<n>> \o Path[Graph.parent[n]]

Ancestry == [n \in Nodes |-> ToSet(Path[n])]
Descendants == [n \in Nodes |-> {d \in Nodes \ {n} : n \in Ancestry[d]}]

AncestorOfClass(n, class) ==
    Head(Append(SelectSeq(Path[n], LAMBDA a : Graph.kind[a] = class), 0))

MachineOf == [n \in Nodes |-> AncestorOfClass(n, "machine")]

HasEdge(edges, a, b) == <<a, b>> \in edges \/ <<b, a>> \in edges

Caches(n, data) == \E a \in Ancestry[n] : HasEdge(Graph.cached, data, a)

Degraded(n) == Ancestry[n] \cap Graph.degraded # {}

Satisfies(l, r, relation) ==
    LET al == AncestorOfClass(l, relation.class)
        ar == AncestorOfClass(r, relation.class)
    IN  CASE relation.is = "same-ancestor"      -> al # 0 /\ al = ar
          [] relation.is = "different-ancestor" -> al # 0 /\ ar # 0 /\ al # ar
          [] relation.is = "contains"  -> l # r /\ (l \in Ancestry[r] \/ r \in Ancestry[l])
          [] relation.is = "connected" -> HasEdge(Graph.connected, l, r)
          [] relation.is = "cached-on" -> HasEdge(Graph.cached, l, r)

-----------------------------------------------------------------------------
(* Quantities and occupancy.  used is the quantity in use on each node.    *)

Qty(dim, amount) == [d \in Dims |-> IF d = dim THEN amount ELSE 0]
Nothing == Qty("count", 0)
Plus(q, r) == [d \in Dims |-> q[d] + r[d]]
QuantityLe(q, r) == \A d \in Dims : q[d] <= r[d]

Unused == [n \in Nodes |-> Nothing]

Remaining(used, n) ==
    [d \in Dims |-> Max({0, Graph.capacity[n][d] - used[n][d]})]

CanCover(used, n, q) == QuantityLe(q, Remaining(used, n))

\* One provider enforces every dimension the quantity asks for.
ClaimBindingFor(n, q) ==
    \E p \in {Graph.provider[n][d] : d \in Dims} \ {"none"} :
        /\ {d \in Dims : q[d] > 0} # {}
        /\ \A d \in Dims : q[d] > 0 => Graph.provider[n][d] = p

-----------------------------------------------------------------------------
(* Needs: [kind, quantity, filters].                                       *)

IsConsumable(need) == need.kind = "memory" \/ need.quantity["bytes"] > 0

ConsumableQuantity(need) ==
    IF need.kind = "memory" THEN Qty("bytes", need.quantity["bytes"]) ELSE need.quantity

NeedUnit(need) ==
    IF IsConsumable(need) THEN ConsumableQuantity(need) ELSE Qty("count", 1)

NeedCount(need) == IF IsConsumable(need) THEN 1 ELSE Max({1, need.quantity["count"]})

Candidates(used, need, blocked) ==
    IF need.kind = "data-object" THEN {}
    ELSE {n \in Nodes : /\ Graph.kind[n] = need.kind
                        /\ ClaimBindingFor(n, NeedUnit(need))
                        /\ Ancestry[n] \cap blocked = {}
                        /\ need.filters \subseteq Graph.attrs[n]
                        /\ CanCover(used, n, NeedUnit(need))}

-----------------------------------------------------------------------------
(* Ranking.  A request is [needs, topology, preferences, data, local, ...]; *)
(* picked is the sequence of the claims of each need so far.               *)

\* The last of the preferences decides.
Packs(request) ==
    LET modes == SelectSeq(request.preferences, LAMBDA p : p.is \in {"pack", "spread"})
    IN  modes = <<>> \/ Last(modes).is = "pack"

NodesOf(picked) == UNION {{c.node : c \in ToSet(group)} : group \in ToSet(picked)}

\* How the node relates to the machine's load and the request's other claims.
LocalScore(used, request, taken, n, m) ==
    IF m = 0 THEN 0
    ELSE (IF Packs(request) THEN 1 ELSE -1)
             * (100 * Cardinality({t \in taken : MachineOf[t] = m})
                + 10 * Cardinality({d \in Descendants[m] : used[d] # Nothing \/ d \in taken}))
         + (IF Packs(request) /\ \E t \in taken :
                   Satisfies(n, t, [is |-> "same-ancestor", class |-> "numa"])
            THEN 50 ELSE 0)

ScoreNode(used, request, taken, want, n) ==
    LET wished   == {i \in DOMAIN request.preferences :
                        /\ request.preferences[i].is = "attr"
                        /\ request.preferences[i].attr \in Graph.attrs[n]}
        near     == {data \in request.data : Caches(n, data)}
        leftover == IF want = 0 THEN 0
                    ELSE Min({4000, Max({0, Remaining(used, n)["bytes"] - want})})
    IN  LocalScore(used, request, taken, n, MachineOf[n])
        + 1000000 * Cardinality(wished) + 10000 * Cardinality(near)
        - (IF Degraded(n) THEN 20000 ELSE 0)
        + (IF Packs(request) THEN -leftover ELSE leftover)

\* The nodes of pairs of a node and its score, best first, then by identity.
BestFirst(scored) ==
    LET before(a, b) == a[2] > b[2] \/ (a[2] = b[2] /\ a[1] < b[1])
    IN  [i \in 1 .. Cardinality(scored) |->
            (CHOOSE n \in scored : Cardinality({a \in scored : before(a, n)}) = i - 1)[1]]

Rank(used, request, need, taken, S) ==
    BestFirst({<<n, ScoreNode(used, request, taken, ConsumableQuantity(need)["bytes"], n)>> :
                   n \in S})

-----------------------------------------------------------------------------
(* Topology.                                                               *)

ClaimsAreUnique(picked) ==
    Cardinality(NodesOf(picked)) = Len(FlattenSeq(picked))

\* Constraints on needs that are not picked yet are not evaluated.
TopologyHolds(picked, request) ==
    /\ ClaimsAreUnique(picked)
    /\ \A c \in ToSet(request.topology) :
           c.left <= Len(picked) /\ c.right <= Len(picked) =>
               \A l \in ToSet(picked[c.left]), r \in ToSet(picked[c.right]) :
                   Satisfies(l.node, r.node, c.relation)

-----------------------------------------------------------------------------
(* The greedy selector.  An empty group or ok = FALSE is a refusal.        *)

Claim(n, need) == [node |-> n, quantity |-> NeedUnit(need)]

\* Claims along the ranking, skipping the ones the topology rules out.
Greedy(ranked, need, request, already) ==
    FoldLeft(LAMBDA chosen, n :
                 LET more == Append(chosen, Claim(n, need))
                 IN  IF /\ Len(chosen) < NeedCount(need)
                        /\ TopologyHolds(Append(already, more), request)
                     THEN more ELSE chosen,
             <<>>, ranked)

\* The rankings that may fill a need: of one machine after the other when the
\* request is machine-local, and of all nodes otherwise or for a consumable
\* need, which has one claim.
Rankings(ranked, request, need) ==
    IF ~request.local \/ IsConsumable(need) THEN <<ranked>>
    ELSE LET on(i) == MachineOf[ranked[i]]
         IN  [i \in {k \in DOMAIN ranked : on(k) \notin {0} \cup {on(j) : j \in 1 .. k - 1}} |->
                 SelectSeq(ranked, LAMBDA n : MachineOf[n] = on(i))]

FirstOfSize(groups, size) ==
    LET enough == {i \in DOMAIN groups : Len(groups[i]) = size}
    IN  IF enough = {} THEN <<>> ELSE groups[Min(enough)]

\* select_need_in and select_spread.
SelectAlong(rankings, request, need, already) ==
    FirstOfSize([i \in DOMAIN rankings |-> Greedy(rankings[i], need, request, already)],
                NeedCount(need))

SelectNeed(used, request, need, already, blocked, allowed) ==
    SelectAlong(Rankings(Rank(used, request, need, NodesOf(already),
                              Candidates(used, need, blocked) \cap allowed), request, need),
                request, need, already)

WithGroup(acc, group) ==
    IF group = <<>> THEN [acc EXCEPT !.ok = FALSE]
    ELSE [acc EXCEPT !.picked = Append(@, group)]

MeetsTopology(end, request) ==
    [end EXCEPT !.ok = @ /\ TopologyHolds(end.picked, request)]

SelectNeeds(used, request, blocked, allowed) ==
    MeetsTopology(
        FoldLeft(LAMBDA acc, need :
                     IF ~acc.ok THEN acc
                     ELSE WithGroup(acc, SelectNeed(used, request, need, acc.picked,
                                                    blocked, allowed)),
                 [ok |-> TRUE, picked |-> <<>>], request.needs),
        request)

-----------------------------------------------------------------------------
(* The bounded search on one machine, when the greedy choice does not meet *)
(* the topology (MachineSearch).                                           *)

RECURSIVE SearchNeeds(_, _, _, _, _, _, _), SearchGroup(_, _, _, _, _, _, _, _, _)

\* Needs from index on; the needs before it are picked.
SearchNeeds(used, request, blocked, allowed, index, picked, budget) ==
    IF index > Len(request.needs)
    THEN [ok |-> TopologyHolds(picked, request), picked |-> picked, budget |-> budget]
    ELSE LET need == request.needs[index]
         IN  SearchGroup(used, request, blocked, allowed, index,
                         Rank(used, request, need, NodesOf(picked),
                              Candidates(used, need, blocked) \cap allowed),
                         1, picked, budget)

\* Claims of need index from position pos of its ranking on.
SearchGroup(used, request, blocked, allowed, index, ranked, pos, picked, budget) ==
    LET need == request.needs[index]
        more == [picked EXCEPT ![index] = Append(@, Claim(ranked[pos], need))]
        with == IF TopologyHolds(more, request)
                THEN SearchGroup(used, request, blocked, allowed, index, ranked, pos + 1,
                                 more, budget - 1)
                ELSE [ok |-> FALSE, picked |-> picked, budget |-> budget - 1]
    IN  IF Len(picked[index]) = NeedCount(need)
        THEN SearchNeeds(used, request, blocked, allowed, index + 1, picked, budget)
        ELSE IF pos > Len(ranked) \/ budget = 0
        THEN [ok |-> FALSE, picked |-> picked, budget |-> budget]
        ELSE IF with.ok THEN with
        ELSE SearchGroup(used, request, blocked, allowed, index, ranked, pos + 1,
                         picked, with.budget)

-----------------------------------------------------------------------------

\* Mutant: the greedy attempt only.
SelectOnMachineGreedy(used, request, blocked, m) ==
    SelectNeeds(used, request, blocked, {m} \cup Descendants[m])

Refusal == [ok |-> FALSE, picked |-> <<>>]

OrElse(selection, other) == IF selection.ok THEN selection ELSE other

SelectOnMachine(used, request, blocked, m) ==
    OrElse(SelectNeeds(used, request, blocked, {m} \cup Descendants[m]),
           IF request.topology = <<>> THEN Refusal
           ELSE SearchNeeds(used, request, blocked, {m} \cup Descendants[m], 1,
                            [i \in DOMAIN request.needs |-> <<>>], SearchBudget))

FirstThatFits(selections) ==
    LET fits == {i \in DOMAIN selections : selections[i].ok}
    IN  IF fits = {} THEN Refusal ELSE selections[Min(fits)]

\* select_one_machine: the first machine, by identity, that hosts every need.
SelectOneMachine(used, request, blocked) ==
    LET machines == {m \in Nodes : Graph.kind[m] = "machine" /\ Ancestry[m] \cap blocked = {}}
    IN  FirstThatFits([m \in machines |-> SelectOnMachine(used, request, blocked, m)])

Select(used, request, blocked) ==
    IF \E c \in ToSet(request.topology) : ~({c.left, c.right} \subseteq DOMAIN request.needs)
    THEN Refusal
    ELSE IF request.local /\ Len(request.needs) > 1
    THEN SelectOneMachine(used, request, blocked)
    ELSE SelectNeeds(used, request, blocked, Nodes)

\* Whether a selection was made, and its claims.
Selects(used, request, blocked) == Select(used, request, blocked).ok
Claims(selection) == FlattenSeq(selection.picked)
=============================================================================
