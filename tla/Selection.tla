------------------------------ MODULE Selection ------------------------------
(***************************************************************************)
(* The selector at work: requests are allocated against the occupancy left *)
(* by earlier ones, claims end, and subtrees are blocked and returned      *)
(* (Cluster::allocate in crates/kernel/src/lib.rs).  The properties        *)
(* compare every answer, in every occupancy so reached, with what a        *)
(* placement is and with whether one exists.                               *)
(***************************************************************************)
EXTENDS Placement

CONSTANTS
    Requests,       \* the requests asked for
    Blockable       \* nodes that may be taken out of scheduling

VARIABLES
    used,       \* node -> quantity in use
    blocked     \* nodes that are not schedulable

vars == <<used, blocked>>

Init ==
    /\ used = Unused
    /\ blocked = {}

\* A lease is opened on the selection.
Allocate(request) ==
    LET selection == Select(used, request, blocked)
        grant == Claims(selection)
    IN  /\ selection.ok
        /\ used' = FoldLeft(LAMBDA u, c : [u EXCEPT ![c.node] = Plus(@, c.quantity)],
                            used, grant)
        /\ UNCHANGED blocked

\* The leases on a node end.
Free(n) ==
    /\ used[n] # Nothing
    /\ used' = [used EXCEPT ![n] = Nothing]
    /\ UNCHANGED blocked

Block(n) ==
    /\ n \notin blocked
    /\ blocked' = blocked \cup {n}
    /\ UNCHANGED used

Unblock(n) ==
    /\ n \in blocked
    /\ blocked' = blocked \ {n}
    /\ UNCHANGED used

Next ==
    \/ \E request \in Requests : Allocate(request)
    \/ \E n \in Nodes : Free(n)
    \/ \E n \in Blockable : Block(n) \/ Unblock(n)

Spec == Init /\ [][Next]_vars

-----------------------------------------------------------------------------
(* What a placement is.                                                    *)

Hosts(n, need) ==
    /\ Graph.kind[n] = need.kind /\ need.filters \subseteq Graph.attrs[n]
    /\ \A b \in blocked : b \notin Ancestry[n]
    /\ \A d \in Dims : NeedUnit(need)[d] > 0 =>
           /\ Graph.provider[n][d] # "none"
           /\ used[n][d] + NeedUnit(need)[d] <= Graph.capacity[n][d]

\* groups: the nodes of each need.
IsPlacement(request, groups) ==
    LET all == UNION {groups[i] : i \in DOMAIN groups}
        machines(S) == {MachineOf[n] : n \in S}
        size(i) == Cardinality(groups[i])
    IN  /\ \A i \in DOMAIN groups : /\ size(i) = NeedCount(request.needs[i])
                                    /\ \A n \in groups[i] : Hosts(n, request.needs[i])
        /\ \A i, k \in DOMAIN groups : i # k => groups[i] \cap groups[k] = {}
        /\ request.local => /\ Cardinality(machines(all)) = 1 /\ 0 \notin machines(all)
        /\ \A c \in ToSet(request.topology) :
               /\ {c.left, c.right} \subseteq DOMAIN groups
               /\ \A l \in groups[c.left], r \in groups[c.right] :
                      Satisfies(l, r, c.relation)

PlacementExists(request) ==
    LET options(need) == {S \in SUBSET {n \in Nodes : Hosts(n, need)} :
                              Cardinality(S) = NeedCount(need)}
    IN  \E groups \in [DOMAIN request.needs ->
                          UNION {options(need) : need \in ToSet(request.needs)}] :
            IsPlacement(request, groups)

\* Requests whose needs do not compete, and requests with the search to fall
\* back to.
Searched(request) ==
    \/ /\ request.topology = <<>>
       /\ \A i, k \in DOMAIN request.needs : i # k => request.needs[i].kind # request.needs[k].kind
    \/ request.local /\ Len(request.needs) > 1 /\ request.topology # <<>>

-----------------------------------------------------------------------------
(* Properties.                                                             *)

\* Whatever is selected is a placement: distinct nodes of the right class, in
\* schedulable subtrees, with the capacity left, on one machine when the
\* request is machine-local, and meeting every topology constraint.  A request
\* that the search covers, or whose needs do not compete, is refused only when
\* no placement exists (select, select_one_machine, MachineSearch).
SelectionIsExact ==
    \A request \in Requests :
        LET selection == Select(used, request, blocked)
        IN  IF selection.ok
            THEN IsPlacement(request, [i \in DOMAIN request.needs |->
                                           NodesOf(<<selection.picked[i]>>)])
            ELSE Searched(request) => ~PlacementExists(request)

\* Any request is refused only when no placement exists (select).
RefusedMeansNoFit ==
    \A request \in Requests :
        ~Selects(used, request, blocked) => ~PlacementExists(request)

\* Naming the data a request reads never gets it refused (score_node).
LocalityNeverRefuses ==
    \A request \in Requests :
        Selects(used, [request EXCEPT !.data = {}], blocked) => Selects(used, request, blocked)
=============================================================================
