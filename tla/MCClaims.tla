------------------------------- MODULE MCClaims -------------------------------
(***************************************************************************)
(* From requests to what a member may use, for TLC: Selection, Pinning and *)
(* DeviceFilter.  A behaviour is one of the three, as part says.           *)
(*                                                                         *)
(* "selection": a machine (1) of two NUMA nodes (2, 6) with two CPUs and a *)
(* GPU each, memory on the second one, and a machine (11) with one CPU; a  *)
(* network card (13) is linked to the first GPU, a data object (14) is     *)
(* cached on the second NUMA node, and the GPU there is degraded.          *)
(* "limits": a normalized machine with NUMA nodes 0 and 2, a CPU and a     *)
(* device, a machine with a flat inventory, and two leases.                *)
(* "filter": two devices with a support path in common, whose numbers      *)
(* differ from a device's only in the type, a device that is gone, and two *)
(* pseudo-devices: one can be claimed, one this machine does not have.     *)
(***************************************************************************)
EXTENDS Placement, DeviceFilter, TLC

CONSTANTS Requests, Blockable, big, flat, nulldev, fulldev, gpu0, gpu1, ctl, gone

VARIABLES part, used, blocked, claims, group, left

selection == <<used, blocked>>
limits == <<claims, group, left>>

-----------------------------------------------------------------------------
(* The graph and the requests.                                             *)

Kinds == <<"machine", "numa", "cpu", "cpu", "gpu", "numa", "cpu", "cpu", "gpu", "memory",
           "machine", "cpu", "nic", "data-object">>
Parents == <<0, 1, 2, 2, 2, 1, 6, 6, 6, 6, 0, 11, 1, 0>>

Leaf(kind) == kind \in {"cpu", "memory", "gpu", "nic"}
Dim(kind) == IF kind = "memory" THEN "bytes" ELSE "count"

TwoMachines ==
    [kind |-> Kinds, parent |-> Parents,
     capacity |-> [n \in DOMAIN Kinds |->
         IF Leaf(Kinds[n]) THEN Qty(Dim(Kinds[n]), IF Kinds[n] = "memory" THEN 2 ELSE 1)
         ELSE Nothing],
     provider |-> [n \in DOMAIN Kinds |-> [d \in Dims |->
         IF Leaf(Kinds[n]) /\ d = Dim(Kinds[n]) THEN "enforce" ELSE "none"]],
     attrs |-> [n \in DOMAIN Kinds |-> IF n \in {3, 8} THEN {"fast"} ELSE {}],
     degraded |-> {9}, cached |-> {<<14, 6>>}, connected |-> {<<5, 13>>}]

Need(kind, amount) == [kind |-> kind, quantity |-> Qty(Dim(kind), amount), filters |-> {}]
Fast(need) == [need EXCEPT !.filters = {"fast"}]
SameNuma(l, r) == [left |-> l, right |-> r, relation |-> [is |-> "same-ancestor", class |-> "numa"]]
OtherNuma(l, r) == [left |-> l, right |-> r, relation |-> [is |-> "different-ancestor", class |-> "numa"]]
Linked(l, r) == [left |-> l, right |-> r, relation |-> [is |-> "connected", class |-> "numa"]]

Ask(needs, topology) == [needs |-> needs, topology |-> topology, preferences |-> <<>>,
                         data |-> {}, local |-> TRUE]
Anywhere(request) == [request EXCEPT !.local = FALSE]
Spread(request) == [request EXCEPT !.preferences = <<[is |-> "spread", attr |-> ""]>>]
Reading(request) == [request EXCEPT !.data = {14}]

Covered == {Ask(<<Need("cpu", 2)>>, <<>>),
            Ask(<<Need("cpu", 2), Need("memory", 1)>>, <<SameNuma(1, 2)>>),
            Spread(Ask(<<Need("cpu", 1), Need("cpu", 1)>>, <<OtherNuma(1, 2)>>)),
            Reading(Ask(<<Need("cpu", 1), Need("gpu", 1), Need("nic", 1)>>,
                        <<SameNuma(1, 2), Linked(2, 3)>>)),
            Spread(Anywhere(Ask(<<Need("cpu", 3)>>, <<>>))),
            Ask(<<Need("cpu", 1)>>, <<SameNuma(1, 2)>>)}

\* Needs of one kind that only one order of them places, and a request for
\* which the place of its data is the wrong one.
Competing == {Ask(<<Need("cpu", 1), Fast(Need("cpu", 1))>>, <<>>)}
Hinted == {Reading(Anywhere(Ask(<<Need("cpu", 1), Need("gpu", 1), Need("nic", 1)>>,
                                <<SameNuma(1, 2), Linked(2, 3)>>)))}

S == INSTANCE Selection

-----------------------------------------------------------------------------
(* The leaves of the two leases' machines.                                 *)

HostIds == [c0 |-> <<"numa", "0", "cpu", "4">>,
            m0 |-> <<"numa", "0", "memory">>, m2 |-> <<"numa", "2", "memory">>,
            gpu |-> <<>>, m |-> <<>>]
AllLeaves == DOMAIN HostIds

P == INSTANCE Pinning WITH
    Leases <- {1, 2}, Machines <- {big, flat}, Lingering <- {<<1, big>>},
    Leaves <- AllLeaves, HostId <- HostIds,
    MachineOf <- [n \in AllLeaves |-> IF n = "m" THEN flat ELSE big],
    Kind <- [n \in AllLeaves |-> CASE n = "c0" -> "cpu"
                                   [] n = "gpu" -> "device"
                                   [] OTHER -> "memory"],
    Capacity <- [n \in AllLeaves |-> IF n = "m" THEN 2 ELSE 1],
    Number <- [s \in {"0", "2", "4"} |-> CASE s = "0" -> 0 [] s = "2" -> 2 [] s = "4" -> 4]

-----------------------------------------------------------------------------
(* The devices of a member.                                                *)

Node(t, major, minor) == [type |-> t, major |-> major, minor |-> minor]

DeviceNodes == {nulldev, fulldev, gpu0, gpu1, ctl, gone}
NodeNumbers == [path \in DeviceNodes |->
    CASE path = nulldev -> Node(2, 1, 1)
      [] path = gpu0 -> Node(2, 2, 1) [] path = gpu1 -> Node(2, 2, 2) [] path = ctl -> Node(1, 2, 1)
      [] OTHER -> None]
Pseudo == <<fulldev, nulldev>>

Devices == {<<gpu0, ctl>>, <<gpu1, ctl>>, <<nulldev>>, <<gone>>}
Claimed == {<<>>} \cup Devices \cup {d \o e : d, e \in Devices}

-----------------------------------------------------------------------------

ClaimsInit == part \in {"selection", "limits", "filter"} /\ S!Init /\ P!Init /\ FilterInit

ClaimsNext ==
    /\ UNCHANGED part
    /\ \/ part = "selection" /\ S!Next /\ UNCHANGED <<limits, filter_vars>>
       \/ part = "limits" /\ P!Next /\ UNCHANGED <<selection, filter_vars>>
       \/ part = "filter" /\ FilterNext /\ UNCHANGED <<selection, limits>>

ClaimsSpec == ClaimsInit /\ [][ClaimsNext]_<<part, selection, limits, filter_vars>>

\* What is selected is a placement, and what the search covers is refused only
\* when there is none (Selection).
SelectionIsExact == part = "selection" => S!SelectionIsExact

\* Members keep to their claims (Pinning).
MembersKeepToClaims == P!MembersKeepToClaims
===============================================================================
