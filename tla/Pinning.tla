------------------------------- MODULE Pinning -------------------------------
(***************************************************************************)
(* What of a lease each of its members may use on its machine: the limits, *)
(* the CPUs, the NUMA nodes and the devices that the controller derives    *)
(* from the claims when it starts a member, and the cgroup that the agent  *)
(* configures with them (crates/node/src/service.rs,                       *)
(* lease_limits_on_machine; cgroup.rs, configure_limits).                  *)
(*                                                                         *)
(* A host id is the sequence of its parts: numa/0/cpu/7 is                 *)
(* <<"numa", "0", "cpu", "7">>, and a node of a flat inventory has <<>>.   *)
(* A lease id is used again after its lease closed: ids restart at 1 with  *)
(* a new controller, and cgroups are named after them.                     *)
(***************************************************************************)
EXTENDS Integers, Sequences, FiniteSets, FiniteSetsExt, Functions

CONSTANTS
    Leases, Machines,
    Leaves,         \* the claimable nodes
    MachineOf,      \* leaf -> machine
    Kind,           \* leaf -> "cpu", "memory" or "device"
    HostId,         \* leaf -> host id
    Capacity,       \* leaf -> units
    Number,         \* numeral -> number
    Lingering,      \* the members whose cgroup may outlive them (a bound)
    None

VARIABLES
    claims,         \* lease -> leaf -> units
    group,          \* <<lease, machine>> -> the member's cgroup, or None
    left            \* <<lease, machine>> -> a cgroup left behind, or None

vars == <<claims, group, left>>

Init ==
    /\ claims = [l \in Leases |-> [n \in Leaves |-> 0]]
    /\ group = [x \in Leases \X Machines |-> None] /\ left = group

On(m) == {n \in Leaves : MachineOf[n] = m}
ClaimedOf(l, m, kind) == {n \in On(m) : Kind[n] = kind /\ claims[l][n] > 0}
Units(l, S) == MapThenSumSet(LAMBDA n : claims[l][n], S)

-----------------------------------------------------------------------------
(* From claims to limits.                                                  *)

\* str::strip_prefix of one part and its slash, and str::parse
Strip(part, id) == IF Len(id) > 1 /\ id[1] = part THEN Tail(id) ELSE None
Parse(id) == IF id # None /\ Len(id) = 1 /\ id[1] \in DOMAIN Number THEN Number[id[1]] ELSE None

HostLeafNumber(n, leafKind) ==
    LET id == HostId[n]
        numa == Strip("numa", SubSeq(id, 1, Len(id) - 1))
        leaf == SubSeq(id, Len(id), Len(id))
    IN  CASE Len(id) < 2 \/ numa = None -> None
          [] leafKind = "cpu" -> Parse(Strip("cpu", leaf))
          [] leafKind = "memory" /\ leaf = <<"memory">> -> Parse(numa)
          [] OTHER -> None

LeafNumbers(S, leafKind) == {HostLeafNumber(n, leafKind) : n \in S} \ {None}

\* Mutant: the claims on every machine count.
LeaseLimitsEverywhere(l, m) ==
    LET all(kind) == UNION {ClaimedOf(l, k, kind) : k \in Machines}
    IN  [cpuCount |-> Units(l, all("cpu")), memoryBytes |-> Units(l, all("memory")),
         cpus |-> LeafNumbers(all("cpu"), "cpu/"), mems |-> LeafNumbers(all("memory"), "memory")]

LeaseLimitsOnMachine(l, m) ==
    [cpuCount |-> Units(l, ClaimedOf(l, m, "cpu")),
     memoryBytes |-> Units(l, ClaimedOf(l, m, "memory")),
     cpus |-> LeafNumbers(ClaimedOf(l, m, "cpu"), "cpu/"),
     mems |-> LeafNumbers(ClaimedOf(l, m, "memory"), "memory")]

LeaseDevicesOnMachine(l, m) == ClaimedOf(l, m, "device")

-----------------------------------------------------------------------------
(* From limits to the cgroup.                                              *)

\* CpuList::render: the list as ranges
Render(S) == {r \in S \X S : /\ r[1] .. r[2] \subseteq S
                             /\ r[1] - 1 \notin S /\ r[2] + 1 \notin S}

\* What the kernel reads from such a list; an unwritten file limits nothing.
Written(ranges) == IF ranges = {} THEN None ELSE UNION {r[1] .. r[2] : r \in ranges}

\* The files of a group in the order they are written, its device filter last.
Settings == <<"cpuMax", "memoryMax", "cpus", "mems", "devices">>

\* What configure_limits and enforce_devices write: no limit of zero, no empty
\* list, and no filter without device claims.
Wanted(limits, devices) ==
    [cpuMax |-> IF limits.cpuCount > 0 THEN limits.cpuCount ELSE None,
     memoryMax |-> IF limits.memoryBytes > 0 THEN limits.memoryBytes ELSE None,
     cpus |-> Written(Render(limits.cpus)),
     mems |-> Written(Render(limits.mems)),
     devices |-> IF devices = {} THEN None ELSE devices]

\* A new group, or one that was left behind, after the first settings: what is
\* not written stays as it was, and None limits nothing.
Configured(old, wanted, written) ==
    [s \in Range(Settings) |->
        IF wanted[s] # None /\ \E i \in 1 .. written : Settings[i] = s THEN wanted[s]
        ELSE IF old # None THEN old[s] ELSE None]

-----------------------------------------------------------------------------

\* A lease is opened with claims that fit; CPUs and devices have one unit.
Open(l, c) ==
    /\ \A n \in Leaves : claims[l][n] = 0
    /\ \E n \in Leaves : c[n] > 0
    /\ \A n \in Leaves :
           c[n] + MapThenSumSet(LAMBDA k : claims[k][n], Leases) <= Capacity[n]
    /\ claims' = [claims EXCEPT ![l] = c] /\ UNCHANGED <<group, left>>

\* CgroupGroup::destroy: a failure to remove the group is ignored.
Destroy(l, m, old) ==
    \/ left' = [left EXCEPT ![<<l, m>>] = None]
    \/ <<l, m>> \in Lingering /\ left' = [left EXCEPT ![<<l, m>>] = old]

\* activate, as the start request of maybe_start_executions asks for it; a
\* setting that cannot be written or a program that cannot be started gives
\* the group up.
Start(l, m) ==
    LET new(written) == Configured(left[<<l, m>>],
                                   Wanted(LeaseLimitsOnMachine(l, m), LeaseDevicesOnMachine(l, m)),
                                   written)
    IN  /\ group[<<l, m>>] = None /\ \E n \in On(m) : claims[l][n] > 0
        /\ \/ /\ group' = [group EXCEPT ![<<l, m>>] = new(Len(Settings))]
              /\ left' = [left EXCEPT ![<<l, m>>] = None]
           \/ \E written \in 0 .. Len(Settings) : Destroy(l, m, new(written)) /\ UNCHANGED group
        /\ UNCHANGED claims

\* terminate
Stop(l, m) ==
    /\ group[<<l, m>>] # None
    /\ group' = [group EXCEPT ![<<l, m>>] = None]
    /\ Destroy(l, m, group[<<l, m>>]) /\ UNCHANGED claims

\* The lease ends after its members stopped.
Close(l) ==
    /\ \E n \in Leaves : claims[l][n] > 0
    /\ \A m \in Machines : group[<<l, m>>] = None
    /\ claims' = [claims EXCEPT ![l] = [n \in Leaves |-> 0]] /\ UNCHANGED <<group, left>>

Next ==
    \/ \E l \in Leases, c \in [Leaves -> 0 .. 1] : Open(l, c)
    \/ \E l \in Leases, m \in Machines : Start(l, m) \/ Stop(l, m)
    \/ \E l \in Leases : Close(l)

Spec == Init /\ [][Next]_vars

-----------------------------------------------------------------------------
(* Properties.                                                             *)

Running(m) == {l \in Leases : group[<<l, m>>] # None}

BudgetOf(m, field, kind) ==
    MapThenSumSet(LAMBDA l : group[<<l, m>>][field],
                  {l \in Running(m) : ClaimedOf(l, m, kind) # {}})

CapacityOf(m, kind) == MapThenSumSet(LAMBDA n : Capacity[n], {n \in On(m) : Kind[n] = kind})

\* The NUMA node of a memory leaf, from its host id.
NumaOf(n) == Number[HostId[n][2]]

\* A member keeps to its claims: the budgets of the members on a machine
\* never exceed it, members that claim devices get through to those and to no
\* device of one another, and a member with memory on a normalized host
\* allocates on the NUMA nodes it claims and on no other, whatever the group
\* it found was left with (lease_limits_on_machine: "no agent may receive
\* another machine's resource budget as if it were locally granted";
\* configure_limits: "pin the member to exactly the CPUs and NUMA nodes its
\* claims landed on").
MembersKeepToClaims ==
    \A m \in Machines :
        LET claiming == {l \in Running(m) : LeaseDevicesOnMachine(l, m) # {}}
        IN  /\ BudgetOf(m, "cpuMax", "cpu") <= CapacityOf(m, "cpu")
            /\ BudgetOf(m, "memoryMax", "memory") <= CapacityOf(m, "memory")
            /\ \A l \in Running(m) :
                   LET home == {n \in ClaimedOf(l, m, "memory") : HostId[n] # <<>>}
                   IN  home # {} => group[<<l, m>>].mems = {NumaOf(n) : n \in home}
            /\ \A l \in claiming : group[<<l, m>>].devices = LeaseDevicesOnMachine(l, m)
            /\ \A k, l \in claiming :
                   k # l => group[<<k, m>>].devices \cap group[<<l, m>>].devices = {}

\* The CPU number of a CPU leaf, from its host id.
CpuOf(n) == Number[HostId[n][4]]

\* A member with CPUs of a normalized host runs on those and on no other, so
\* that members of two leases never share one (lease_limits_on_machine: "the
\* CPU list is the claimed CPU leaves' logical numbers").
CpusStayHome ==
    \A l \in Leases, m \in Machines :
        LET home == {n \in ClaimedOf(l, m, "cpu") : HostId[n] # <<>>}
        IN  group[<<l, m>>] # None /\ home # {} =>
                group[<<l, m>>].cpus = {CpuOf(n) : n \in home}

\* What a member has no claim for is not limited (LeaseLimits: "Resource
\* limits derived from a lease's claims. Zero means unlimited").
ZeroMeansUnlimited ==
    \A m \in Machines : \A l \in Running(m) :
        /\ ClaimedOf(l, m, "cpu") = {} => group[<<l, m>>].cpuMax = None
        /\ ClaimedOf(l, m, "memory") = {} =>
               group[<<l, m>>].memoryMax = None /\ group[<<l, m>>].mems = None

\* A member gets through to the devices it claims and to no other
\* (device_filter.rs: "the lease may access exactly its claimed devices plus a
\* fixed set of standard pseudo-devices").
ExactlyItsDevices ==
    \A m \in Machines : \A l \in Running(m) :
        group[<<l, m>>].devices = LeaseDevicesOnMachine(l, m)
=============================================================================
