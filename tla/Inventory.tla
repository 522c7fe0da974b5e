------------------------------ MODULE Inventory ------------------------------
(***************************************************************************)
(* How the controller aligns the devices it knows of one machine with what *)
(* the machine's agent reports when it registers (crates/node/src/         *)
(* service.rs, register_agent_with_capabilities and what it calls).        *)
(*                                                                         *)
(* A registration holds the controller lock, so nothing runs between its   *)
(* commits; but each commit is durable on its own, and the controller may  *)
(* crash between two of them.  Node 0 stands for the machine and its host  *)
(* nodes, whose facts are one value; the other nodes are devices.  A       *)
(* writer or a contract is Own (what this agent expects), Other or Unset.  *)
(* What recovery does with the leases it finds is in Execution: here any   *)
(* live lease may end, and an open binding closes while an agent is there. *)
(***************************************************************************)
EXTENDS Naturals, Sequences, FiniteSets

CONSTANTS
    Leases,         \* a set of naturals, in the order of their ids
    Hosts,          \* what the facts of the host may be
    DeviceIds, Kinds, Paths,
    Sites,          \* the host nodes below the machine that may contain a device
    Reports,        \* [host, devices], devices a sequence of [id, kind, parent, path]
    Legacy,         \* initial [host, node, writer, contract] of a loaded snapshot
    Own, Other, Unset,
    MaxNodes        \* bound on the device nodes

Devices == 1 .. MaxNodes
All == 0 .. MaxNodes

DeviceSpecs == [id : DeviceIds, kind : Kinds, parent : Sites \cup {Unset}, path : Paths]
DeviceNodes == [id : DeviceIds, kind : Kinds, at : Sites \cup {0}, parent : Sites \cup {Unset},
                path : Paths]
Marked == [All -> {Own, Other, Unset}]

\* An inventory names a device once.  A graph without a machine has no
\* devices, a device id has one node, and contracts are on nodes only.
ASSUME InventoryAssumption ==
    /\ Leases \subseteq Nat /\ MaxNodes \in Nat
    /\ Own # Other /\ Unset \notin {Own, Other} \cup Hosts \cup DeviceNodes
    /\ \A r \in Reports :
           /\ r \in [host : Hosts, devices : Seq(DeviceSpecs)]
           /\ \A i, k \in DOMAIN r.devices : i # k => r.devices[i].id # r.devices[k].id
    /\ \A l \in Legacy :
           /\ l \in [host : Hosts \cup {Unset}, node : [Devices -> DeviceNodes \cup {Unset}],
                     writer : Marked, contract : Marked]
           /\ \A n \in Devices : \/ l.node[n] = Unset /\ l.contract[n] = Unset
                                 \/ l.node[n] # Unset /\ l.host # Unset
           /\ \A n, m \in Devices : n # m /\ l.node[n] # Unset /\ l.node[m] # Unset
                                       => l.node[n].id # l.node[m].id

VARIABLES
    host,       \* the committed host facts, Unset before the first registration
    node,       \* device node -> [id, kind, at, parent, path] or Unset
    writer,     \* node -> Own, Other or Unset
    contracts,  \* node -> Own, Other or Unset
    state,      \* node -> NodeState
    claims,     \* lease -> the devices it claims, {} before it is reserved
    live,       \* the leases that are Reserved, Preparing or Active
    open,       \* <<lease, device>> of the bindings that are not closed
    session,    \* the machine has an agent session
    agent,      \* in memory: the report of the registered agent, or Unset
    recovering, \* in memory: the machine is being reconciled
    last,       \* in memory: outcome of the last registration
    job         \* in memory: the registration under way, or NoJob

durable == <<host, node, writer, contracts, state, claims, live, open, session>>
memory == <<agent, recovering, last, job>>
inventory_vars == <<durable, memory>>

NoJob == [report |-> Unset, step |-> "none", before |-> <<>>]
Idle == job.step = "none"

Highest(S) == CHOOSE n \in S : \A m \in S : m <= n
Lowest(S) == CHOOSE n \in S : \A m \in S : n <= m

KnownDevices == {n \in Devices : node[n] # Unset}
IdsIn(r) == {r.devices[i].id : i \in DOMAIN r.devices}
SpecOf(r, id) == CHOOSE s \in {r.devices[i] : i \in DOMAIN r.devices} : s.id = id

InventoryInit ==
    /\ \E l \in Legacy : /\ host = l.host /\ node = l.node
                         /\ writer = l.writer /\ contracts = l.contract
    /\ state = [n \in All |-> "Schedulable"]
    /\ claims = [l \in Leases |-> {}] /\ live = {} /\ open = {} /\ session = FALSE
    /\ agent = Unset /\ recovering = FALSE /\ last = "none" /\ job = NoJob

-----------------------------------------------------------------------------
(* The leases on the devices.                                              *)

\* node_quarantined
Blocked(n) == state[n] # "Schedulable" \/ state[0] # "Schedulable"

OpenOn(n) == \E l \in Leases : <<l, n>> \in open

Occupied(n) == \E l \in Leases : n \in claims[l] /\ (l \in live \/ \E m \in Devices : <<l, m>> \in open)

\* reserve_lease: devices are claimed whole
Reserve(l, c) ==
    /\ Idle /\ claims[l] = {} /\ c # {}
    /\ \A n \in c : contracts[n] # Unset /\ ~Blocked(n) /\ ~Occupied(n)
    /\ claims' = [claims EXCEPT ![l] = c] /\ live' = live \cup {l}
    /\ UNCHANGED <<host, node, writer, contracts, state, open, session, memory>>

\* promote_lease and its bindings, which need an agent session
Bind(l) ==
    /\ Idle /\ l \in live /\ session /\ \A n \in claims[l] : ~Blocked(n) /\ ~OpenOn(n)
    /\ open' = open \cup ({l} \X claims[l])
    /\ UNCHANGED <<host, node, writer, contracts, state, claims, live, session, memory>>

\* A release, an expiry, a revocation or a failure of the lease.
End(l) ==
    /\ Idle /\ l \in live /\ live' = live \ {l}
    /\ UNCHANGED <<host, node, writer, contracts, state, claims, open, session, memory>>

\* The agent acknowledged the fence.
Close(l, n) ==
    /\ Idle /\ agent # Unset /\ <<l, n>> \in open /\ l \notin live
    /\ open' = open \ {<<l, n>>}
    /\ UNCHANGED <<host, node, writer, contracts, state, claims, live, session, memory>>

-----------------------------------------------------------------------------
(* Registration.                                                           *)

\* The machine's nodes that the report speaks of: not the devices it omits.
Current(r) == {0} \cup {n \in KnownDevices : node[n].id \in IdsIn(r)}

\* The devices of the report that have a node.
Existing(r) == {n \in KnownDevices : node[n].id \in IdsIn(r)}

Vanished(r) == {n \in KnownDevices : node[n].id \notin IdsIn(r)}

\* mark_inventory_mismatch, and the refusal
Refuse ==
    /\ state' = IF state[0] \in {"Joining", "Schedulable"}
                THEN [state EXCEPT ![0] = "Unavailable"] ELSE state
    /\ last' = "refused" /\ job' = NoJob
    /\ UNCHANGED <<host, node, writer, contracts, claims, live, open, session, agent, recovering>>

\* verify_registered_host
HostUnchanged(r) == host = r.host

\* missing_fact_writer_assignments, missing_claim_contracts: no conflict
WritersAgree(r) == \A n \in Current(r) : writer[n] # Other
ContractsAgree(r) == \A n \in Current(r) : contracts[n] # Other

\* Mutant: the contracts are compared only when they are written.
PreflightWriters(r) == HostUnchanged(r) /\ WritersAgree(r)

\* preflight_fact_writers, preflight_claim_contracts
Preflight(r) == HostUnchanged(r) /\ WritersAgree(r) /\ ContractsAgree(r)

\* What a refusal must leave alone, kept with the registration.
DeviceSide == <<node, contracts, [n \in Devices |-> state[n]], claims, live, open>>

At(step) == job.step = step
Goto(step) == job' = [job EXCEPT !.step = step] /\ UNCHANGED <<agent, recovering, last>>

\* An agent of a machine whose instance id is known.
Register(r) ==
    /\ Idle /\ host # Unset
    /\ IF Preflight(r)
       THEN /\ job' = [report |-> r, step |-> "writers", before |-> DeviceSide]
            /\ last' = "pending" /\ UNCHANGED <<durable, agent, recovering>>
       ELSE Refuse

\* Node numbers for the devices without one, in the order of the report.
Fresh(r) ==
    LET base == Highest({0} \cup KnownDevices)
        new == {i \in DOMAIN r.devices : r.devices[i].id \notin {node[n].id : n \in Existing(r)}}
        number(i) == base + Cardinality({k \in new : k <= i})
    IN  [n \in {number(i) : i \in new} |-> r.devices[CHOOSE i \in new : number(i) = n]]

FactsOf(s, at) == [id |-> s.id, kind |-> s.kind, at |-> at, parent |-> s.parent, path |-> s.path]

\* The graph with the report's devices: known ones keep their container.
DevicesWith(r) ==
    LET fresh == Fresh(r)
    IN  [n \in Devices |->
            CASE n \in Existing(r) -> FactsOf(SpecOf(r, node[n].id), node[n].at)
              [] n \in DOMAIN fresh -> FactsOf(fresh[n], IF fresh[n].parent = Unset THEN 0
                                                         ELSE fresh[n].parent)
              [] OTHER -> node[n]]

Claimed(S, f) == [n \in All |-> IF n \in S /\ f[n] = Unset THEN Own ELSE f[n]]

\* The machine is new: build_graph and its fact batches in one commit.
RegisterNew(r) ==
    LET owned == {0} \cup DOMAIN Fresh(r)
    IN  /\ Idle /\ host = Unset /\ DOMAIN Fresh(r) \subseteq Devices
        /\ host' = r.host /\ node' = DevicesWith(r)
        /\ writer' = Claimed(owned, writer) /\ contracts' = Claimed(owned, contracts)
        /\ job' = [report |-> r, step |-> "session", before |-> DeviceSide]
        /\ last' = "pending"
        /\ UNCHANGED <<state, claims, live, open, session, agent, recovering>>

AdoptWriters(r) == Claimed(Current(r), writer)

\* reconcile_fact_writers
Adopt ==
    /\ At("writers") /\ writer' = AdoptWriters(job.report) /\ Goto("facts")
    /\ UNCHANGED <<host, node, contracts, state, claims, live, open, session>>

\* A device that cannot be the one it was.
Changed(n, s) ==
    \/ node[n].parent # Unset /\ s.parent # node[n].parent
    \/ s.parent # Unset /\ s.parent # node[n].at
    \/ s.kind # node[n].kind
    \/ state[n] = "Retired"

\* The first part of reconcile_device_subtree, one fact update.
ReconcileDevices ==
    LET r == job.report
        told == Existing(r) \cup DOMAIN Fresh(r)
    IN  /\ At("facts") /\ DOMAIN Fresh(r) \subseteq Devices
        /\ IF \E n \in Existing(r) : Changed(n, SpecOf(r, node[n].id))
           THEN Refuse
           ELSE /\ node' = DevicesWith(r)
                /\ writer' = Claimed(DOMAIN Fresh(r), writer)
                /\ contracts' = Claimed(told, contracts) /\ Goto("vanish")
                /\ UNCHANGED <<host, state, claims, live, open, session>>

SetState(n, to) ==
    /\ state' = [state EXCEPT ![n] = to]
    /\ UNCHANGED <<host, node, writer, contracts, claims, live, open, session, memory>>

\* Mutant: leases are failed only when a device becomes unavailable now.
VanishOnce ==
    LET gone == {n \in Vanished(job.report) : state[n] \in {"Schedulable", "Joining"}}
    IN  /\ At("vanish")
        /\ state' = [n \in All |-> IF n \in gone THEN "Unavailable" ELSE state[n]]
        /\ Goto(IF gone # {} THEN "fail" ELSE "return")
        /\ UNCHANGED <<host, node, writer, contracts, claims, live, open, session>>

\* The devices that the report omits become unavailable, one commit each.
Vanish ==
    LET gone == {n \in Vanished(job.report) : state[n] \in {"Schedulable", "Joining"}}
    IN  /\ At("vanish")
        /\ IF gone # {} THEN SetState(Lowest(gone), "Unavailable")
                        ELSE Goto("fail") /\ UNCHANGED durable

Affected(r) == {l \in live : claims[l] \cap Vanished(r) # {}}

\* The leases that claim one of them fail, one commit each.
Fail ==
    /\ At("fail")
    /\ IF Affected(job.report) # {}
       THEN /\ live' = live \ {Lowest(Affected(job.report))}
            /\ UNCHANGED <<host, node, writer, contracts, state, claims, open, session, memory>>
       ELSE Goto("return") /\ UNCHANGED durable

\* The devices that are back join, and are schedulable unless a binding from
\* before is still open.
Return ==
    LET back == {n \in Existing(job.report) :
                    state[n] = "Unavailable" \/ (state[n] = "Joining" /\ ~OpenOn(n))}
        n == Lowest(back)
    IN  /\ At("return")
        /\ IF back # {}
           THEN SetState(n, IF state[n] = "Unavailable" THEN "Joining" ELSE "Schedulable")
           ELSE Goto("contracts") /\ UNCHANGED durable

\* reconcile_claim_contracts
WriteContracts ==
    /\ At("contracts")
    /\ IF ~ContractsAgree(job.report)
       THEN Refuse
       ELSE /\ contracts' = Claimed(Current(job.report), contracts)
            /\ Goto(IF session THEN "session" ELSE "marks")
            /\ UNCHANGED <<host, node, writer, state, claims, live, open, session>>

\* UnquarantineNode, which the kernel refuses while a binding is open
Unquarantined ==
    IF state[0] = "Quarantined" /\ open = {} THEN [state EXCEPT ![0] = "Schedulable"] ELSE state

\* A known machine without a session has nothing to recover.
Marks ==
    /\ At("marks") /\ state' = Unquarantined /\ Goto("session")
    /\ UNCHANGED <<host, node, writer, contracts, claims, live, open, session>>

\* SetAgentSession; the agent is registered.
Accept ==
    /\ At("session") /\ session' = TRUE
    /\ agent' = job.report /\ recovering' = session /\ last' = "accepted" /\ job' = NoJob
    /\ UNCHANGED <<host, node, writer, contracts, state, claims, live, open>>

-----------------------------------------------------------------------------
(* What happens to the machine meanwhile.                                  *)

\* finish_machine_recovery, once every member is resolved
FinishRecovery ==
    /\ Idle /\ recovering /\ recovering' = FALSE /\ state' = Unquarantined
    /\ UNCHANGED <<host, node, writer, contracts, claims, live, open, session, agent, last, job>>

\* mark_machine_unhealthy, after a probe of the agent failed
Unhealthy ==
    /\ Idle /\ agent # Unset
    /\ state' = [state EXCEPT ![0] = "Quarantined"] /\ live' = {}
    /\ UNCHANGED <<host, node, writer, contracts, claims, open, session, memory>>

\* SetNodeState through apply
Retire(n) ==
    /\ Idle /\ n \in KnownDevices /\ ~Occupied(n) /\ state[n] # "Retired"
    /\ SetState(n, "Retired")

\* The controller restarts from its journal.
Crash ==
    /\ agent' = Unset /\ recovering' = FALSE /\ last' = "none" /\ job' = NoJob
    /\ memory' # memory /\ UNCHANGED durable

InventoryNext ==
    \/ \E r \in Reports : Register(r) \/ RegisterNew(r)
    \/ Adopt \/ ReconcileDevices \/ Vanish \/ Fail \/ Return \/ WriteContracts \/ Marks \/ Accept
    \/ \E l \in Leases, c \in SUBSET KnownDevices : Reserve(l, c)
    \/ \E l \in Leases : Bind(l) \/ End(l)
    \/ \E l \in Leases, n \in Devices : Close(l, n)
    \/ FinishRecovery \/ Unhealthy \/ Crash
    \/ \E n \in Devices : Retire(n)

InventorySpec == InventoryInit /\ [][InventoryNext]_inventory_vars

-----------------------------------------------------------------------------
(* Properties.                                                             *)

\* While an agent is registered, a device it did not report accepts no
\* claims and no live lease holds it, whatever crashes came between the
\* commits of this or earlier registrations (reconcile_device_subtree).
VanishedIsUnheld ==
    agent # Unset /\ Idle =>
        \A n \in Vanished(agent) :
            /\ state[n] \notin {"Schedulable", "Joining"}
            /\ \A l \in live : n \notin claims[l]

\* A refused registration has changed no device, contract, availability or
\* lease (preflight_claim_contracts: "before returning-device
\* reconciliation can mutate facts, availability, or Lease state").
RefusedKept == ~Idle /\ last' = "refused" => DeviceSide' = job.before

\* A device that the report omits gains neither a writer nor a contract
\* (current_fact_writer_assignments, reconcile_claim_contracts).
OmittedKept ==
    \A n \in KnownDevices : writer'[n] # writer[n] \/ contracts'[n] # contracts[n]
        => ~Idle /\ node[n].id \in IdsIn(job.report)

\* A stable device id has one node for ever, with its class and its
\* container, through absence, return and crashes (reconcile_device_subtree).
NodeKept ==
    \A n \in KnownDevices :
        /\ node'[n] # Unset
        /\ [k \in {"id", "kind", "at"} |-> node'[n][k]] = [k \in {"id", "kind", "at"} |-> node[n][k]]
        /\ \A m \in Devices \ {n} : node'[m] # Unset => node'[m].id # node[n].id

\* What a registration may never do to the devices (register_agent_with_
\* capabilities): lose their identity, change them and then be refused, or
\* own one it does not report.
DevicesKept == NodeKept /\ RefusedKept /\ OmittedKept
DevicesAreKept == [][DevicesKept]_inventory_vars

\* A machine whose last agent was refused takes no placements
\* (mark_inventory_mismatch: "Stop new placement").
MismatchStopsPlacement == last = "refused" => state[0] # "Schedulable"
=============================================================================
