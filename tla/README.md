# Archon in TLA+

A verification project for Archon, the resource manager in `crates/`: TLA+ modules that model its
lease authority, the enforcement of leases by agents, the execution and recovery of workloads, the
scheduler, the resource graph and the durability of the controller, TLC runs on small instances, and
TLAPS proofs for every instance.

Paths below are relative to `src/crates/`.

## 1. The system and its parts

Archon leases pieces of a resource graph to workloads and enforces each lease on the machines that
hold the pieces. One controller process holds all authority. Each machine runs an agent.

| part | source | state | operations | modelled by |
| --- | --- | --- | --- | --- |
| kernel | `kernel/src/cluster.rs`, `occupancy.rs`, `command.rs` | leases, bindings, agent sessions, fences, node states, clock | one transition per `Command`, which returns the `Effect`s to send | `Cluster`, `ClusterReplay` |
| graph | `kernel/src/graph.rs` | nodes, containment, claim contracts, fact writers, revision | fact updates by provider, adoption, contracts | `Facts` |
| admission | `kernel/src/admit.rs`, `select.rs`, `preempt.rs` | none (functions of the cluster and the queue) | order the queue, pick claims, backfill, pick victims | `Placement`, `Selection`, `Admission` |
| endpoint, provider | `kernel/src/endpoint.rs`, `node/src/provider.rs`, `agent.rs` | accepted fence, open generation, phase, session, epoch | prepare, activate, release, fence, enumerate | `Provider` |
| binding calls | `node/src/dispatch.rs`, `service.rs` (`route`, `dispatch`, `absorb`) | queued jobs, the call under way, the inbox | send, receive, time out, absorb, register | `Enforcement` |
| controller: execution, recovery | `service.rs` (`maybe_start_executions`, `route_recovery` and following), `recovery.rs`, `executor.rs` | members started and stopped, held effects, evidence per returned machine | start, stop, poll, probe, complete; enumerate, adopt, fence strays, resolve | `Execution` |
| controller: groups, restarts | `workload.rs`, `service.rs` (`reconcile_service_groups`, `take_restarts`), `control/src/server.rs` | desired groups, members, lineages, restart counts | scale, replace, restart, submit | `Services` |
| controller: inventory | `service.rs` (`register_agent_with_capabilities` and what it calls), `discover.rs` | device nodes, their writers, contracts and states | register, refuse, vanish, return | `Inventory` |
| member limits | `service.rs` (`lease_limits_on_machine`), `protocol.rs`, `cgroup.rs` | a member's cgroup | derive, render, configure, remove | `Pinning` |
| device filters | `device_filter.rs`, `runtime.rs` | the program attached to a cgroup | compile, attach, decide | `DeviceFilter` |
| control plane | `control/src/server.rs`, `log.rs`; `service.rs` (`persist`, `replay`, `restore`) | journal, snapshot, sequence numbers | boot, replay, append, compact | `Journal` |
| runtimes | `runtime.rs`, `linux_process.rs`, `container.rs`, `cgroup.rs` | running members | start, stop, status, logs | in `Execution` and `Pinning`, without system calls |
| discovery | `discover.rs` | none | describe a machine | its result, in `Inventory` |
| transport, API | `transport.rs`, `protocol.rs`, `api.rs` | none | frames, parsing, encryption | as a FIFO that may end |
| simulator | `sim/src` | a World of kernel, agents and endpoints | inject faults | no: a test harness |

How they interact. A client submits a request; the controller queues it, picks an allocation and
commits `OpenLease` and one `OpenBinding` per claim. Every commit is applied to the kernel, written
to the journal and synced before its effects leave. Effects go to the worker thread of the machine,
one call at a time, over one connection. The agent applies each request to the endpoint it names and
answers. The controller absorbs answers as `Record…` commands. When every binding of a lease is
prepared, the lease becomes Active and the endpoints are activated. Ending a lease (release, revoke,
expiry, failure, completion) sends a fence or a release to each open binding. A claim occupies its
node until its binding is recorded closed.

What is hard about it:

- authority outlives the lease: an ended lease still occupies until its endpoints are closed;
- answers come late, from an older session, for an older fence, or twice;
- the graph changes under leases: capacity, machine and contract of a node;
- leases form trees, in which children are charged to their parent and not to the graph;
- agents restart without memory, and connections end at any time;
- the controller crashes between any two writes, and its clock does not survive;
- every call may time out while the agent still executes it;
- a member must be gone before its capacity is free, and the agent that started it may be another
  one by then;
- desired groups, restarts and client submissions share one queue;
- a registration is a series of commits, each durable on its own.

## 2. Modules

### Cluster

One action per `Command`, named like the method of `cluster.rs` that handles it. Guards are the
conditions under which the method returns `Ok`; a rejected command changes nothing and is not a
step. `effects` holds what the last command returned.

Abstractions. Owners, priorities, reasons and exit codes decide nothing and are left out. Quantities
have one dimension. A graph is a whole member of `Graphs`: capacity, machine, ancestors and contract
of each node. Sums of claims are cardinalities of sets of (lease, unit) pairs (`Units`), which keeps
the module free of recursion and open to proof. Descendants are the least set closed under
`Children`, in place of the recursive walk. `CompleteLease` chooses the final state that the exit
code would give. `Replaying` switches off the guards that read the clock, as `Cluster::replay` does.

`ClusterReplay` puts the kernel beside its own replay: a second instance of `Cluster`, with the clock
of the latest snapshot and `Replaying` set, must accept every command the first one accepts and do
the same.

### Facts

The graph and who may change it: unowned updates, fragments of a writer (several in one update),
claim contracts, adoption of ownership and health. A node's facts are one value; `Claimable` are the
values with capacity. A refused update is a stuttering step.

### Placement, Selection and Admission

`Placement` has the selector as operators over a constant graph: derived relations, remaining
capacity, filters, topology, preferences, the greedy pass and the fallback search with its budget.
`Selection` reaches the occupancies in which it is asked, and states what a placement is and whether
one exists without the selector's own definitions. `Admission` adds the queue, ceilings, fair share,
backfill behind blocked heads, hard exclusions and preemption plans, as one `AdmitBackfill` that every
admission step takes. Time is relative: a lease carries what is left of its lifetime. Delegated leases
have no bindings of their own, as in the kernel (`ChildBindingRefused`), so they end at once.

### Grants and ClusterGrants

`Grants` is what the kernel promises the agents, without leases, claims or graphs: an endpoint is
granted under a fresh fence, only the current session of the serving machine confirms or closes the
grant, and closing is final. `ClusterGrants` gives the refinement mapping: Released and Fenced are
both Closed, and an open binding is served by the machine of its node. `Identities` declares the
bindings and endpoints that the kernel's grants and the agents name alike.

### Provider

The agent's side. The endpoint state machine (`prepare`, `activate`, `close`) and the provider's
check of session and epoch, with adoption on Activate. `Generations` are the generations controllers
issue, in any number; requests for them come in any order, repeated, from any session and epoch. The
assumption on generations (no two share a binding, or an endpoint and a fence) is what the kernel
provides: a binding opens with a fence above all others of its endpoint (`OpenHasNewestFence`).

### Enforcement

`Grants` composed with one agent's `Provider` through the real path: `Dispatch` (routing under the
controller's lock), `Send`, `Receive` and `Timeout` (the worker), `Handle` (the agent), `Absorb` (the
inbox), `Disconnect` and `Register`. The controller may give any order that `Grants` allows at any
time, so what holds here does not depend on the lease logic. A teardown may be held back, as `route`
does until a member has stopped. The kernel's promise is used through its proved abstraction.

A read that times out fails the call and leaves the connection in use (`RemoteAgentClient::call`);
the next call reads the next frame, whichever call it answers.

### Execution

The controller's records and memory in one variable `ctl`, the agents with the `Provider` endpoint
rules, and the members themselves (`work`). An operation of the controller is a chain of functions on
`ctl`, as in the code, where one absorbed answer may start members, release held teardown, resolve a
recovery and complete a lease. Agents return with or without their memory, a process dies with its
agent, a container does not, and the controller restarts from its journal, under the epoch it had. A
failing `inspect` reports a container that runs as exited or gone (`Misread`), so a status is any of a
set of answers. Each machine has one exclusive resource, so two leases on it exclude each other.

### Services

Groups, members, pins, lineages and restart counts, the queue they share with submissions, and the
maintenance round in the order of the code (`maintain`). Requests ask for one slot of one machine;
placement itself is the subject of `Admission`. `UpkeepRestores` asks that a group does not stay short
only where the group may still replace a member (`MayReplace`): one whose replacements have reached the
cap, or whose next backoff lies beyond the clock's bound, may stay short, as the code says it does.

### Inventory

One registration is a `job` that runs through the commits of `register_agent_with_capabilities`
(`Adopt`, `ReconcileDevices`, `Vanish`, `Fail`, `Return`, `WriteContracts`, `Marks`, `Accept`) under the controller
lock. `Crash` strikes between any two and keeps what was committed. First states include graphs from
before ownership was recorded. The refusal of conflicting contracts inside `reconcile_device_subtree`
(`service.rs:877`) is left out: the preflight, under the same lock, has refused such a report before.
Of the states that an operator's command may give a device only Retired is modelled, since no caller in
the server or the command line sets another.

### Pinning and DeviceFilter

`Pinning` goes from claims to what a member's cgroup confines: units per machine, CPU and NUMA numbers
parsed out of host identities, ranges rendered and written, and cgroups that are left behind and used
again. A start writes the settings of its group one after the other and may fail after any of them; what
the claims do not mention is not written and keeps the value the group had (`Configured`). In particular
no filter is attached for a member without device claims, so it runs under its predecessor's filter or
under none. `MembersKeepToClaims` therefore speaks of what a member does claim, and `FilterDecides` of
members with device claims. `DeviceFilter` compiles device rules into the instructions of `compile` and runs the program
on each access. Removing the group may fail and leave the program attached. Jump offsets are 16-bit, as
in the code. The instruction semantics are external; registers are words, `None` before the first
write.

### Journal

The files (`log`, `torn` tail, `snapshot`, and `durable`, the snapshot a crash may leave) and the
controller's memory. `Boot`, one `ReplayLine` per line, `Serve`; then `Submit`, `AdmitOne`,
`AdmitRefused`, `CommitOther` and `PersistUnchanged`, each of which writes a record that `SyncRecord`
makes durable before anything is acknowledged; then the steps of a compaction, any of which may fail.
`Crash` strikes anywhere: the line being written is lost, torn or whole, and a rename that was not
synced may be undone. First boots find no files, a command-only log or a version-1 snapshot. The
cluster is the sequence of its commands. `accepted` and `acted` are history variables.

## 3. Runs

Each run asks one question of the system. Where an instance has to cover unlike situations, its MC
module lists them (shapes, setups, scenes or parts) and every behaviour belongs to one of them, chosen
in the first state.

| run | instance | states | what it shows |
| --- | --- | --- | --- |
| `authority` | `MCCluster`, shapes `tree` (three leases that delegate on a shared node of two units) and `endpoint` (two leases, two bindings, a contract that changes between exclusive and shared) | 81 thousand | no node and no parent is oversubscribed, one open binding per exclusive endpoint, fences in order, nothing ended revives |
| `lifecycle` | `MCCluster`, shapes `gang` (one lease over two nodes, whose agent is replaced), `moving` (a node that shrinks, changes contract or moves), `timed` (two leases and a clock beside the replay) | 44 thousand | retirement, the activation barrier, teardown of every endpoint, refinement of `Grants`, agreement of replay |
| `agent` | `MCAgent`, parts `provider` (two exclusive generations and two shares, two sessions, two epochs) and `link` (two bindings of an endpoint, two registrations, three calls under way, two timeouts with one binding) | 1.0 million | what was passed stays passed; controller and agent agree on what is enforced |
| `late_two` | `MCAgent`, part `link`, two bindings and one timeout | violation | a late answer is recorded for the other binding |
| `execution` | `MCExecution`, setups `Contended`, `Returning`, `Restarting`, `Gang` | 1.5 million | stops precede reuse, members start once and behind the barrier, recovery leaves no stray |
| `recovery` | `MCExecution`, one machine that returns once or twice, with a stray generation | 23 thousand | recovery ends, a teardown that was sent is recorded |
| `journal` | `MCJournal`, two requests, two leases, four records, six first boots | 3.6 million | crashes lose, double and renumber nothing, and the controller boots again |
| `services` | `MCServices`, scenes `Upkeep`, `Pools`, `Daemons`, `Restarts` | 133 thousand | groups never exceed what they want, lineages are bounded, what is missing is restored |
| `admission` | `MCAdmission`, setups `Plain`, `Renewing`, `Shared`, `Excluding`, `Ranked` | 50 thousand | no overcommitment, no delayed head, plans that make room |
| `front` | `MCAdmission`, setup `Single` | 1.5 thousand | backfill does not starve the oldest request |
| `claims` | `MCClaims`, parts `selection`, `limits`, `filter` | 80 thousand | the selector is exact where it searches, members keep to their claims, the filter decides as the claims say |
| `registry` | `MCRegistry`, parts `facts`, `absences`, `changes` | 675 thousand | ownership and containment, device identity, what a refusal leaves alone |

Why the bounds are enough.

- Kernel: the hard cases need a third party. A parent and two children, an ended lease beside a new
  one, two bindings of one endpoint, a node that two machines serve in turn: each shape has exactly
  that many. Sessions and epochs are compared only by order.
- Agent: three calls put one answer in the inbox, one on the connection and one in the queue. Calls
  time out only with one binding and two calls, because with two bindings one timeout already breaks
  `HeldIsGranted` (`late_two`).
- Execution: two leases on a machine meet where one ends and the next starts. The second registration
  of a machine is its first recovery, the third interrupts one. A gang of two has a member that lags.
  A restarted controller keeps its epoch: nothing outside the simulator calls `advance_epoch`.
- Journal: four records allow a compaction, records after it, a crash during the next one and a record
  after that. The six first boots are three command-only logs, each with and without a snapshot of
  version 1.
- Services: four or five requests let a member fail, be replaced, and fail again at its cap. The clock
  reaches the last backoff that counts.
- Admission: a request for two CPUs beside requests for one, on a machine of two and a machine of one,
  blocks as head and is backfilled around. Two queued requests suffice for one to overtake.
- Registry: two fragments in one update conflict, or complete one another; two leases keep a vanished
  device's node in two states of teardown.

Symmetry is used only over leases, which no action orders, and only with invariants and action
properties. Binding identities are handed out in ascending order by the code, which `InShape` and
`InBounds` follow. The views leave out the effects, orders and answers of the last step, which no
action and no checked invariant reads; TLC evaluates action properties on every step it generates.

`CHECK_DEADLOCK FALSE` stands where a bounded system comes to rest: kernel identities and sessions,
registrations, requests and revisions run out. In `claims` a filter program ends.

### The finding

`late_two` checks `HeldIsGranted` with two bindings and one call that times out. TLC's trace: the
Prepare of binding 1 times out; its teardown is sent and reads the late Prepared; the Prepare of
binding 2 is sent and reads the Released of binding 1. `absorb` records that answer with the tag of
the waiting call, so the kernel closes binding 2, and the agent then prepares and holds it. The
comment at `node/src/service.rs:2148` says the kernel validates each acknowledgement against the
binding's session and fence; here both come from the controller's own tag. For executions `absorb`
does compare the lease the answer names. With one binding the shift does no harm (`agent`), and
without timeouts `RecordedReleaseIsReal` proves that no number of bindings is harmed.

### Other disagreements met while modelling

Each line names a property of the module and a setup of its MC module under which TLC violates it. No
configuration file is kept for them.

| what the code does | what is said | property, setup |
| --- | --- | --- |
| A fresh agent knows no containers, so stopping one that still runs succeeds and its claims are freed (`node/src/container.rs:249`, `agent.rs:213`). | "capacity reuse still implies the member is gone", `service.rs:2782-2784` | `ReusedMeansGone`, `Container` (`ContainerSetups`) |
| A process in no control group is forgotten before it is killed; a failed kill is not retried (`runtime.rs:305`). | the same | `ReusedMeansGone`, `Lone` |
| A failed probe of an earlier connection quarantines a machine that has registered again (`service.rs:2383`). | old workers' tags must not "mutate observations", `service.rs:2156-2157` | `UnhealthyIsDisconnected`, `Probed` |
| An endpoint that the agent has closed is enumerated without a binding and skipped, so the record of an ended lease stays open while the machine stays (`service.rs:2489`). | such an endpoint "has its claims freed by recording the close", `service.rs:2971-2972` | `TeardownFinishes`, `Idle` |
| An exit code is reported once, and the next poll overwrites it (`service.rs:2379`): a gang whose members exit between different polls never succeeds. | "zero exit codes complete the lease", `service.rs:1822-1823` | `SuccessCompletes`, `Exiting` |
| A replacement that is refused is forgotten with its member, and the next round submits it as growth (`service.rs:1669`). | "a permanently broken member cannot respawn unbounded", `service.rs:1502-1504` | `RespawnBounded`, `Respawning` |
| Scale-down stops members newest first, queued or leased (`service.rs:1632`). | "cancel the newest queued members first", `service.rs:1619-1620` | `QueuedStopFirst`, `Scaling` |
| `submit` answers with the newest lease, also when an older request was admitted (`control/src/server.rs:911`). | "the newest lease is its lease", `server.rs:912` | `AnswerNamesLease`, `Answers` |
| A machine that becomes unhealthy turns Completed leases into Failed, and keep-alive ones run again (`service.rs:1375`). | natural completion ends a member, `service.rs:1487-1488` | `CompletedStays`, `Completing` |
| Without topology the fallback search is skipped: two needs of one class may be refused though the machine hosts both (`kernel/src/select.rs:178`). | "no single machine hosts every need of this workload", `select.rs:208` | `RefusedMeansNoFit`, `Competing` |
| A data hint draws the greedy selector to a place where a later constraint fails (`select.rs:452`). | "the request is never refused for missing locality", `types.rs:389-391` | `LocalityNeverRefuses`, `Hinted` |
| A refused registration leaves a quarantine alone, and the end of the earlier agent's recovery lifts it (`service.rs:708`). | "Stop new placement", `service.rs:687-689` | `MismatchStopsPlacement`, parts of `MCRegistry` |
| `host_leaf_number` never matches a CPU leaf, so no member is pinned to CPUs (`service.rs:2900`). | "`numa/0/cpu/7` -> CPU 7", `service.rs:2925` | `CpusStayHome`, part `limits` |
| A cgroup that is left behind is used again, and limits of zero are not written (`cgroup.rs:73`). | "Zero means unlimited", `protocol.rs:92` | `ZeroMeansUnlimited`, part `limits` |
| A member without device claims gets no filter (`runtime.rs:221`): it opens every device, or those of the lease that left the cgroup behind (`cgroup.rs:42-44`). | "the lease may access exactly its claimed devices plus a fixed set of standard pseudo-devices", `device_filter.rs:2-4` | `ExactlyItsDevices`, part `limits` |

## 4. Fairness

- `Execution` (`recovery`): weak fairness of `Serve`, `CallFails`, `Absorb` and `MarkUnhealthy` of each
  machine and of `Poll`. A worker blocks only on its queue and its connection, the agent serves in a
  loop, and `serve` starts a thread that absorbs the inbox and polls at least every 500 ms. Nothing is
  assumed of registrations, lost connections, restarts or revocations, so both properties excuse a
  connection that ends.
- `Services` (`services`): the maintenance round runs whenever it would change something (`Due`, written
  out in place of ENABLED), the clock advances, teardown finishes, and machines join and come back.
  Failures and probes are not fair: nothing has to fail.
- `Admission` (`front`): an admission that is possible is made, time passes, and fences are acknowledged,
  oldest first. `FrontIsServed` is checked where one machine runs the requests. On two machines, while
  fences lag behind the ends of leases, the reservation of the head may move between them for ever; no
  document promises otherwise.

## 5. Proofs

The theorems hold for every value of the constants that satisfies the named assumptions:
`ConstantsAssumption` and `GraphsAssumption` (`Cluster`), `GenerationsAssumption` (`Provider`),
`FactsAssumption` (`Facts`), `InventoryAssumption`
(`Inventory`), `FilterAssumption` (`DeviceFilter`), `JournalAssumption` and `OldFilesAssumption` (`Journal`), and
`EnforcementConstants` (`Enforcement`), which the theorems take as hypothesis, since the module is
instantiated, and `MCAgent` assumes. TLC evaluates each of them on its instance.

**Types and shape** (`ClusterProofs`: `TypeCorrect`, `AuthorityShapeCorrect`). Proved together, since
an effect on a binding is typed only if the binding names a node, and that is part of the shape.

**Capacity** (`ClusterCapacityProofs`: `CapacitySafe`, `DelegationSafe`). Neither invariant is
inductive alone. When the last binding of an ended root closes, the root stops occupying and its
children become roots of their own. What they add to the graph's occupancy is at most what the root
claimed, by `ChildrenFitParent`. Conversely a child has no bindings, so when a cascade ends it, it
stops occupying at once and creates no root. Sums are cardinalities: disjoint unions and subsets do
the arithmetic.

**Fences and lifecycle** (`ClusterProofs`). `EndpointsExclusive`, `FencesOrdered` and
`EndingIsFinal`: `OpenHasNewestFence` is strengthened so that every exclusive binding ever issued,
closed ones included, is covered by the watermark of its endpoint (`FencesCovered`) and the next fence
is above them all. `RetirementIsIdle`, `OpenBindingsKeepMachine`, `TeardownIsRequested` and
`ActivationIsPrepared`: what operators, discovery and the ends of leases may not do to open bindings.

**Refinement** (`ClusterGrantsProofs`: `KernelImplementsGrants`). The strengthening is
`ActivePrepared`: an Active lease has no binding that is Preparing or Active and unprepared, so
`ActivateBinding`, whose guard reads only the lease, is a step of `ActivateGrant`, whose guard reads
the confirmation. Each kernel action maps to one action of `Grants` or to a stutter. An accepted
acknowledgement of a binding that is closed already maps to a step that gives no order.

**Replay** (`ClusterGrantsProofs`: `ReplayAccepts`). The property that `TimedReplayAgrees` checks on the
shape `timed`, for every instance and every snapshot. A replayed command reads the same leases,
bindings and graph, so each helper has the same value (`SameQueries`, `SameRoom`); the guards that read
the clock are the only ones that could differ, and `Replaying` switches them off. An invariant keeps
both clocks within their bound. `ClusterReplay` is instantiated where its proof begins, so that the
earlier proofs do not carry a second kernel.

**Provider** (`ProviderProofs`: `ProviderTypeCorrect`, `EndpointsSound`, `AnswersTrue`,
`PassedForGood`, `OthersAreKept`). The four invariants are inductive together. A Prepared answer is
true because the endpoint then holds the generation. A Released or Fenced one is true because a close
below the accepted fence finds a newer generation, and one at or above it closes. Uniqueness of
generations turns "same endpoint and fence" into "same binding".

**Enforcement** (`EnforcementProofs`). Two invariants, over the controller, the worker, the connection,
the inbox and the agent.

- `Sound` holds of every behaviour: the types, the endpoints that were granted, and that only granted
  and confirmed bindings reach the agent in an Activate. It gives `ActivationFollowsPrepare`, with any
  timeouts.
- `Linked` holds as long as no call has timed out. Its core is `Paired`: the frame on the connection
  answers the call that waits for it. Then every answer in the inbox is true of the agent that is
  connected (`InboxTrue`), a binding that was closed has been passed by its endpoint, so that a Prepare
  or Activate of it that is still queued comes too late (`ClosedIsPassed`), and what is held is granted. It gives `RecordedReleaseIsReal` and
  `ConfirmationIsReal`.

The hypothesis `[](timeouts = 0)` of these two theorems is necessary: `late_two` is the counterexample.
The agent's steps are covered by lemmas about what a request makes of its endpoint (`Served`), which
come from the operators of `Provider`, and not from its specification: `Enforcement` issues requests
that `Provider` alone would not.

**Facts** (`RegistryProofs`: `FactsTypeCorrect`, `GroundedAlways`, `WritersAreFinal`, `OwnersAlone`,
`OwnershipIsKept`, `RevisionIsExact`). `FactsTypeOK` and `Grounded` are inductive together; the action
properties follow from the guards and the types.

**Inventory** (`RegistryProofs`: `VanishedUnheld`, `DevicesStayKept`). The properties speak of a
registration that is over, the invariant `InventoryInv` of every commit on the way. `GraphSound`: a device
id has one node. `Progress`: until the devices are written nothing of them has changed, their contracts
stay agreed until they are written, and the devices a report omits are withdrawn before their leases are
failed. `AgentSound`: what the registered agent omitted stays withdrawn and unheld until a registration
replaces its report. A crash drops the agent with the job, so the next registration starts over from any
of these states.

**Device filter** (`FilterProofs`: `FilterIsExact`). For any claims, pseudo-devices and device numbers.
`FilterInv` says which paths the attached program was compiled from, also when it was left behind
(`Filters`), and where control may be and what the registers hold there (`Position`): in the block of
rule i no earlier rule matches and every test already passed holds. Each instruction of a block takes
one position to another. That the rules together grant what the claims say is a lemma about counting
the paths kept (`RulesCover`, `RulesGrant`). With at most `MaxRules` rules no 16-bit offset wraps.

**Journal** (`JournalProofs`: `JournalTypeCorrect`, `ActedCommandsSurvive`, `ControllerBootsAgain`,
`RequestsAdmittedOnce`, `LeasesFresh`). None of the properties speaks of the files of a controller that
is down, so the invariant `JournalInv` has to. It says that there is a history, one sequence of
committed commands per line of the log, and a history of states beside it.

- `Recoverable`: both snapshot files, the one a crash may leave included, hold a point of that history,
  and the log carries on from there. What was acted on is a prefix of its end.
- `InMemory`: during a boot and after it, memory holds the point of the history that the lines read so
  far reach.
- `Carries`: every state of the history is consistent with its commands. Each queued request has no
  lease, each other one exactly one, the allocators are above everything in use, and no acknowledged
  request is missing. The exception is a lease opened after a version-1 snapshot, which `Boot` refuses
  (`Unreadable`).

Admissions are made of two records, the lease and the queue without the request, so consistency has to
hold between them, too. Old files are those of a controller that ran (`OldFilesAssumption`).

Only model-checked, and why:

- `RecoveryCompletes`, `TeardownCloses`, `UpkeepRestores` and `FrontIsServed` are liveness.
- The properties of `Execution`, `Services`, `Admission` and `Pinning` rest on what folds over queues,
  members and claims compute, and those of `Selection` on the recursive search of `Placement`. That
  needs induction over data, which the prover cannot instantiate.

## 6. Not modelled

- Bytes, encryption, framing, parsing and formatting; the connection is a FIFO that may end.
- System calls, reading sysfs (`discover.rs`), the kernel's program loader and verifier. A claim whose
  filter would have more than 3277 rules, beyond the reach of a 16-bit jump, is excluded by assumption.
- In the kernel, `validate_allocation_bindings` (`cluster.rs:2045-2075`), a check of a whole
  allocation that no transition needs; containment is a constant forest of each graph.
- In `server.rs`: the accept loop (389-475), the log stream (480-517), the lock (522-532),
  `register_dial_in` (534-554), the dispatch of requests (567-651), `compile_workload` (711-821) and
  `status` (922-941). They read state, or turn bytes into calls that are modelled.
- Timeouts of calls other than those about bindings, whose loss is that of their connection; a second
  agent process for a machine whose first connection is still up.
- Effects with several bindings reach `Enforcement` as single ones, and the fences that a recovery
  adopts reach `Cluster` and `Execution` but not `Enforcement`. In `Journal` the kernel accepts on
  replay what it accepted before; that it does is `ReplayAccepts`.
- The command line and the simulator, a test harness.
