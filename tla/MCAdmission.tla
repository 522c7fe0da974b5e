----------------------------- MODULE MCAdmission -----------------------------
(***************************************************************************)
(* Setups of Admission for TLC: two machines (1, 4) with two CPUs and one. *)
(***************************************************************************)
EXTENDS Admission, TLC

CONSTANTS alice, bob

Machinery(kinds, parents) ==
    [kind |-> kinds, parent |-> parents,
     capacity |-> [n \in DOMAIN kinds |-> Qty("count", IF kinds[n] = "cpu" THEN 1 ELSE 0)],
     provider |-> [n \in DOMAIN kinds |-> [d \in {"count", "bytes"} |->
                      IF kinds[n] = "cpu" /\ d = "count" THEN "enforce" ELSE "none"]],
     attrs |-> [n \in DOMAIN kinds |-> {}], degraded |-> {}, cached |-> {}, connected |-> {}]

TwoMachines == Machinery(<<"machine", "cpu", "cpu", "machine", "cpu">>, <<0, 1, 1, 0, 4>>)

Job(cpus, lifetime, priority) ==
    [needs |-> <<[kind |-> "cpu", quantity |-> Qty("count", cpus), filters |-> {}]>>,
     topology |-> <<>>, preferences |-> <<>>, data |-> {}, local |-> TRUE,
     lifetime |-> lifetime, priority |-> priority, runs |-> "process", pin |-> 0]
Pinned(job, m) == [job EXCEPT !.pin = m]
Container(job) == [job EXCEPT !.runs = "container"]

All == {"available", "cpu_limit", "memory_limit", "device_isolation"}

Plain == [requests |-> {Job(1, 1, 1), Job(1, 2, 1), Job(2, 1, 1)}, owners |-> {alice},
          ceiling |-> [kind \in {} |-> Nothing], fair_share |-> FALSE,
          weights |-> (alice :> 2 @@ bob :> 1),
          capabilities |-> [m \in MachineNodes |-> [process |-> All, container |-> All]],
          blockable |-> {}, delegates |-> FALSE, renews |-> FALSE, preempts |-> FALSE,
          max_queue |-> 2]

\* Only the first machine runs processes; there leases may also be renewed.
Single == [Plain EXCEPT !.capabilities[4].process = {}]
Renewing == [Single EXCEPT !.renews = TRUE]

\* Owners of different weight, who may hold two CPUs.
Shared == [Plain EXCEPT !.requests = {Job(1, 1, 1), Job(2, 1, 1)}, !.owners = {alice, bob},
                        !.ceiling = [kind \in {"cpu"} |-> Qty("count", 2)],
                        !.fair_share = TRUE]

\* A container that no machine can run, a pinned request, and a machine
\* that leaves and returns.
Excluding == [Plain EXCEPT
    !.requests = {Job(1, 1, 1), Container(Job(2, 1, 2)), Pinned(Job(1, 1, 1), 4)},
    !.capabilities[1].container = All \ {"cpu_limit"},
    !.capabilities[4].container = {},
    !.blockable = {1}]

Ranked == [Plain EXCEPT !.requests = {Job(1, 1, 1), Job(2, 1, 2)}, !.delegates = TRUE,
                        !.preempts = TRUE, !.max_queue = 1]

SingleMachine == {Single}
AllSetups == {Plain, Renewing, Shared, Excluding, Ranked}
=============================================================================
