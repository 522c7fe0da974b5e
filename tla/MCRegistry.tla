------------------------------ MODULE MCRegistry ------------------------------
(***************************************************************************)
(* Facts and Inventory for TLC.  A behaviour is either one of the graph's  *)
(* facts or one of a machine's registrations, as part says.                *)
(*                                                                         *)
(* Facts: three nodes, a host writer and a device writer.  An unowned      *)
(* update or a fragment names one node, or two nodes and the edge between  *)
(* them.  Inventory: two device ids on a machine with two NUMA nodes.  The *)
(* reports of "absences" omit devices, with two leases; those of "changes" *)
(* also add, move, replace and refresh devices, or change the host, with   *)
(* one lease.                                                              *)
(***************************************************************************)
EXTENDS Facts, Inventory

CONSTANTS
    a, b, d, hostWriter, deviceWriter, enforce, degraded,
    g, h, numa, numb, hostA, hostB

VARIABLE part

-----------------------------------------------------------------------------
(* What the writers say.                                                   *)

Contains(x, y) == [from |-> x, to |-> y, kind |-> "contains"]
Linked(x, y) == [from |-> x, to |-> y, kind |-> "connected"]

One(n, v) == [m \in {n} |-> v]
Nothing == [m \in {} |-> None]

\* An even value has capacity; the host writes 1 and 2, the device 3 and 4.
AllValues == 0 .. 4
Capacities == {2, 4}

Unowned == {[nodes |-> One(n, 0), edges |-> {}] : n \in {a, b}}
           \cup {[nodes |-> One(b, 2), edges |-> {Contains(a, b)}],
                 [nodes |-> Nothing, edges |-> {Contains(b, a)}]}

Fragments ==
    {[writer |-> hostWriter, nodes |-> f, edges |-> {}] : f \in {One(a, 1), One(b, 1), One(b, 2)}}
    \cup {[writer |-> deviceWriter, nodes |-> One(d, 4), edges |-> {Contains(b, d)}],
          [writer |-> deviceWriter, nodes |-> One(d, 3), edges |-> {}],
          [writer |-> deviceWriter, nodes |-> One(b, 4), edges |-> {}],
          [writer |-> hostWriter, nodes |-> Nothing, edges |-> {Contains(d, b), Linked(a, d)}]}

ContractChanges == {Nothing, One(b, enforce), One(b, None), One(d, enforce)}

Adoptions == {[writer |-> hostWriter, nodes |-> {a, b}, edges |-> {Contains(a, b)}],
              [writer |-> hostWriter, nodes |-> {a}, edges |-> {}],
              [writer |-> deviceWriter, nodes |-> {b}, edges |-> {}]}

-----------------------------------------------------------------------------
(* What the agent reports.                                                 *)

Device(id, kind, parent, path) == [id |-> id, kind |-> kind, parent |-> parent, path |-> path]
Report(devices) == [host |-> hostA, devices |-> devices]

Plain == Device(g, "gpu", Unset, 1)
Placed == Device(h, "nic", numa, 1)

Absences == {Report(<<Plain, Placed>>), Report(<<Plain>>), Report(<<>>)}

Alterations == {Report(<<Placed>>), Report(<<Device(g, "gpu", Unset, 2), Placed>>),
                Report(<<Device(g, "nic", Unset, 1)>>),
                Report(<<Device(h, "nic", numb, 1)>>),
                Report(<<Device(h, "nic", Unset, 1), Plain>>),
                [host |-> hostB, devices |-> <<Plain>>]}

\* Graphs without a machine, and with one from before ownership was kept.
Blank == [n \in 1 .. MaxNodes |-> Unset]
Unwritten == [n \in 0 .. MaxNodes |-> Unset]
OldDevices == [Blank EXCEPT ![1] = [id |-> g, kind |-> "gpu", at |-> 0, parent |-> Unset, path |-> 1]]

NewCluster == [host |-> Unset, node |-> Blank, writer |-> Unwritten, contract |-> Unwritten]
OldGraph == [host |-> hostA, node |-> OldDevices, writer |-> Unwritten, contract |-> Unwritten]

Snapshots == {NewCluster, OldGraph,
              [OldGraph EXCEPT !.writer[1] = Other],
              [OldGraph EXCEPT !.contract[0] = Other],
              [OldGraph EXCEPT !.contract[1] = Other]}

Inventories == Absences \cup Alterations

-----------------------------------------------------------------------------

\* What "absences" reports, and what "changes" leaves out.  Leases are
\* reserved in the order of their ids.
InPart ==
    CASE part = "facts"    -> host = Unset
      [] part = "absences" -> /\ ~Idle => job.report \in Absences
                              /\ claims[1] = {} => claims[2] = {}
      [] part = "changes"  -> claims[2] = {} /\ Cardinality(claims[1]) <= 1

RegistryInit ==
    /\ part \in {"facts", "absences", "changes"}
    /\ Init /\ InventoryInit /\ InPart

RegistryNext ==
    /\ UNCHANGED part
    /\ \/ part = "facts" /\ Next /\ UNCHANGED inventory_vars
       \/ part # "facts" /\ InventoryNext /\ InPart' /\ UNCHANGED vars

RegistrySpec == RegistryInit /\ [][RegistryNext]_<<vars, inventory_vars, part>>
===============================================================================
