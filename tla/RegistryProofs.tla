--------------------------- MODULE RegistryProofs ---------------------------
(***************************************************************************)
(* What the controller keeps of its machines, for any nodes, writers,      *)
(* devices, reports and leases: Inventory first, then Facts.               *)
(*                                                                         *)
(* A registration is a sequence of commits, any of which may be the last   *)
(* one before a crash.  InventoryInv says what holds after each of them.   *)
(*                                                                         *)
(* Fact ownership holds for every graph and every number of fragments in   *)
(* an update.  FactsTypeOK and Grounded are inductive together; the action *)
(* properties follow from the guards and the types.                        *)
(***************************************************************************)
EXTENDS Facts, Inventory, FiniteSetTheorems, TLAPS

-----------------------------------------------------------------------------
(* The inductive invariant of Inventory.                                   *)

NodeStates == {"Joining", "Schedulable", "Unavailable", "Quarantined", "Retired"}
Steps == {"writers", "facts", "vanish", "fail", "return", "contracts", "marks", "session"}

InventoryTypeOK ==
    /\ host \in Hosts \cup {Unset} /\ node \in [Devices -> DeviceNodes \cup {Unset}]
    /\ writer \in Marked /\ contracts \in Marked
    /\ state \in [All -> NodeStates]
    /\ claims \in [Leases -> SUBSET Devices] /\ live \subseteq Leases
    /\ agent \in Reports \cup {Unset}
    /\ job = [report |-> job.report, step |-> job.step, before |-> job.before]
    /\ \/ Idle
       \/ job.step \in Steps /\ job.report \in Reports /\ last = "pending" /\ host # Unset

\* A device id has one node; devices and contracts are on a machine.
GraphSound ==
    /\ \A n, m \in KnownDevices : n # m => node[n].id # node[m].id
    /\ host = Unset => KnownDevices = {}
    /\ \A n \in Devices : node[n] = Unset => contracts[n] = Unset

\* The devices that r omits take no claims, and no live lease holds them.
Withdrawn(r) == \A n \in Vanished(r) : state[n] \notin {"Schedulable", "Joining"}
Unheld(r) == \A n \in Vanished(r) : \A l \in live : n \notin claims[l]

\* How far the registration under way has come: until its devices are
\* written it has touched none, its contracts stay agreed until they are
\* written, and the devices it omits are withdrawn before their leases fail.
Progress ==
    /\ At("writers") \/ At("facts") => DeviceSide = job.before
    /\ job.step \in Steps \ {"marks", "session"} => ContractsAgree(job.report)
    /\ job.step \in {"fail", "return", "contracts", "marks", "session"} => Withdrawn(job.report)
    /\ job.step \in {"return", "contracts", "marks", "session"} => Unheld(job.report)

\* The registered agent, as long as a registration has not replaced what it
\* reported.
AgentSound ==
    agent # Unset /\ (Idle \/ At("writers") \/ At("facts")) => Withdrawn(agent) /\ Unheld(agent)

InventoryInv == InventoryTypeOK /\ GraphSound /\ Progress /\ AgentSound

-----------------------------------------------------------------------------
(* What a report says, and the nodes its devices get.                      *)

\* A set of naturals that is not empty has a least element.
LEMMA LeastExists ==
    ASSUME NEW S \in SUBSET Nat, S # {}
    PROVE  \E x \in S : \A y \in S : x =< y
<1> DEFINE Less == {p \in Nat \X Nat : p[1] < p[2]}
<1>1. IsWellFoundedOn(Less, Nat)
    BY NatLessThanWellFounded, Zenon DEF OpToRel
<1> HIDE DEF Less
<1>2. \E x \in S : \A y \in S : ~ (<<y, x>> \in Less)
    BY <1>1, WFMin, Zenon
<1>3. PICK x \in S : \A y \in S : ~ (<<y, x>> \in Less)
    BY <1>2
<1>4. ASSUME NEW y \in S PROVE x =< y
  <2>1. x \in Nat /\ y \in Nat
    OBVIOUS
  <2>2. ~ (<<y, x>> \in Less)
    BY <1>3
  <2> QED
    BY <2>1, <2>2 DEF Less
<1> QED
    BY <1>4

\* What Lowest chooses.
LEMMA LowestInSet ==
    ASSUME NEW S \in SUBSET Nat, S # {}
    PROVE  Lowest(S) \in S
BY LeastExists, Zenon DEF Lowest

\* A set of naturals with a bound has a greatest element.
LEMMA HighestOfSet ==
    ASSUME NEW B \in Nat, NEW S \in SUBSET (0 .. B), S # {}
    PROVE  Highest(S) \in S /\ \A y \in S : y =< Highest(S)
<1> DEFINE T == {b \in Nat : \A y \in S : y =< b}
<1>1. B \in T /\ T \in SUBSET Nat
    OBVIOUS
<1>3. \E x \in T : \A y \in T : x =< y
    BY <1>1, LeastExists, Zenon
<1>4. PICK x \in T : \A y \in T : x =< y
    BY <1>3
<1>5. x \in S
  <2> SUFFICES ASSUME x \notin S PROVE FALSE
    OBVIOUS
  <2>1. \A y \in S : y < x
    BY <1>1, <1>4
  <2>2. x - 1 \in Nat
    <3>1. PICK y \in S : TRUE
      BY Zenon
    <3>2. y \in Nat /\ x \in Nat /\ y < x
      BY <1>1, <2>1
    <3> QED
      BY <3>2
  <2>3. \A y \in S : y =< x - 1
    BY <1>1, <2>1
  <2> QED
    BY <2>2, <2>3, <1>1, <1>4
<1>6. \E z \in S : \A y \in S : y =< z
    BY <1>5, <1>4, <1>1
<1> QED
    BY <1>6, Zenon DEF Highest

\* The device of the report with a given id.
LEMMA SpecOfReport ==
    ASSUME NEW r \in Reports, NEW id \in IdsIn(r)
    PROVE  SpecOf(r, id) \in DeviceSpecs /\ SpecOf(r, id).id = id
<1>1. r \in [host : Hosts, devices : Seq(DeviceSpecs)]
    BY InventoryAssumption
<1>2. \A i \in DOMAIN r.devices : r.devices[i] \in DeviceSpecs
    BY <1>1
<1>3. PICK i \in DOMAIN r.devices : r.devices[i].id = id
    BY DEF IdsIn
<1> DEFINE told == {r.devices[k] : k \in DOMAIN r.devices}
<1>4. r.devices[i] \in told /\ \A s \in told : s \in DeviceSpecs
    BY <1>2
<1> HIDE DEF told
<1>5. \E s \in told : s.id = id
    BY <1>3, <1>4
<1>6. (CHOOSE s \in told : s.id = id) \in told /\ (CHOOSE s \in told : s.id = id).id = id
    BY <1>5
<1>7. SpecOf(r, id) = CHOOSE s \in told : s.id = id
    BY DEF SpecOf, told
<1> QED
    BY <1>4, <1>6, <1>7

\* A fresh node is above every known one, and is for a device of the report
\* that no known node stands for; two fresh nodes are for two devices.
LEMMA FreshNodes ==
    ASSUME NEW r \in Reports, node \in [Devices -> DeviceNodes \cup {Unset}]
    PROVE  /\ \A n \in DOMAIN Fresh(r) :
                  /\ n \in Nat \ {0} /\ n \notin KnownDevices
                  /\ Fresh(r)[n] \in DeviceSpecs /\ Fresh(r)[n].id \in IdsIn(r)
                  /\ \A m \in Existing(r) : Fresh(r)[n].id # node[m].id
           /\ \A n, m \in DOMAIN Fresh(r) : n # m => Fresh(r)[n].id # Fresh(r)[m].id
<1> DEFINE base == Highest({0} \cup KnownDevices)
           new == {i \in DOMAIN r.devices : r.devices[i].id \notin {node[n].id : n \in Existing(r)}}
           upto(i) == {k \in new : k <= i}
           number(i) == base + Cardinality(upto(i))
           at(n) == CHOOSE i \in new : number(i) = n
<1>1. r \in [host : Hosts, devices : Seq(DeviceSpecs)]
    BY InventoryAssumption
<1>2. base \in Nat /\ \A n \in KnownDevices : n =< base
  <2>1. MaxNodes \in Nat /\ {0} \cup KnownDevices \in SUBSET (0 .. MaxNodes)
    BY InventoryAssumption DEF KnownDevices, Devices
  <2>2. base \in {0} \cup KnownDevices /\ \A n \in {0} \cup KnownDevices : n =< base
    BY <2>1, HighestOfSet, Zenon
  <2> QED
    BY <2>1, <2>2
<1>3. ASSUME NEW i \in new PROVE Cardinality(upto(i)) \in Nat \ {0}
  <2>1. DOMAIN r.devices = 1 .. Len(r.devices) /\ Len(r.devices) \in Nat
    BY <1>1
  <2>2. IsFiniteSet(1 .. Len(r.devices))
    <3>1. 1 \in Int /\ Len(r.devices) \in Int
      BY <2>1
    <3> QED
      BY <3>1, FS_Interval, Zenon
  <2>3. IsFiniteSet(upto(i))
    <3>1. upto(i) \subseteq 1 .. Len(r.devices)
      BY <2>1
    <3> QED
      BY <2>2, <3>1, FS_Subset, Zenon
  <2>4. i \in upto(i)
    BY <2>1
  <2> QED
    BY <2>3, <2>4, FS_CardinalityType, FS_EmptySet
<1>4. Fresh(r) = [n \in {number(i) : i \in new} |-> r.devices[at(n)]]
    BY DEF Fresh
<1> HIDE DEF base, upto
<1>5. ASSUME NEW n \in DOMAIN Fresh(r)
      PROVE  at(n) \in new /\ number(at(n)) = n /\ Fresh(r)[n] = r.devices[at(n)]
    BY <1>4, Zenon
<1> HIDE DEF at
<1>6. ASSUME NEW n \in DOMAIN Fresh(r)
      PROVE  /\ n \in Nat \ {0} /\ n \notin KnownDevices
             /\ Fresh(r)[n] \in DeviceSpecs /\ Fresh(r)[n].id \in IdsIn(r)
             /\ \A m \in Existing(r) : Fresh(r)[n].id # node[m].id
  <2>1. at(n) \in new /\ number(at(n)) = n /\ Fresh(r)[n] = r.devices[at(n)]
    BY <1>5
  <2>2. n \in Nat /\ n > base
    BY <2>1, <1>2, <1>3
  <2>3. n # 0 /\ n \notin KnownDevices
    BY <2>2, <1>2 DEF KnownDevices, Devices
  <2>4. at(n) \in DOMAIN r.devices /\ \A m \in Existing(r) : r.devices[at(n)].id # node[m].id
    BY <2>1
  <2>5. r.devices[at(n)] \in DeviceSpecs /\ r.devices[at(n)].id \in IdsIn(r)
    BY <2>4, <1>1 DEF IdsIn
  <2> QED
    BY <2>1, <2>2, <2>3, <2>4, <2>5
<1>7. ASSUME NEW n \in DOMAIN Fresh(r), NEW m \in DOMAIN Fresh(r), n # m
      PROVE  Fresh(r)[n].id # Fresh(r)[m].id
  <2>1. at(n) # at(m) /\ at(n) \in DOMAIN r.devices /\ at(m) \in DOMAIN r.devices
    BY <1>5, <1>7
  <2>2. r.devices[at(n)].id # r.devices[at(m)].id
    BY <2>1, InventoryAssumption
  <2> QED
    BY <2>2, <1>5
<1> QED
    BY <1>6, <1>7

\* The graph after the report's devices are written: known nodes keep their
\* device and container, and a new node is for a device nobody stands for.
LEMMA DevicesWritten ==
    ASSUME NEW r \in Reports, InventoryTypeOK, GraphSound, DOMAIN Fresh(r) \subseteq Devices
    PROVE  /\ DevicesWith(r) \in [Devices -> DeviceNodes \cup {Unset}]
           /\ \A n \in KnownDevices :
                  /\ DevicesWith(r)[n] # Unset /\ DevicesWith(r)[n].id = node[n].id
                  /\ DevicesWith(r)[n].at = node[n].at
                  /\ n \in Existing(r) => DevicesWith(r)[n].kind = SpecOf(r, node[n].id).kind
                  /\ n \notin Existing(r) => DevicesWith(r)[n] = node[n]
           /\ \A n \in DOMAIN Fresh(r) :
                  /\ n \notin KnownDevices /\ DevicesWith(r)[n] # Unset
                  /\ DevicesWith(r)[n].id \in IdsIn(r)
           /\ \A n \in Devices : DevicesWith(r)[n] # Unset
                  => n \in KnownDevices \/ n \in DOMAIN Fresh(r)
           /\ \A n, m \in Devices :
                  n # m /\ DevicesWith(r)[n] # Unset /\ DevicesWith(r)[m] # Unset
                  => DevicesWith(r)[n].id # DevicesWith(r)[m].id
<1> DEFINE F == Fresh(r)
           D == DevicesWith(r)
           site(n) == IF F[n].parent = Unset THEN 0 ELSE F[n].parent
<1>1. node \in [Devices -> DeviceNodes \cup {Unset}] /\ Unset \notin DeviceNodes
    BY InventoryAssumption DEF InventoryTypeOK
<1>2. /\ \A n \in DOMAIN F :
              /\ n \in Nat \ {0} /\ n \notin KnownDevices
              /\ F[n] \in DeviceSpecs /\ F[n].id \in IdsIn(r)
              /\ \A m \in Existing(r) : F[n].id # node[m].id
      /\ \A n, m \in DOMAIN F : n # m => F[n].id # F[m].id
    BY <1>1, FreshNodes
<1>3. DOMAIN F \subseteq Devices
    OBVIOUS
<1>4. D = [n \in Devices |->
              CASE n \in Existing(r) -> FactsOf(SpecOf(r, node[n].id), node[n].at)
                [] n \in DOMAIN F -> FactsOf(F[n], site(n))
                [] OTHER -> node[n]]
    BY DEF DevicesWith
<1> HIDE DEF F, D
<1>5. ASSUME NEW n \in Existing(r)
      PROVE  /\ n \in KnownDevices /\ D[n] = FactsOf(SpecOf(r, node[n].id), node[n].at)
             /\ D[n] \in DeviceNodes /\ D[n].id = node[n].id /\ D[n].at = node[n].at
             /\ D[n].kind = SpecOf(r, node[n].id).kind
  <2>1. n \in Devices /\ n \in KnownDevices /\ node[n] \in DeviceNodes /\ node[n].id \in IdsIn(r)
    BY <1>1 DEF Existing, KnownDevices
  <2>2. n \notin DOMAIN F
    BY <2>1, <1>2
  <2>3. D[n] = FactsOf(SpecOf(r, node[n].id), node[n].at)
    BY <2>1, <2>2, <1>4
  <2>4. SpecOf(r, node[n].id) \in DeviceSpecs /\ SpecOf(r, node[n].id).id = node[n].id
    BY <2>1, SpecOfReport
  <2>5. node[n].at \in Sites \cup {0}
    BY <2>1 DEF DeviceNodes
  <2>6. D[n] \in DeviceNodes
    BY <2>3, <2>4, <2>5 DEF FactsOf, DeviceSpecs, DeviceNodes
  <2>7. D[n].id = node[n].id /\ D[n].at = node[n].at /\ D[n].kind = SpecOf(r, node[n].id).kind
    BY <2>3, <2>4 DEF FactsOf
  <2> QED
    BY <2>1, <2>3, <2>6, <2>7
<1>6. ASSUME NEW n \in DOMAIN F
      PROVE  D[n] \in DeviceNodes /\ D[n].id = F[n].id
  <2>1. n \in Devices /\ n \notin Existing(r)
    BY <1>2, <1>3 DEF Existing
  <2>2. D[n] = FactsOf(F[n], site(n))
    BY <2>1, <1>4
  <2>3. F[n] \in DeviceSpecs /\ site(n) \in Sites \cup {0}
    BY <1>2 DEF DeviceSpecs
  <2>4. D[n] \in DeviceNodes
    BY <2>2, <2>3 DEF FactsOf, DeviceSpecs, DeviceNodes
  <2>5. D[n].id = F[n].id
    BY <2>2 DEF FactsOf
  <2> QED
    BY <2>4, <2>5
<1>7. ASSUME NEW n \in Devices, n \notin Existing(r), n \notin DOMAIN F
      PROVE  D[n] = node[n]
    BY <1>4, <1>7
<1>8. D \in [Devices -> DeviceNodes \cup {Unset}]
  <2>1. D = [n \in Devices |-> D[n]]
    BY <1>4
  <2>2. \A n \in Devices : D[n] \in DeviceNodes \cup {Unset}
    BY <1>1, <1>5, <1>6, <1>7
  <2> QED
    BY <2>1, <2>2
<1>9. ASSUME NEW n \in KnownDevices
      PROVE  /\ D[n] # Unset /\ D[n].id = node[n].id /\ D[n].at = node[n].at
             /\ n \in Existing(r) => D[n].kind = SpecOf(r, node[n].id).kind
             /\ n \notin Existing(r) => D[n] = node[n]
  <2>1. CASE n \in Existing(r)
    BY <2>1, <1>5, <1>1
  <2>2. CASE n \notin Existing(r)
    BY <2>2, <1>7, <1>2 DEF KnownDevices
  <2> QED
    BY <2>1, <2>2
<1>10. \A n \in DOMAIN F : n \notin KnownDevices /\ D[n] # Unset /\ D[n].id \in IdsIn(r)
    BY <1>1, <1>2, <1>6
<1>11. ASSUME NEW n \in Devices, D[n] # Unset
       PROVE  n \in KnownDevices \/ n \in DOMAIN F
    BY <1>5, <1>7, <1>11 DEF KnownDevices
<1>12. ASSUME NEW n \in DOMAIN F, NEW m \in KnownDevices
       PROVE  D[n].id # node[m].id
  <2>1. CASE m \in Existing(r)
    BY <2>1, <1>2, <1>6
  <2>2. CASE m \notin Existing(r)
    BY <2>2, <1>10 DEF Existing
  <2> QED
    BY <2>1, <2>2
<1>13. ASSUME NEW n \in Devices, NEW m \in Devices, n # m, D[n] # Unset, D[m] # Unset
       PROVE  D[n].id # D[m].id
  <2>1. (n \in KnownDevices \/ n \in DOMAIN F) /\ (m \in KnownDevices \/ m \in DOMAIN F)
    BY <1>11, <1>13
  <2>2. CASE n \in KnownDevices /\ m \in KnownDevices
    BY <2>2, <1>9, <1>13 DEF GraphSound
  <2>3. CASE n \in DOMAIN F /\ m \in DOMAIN F
    BY <2>3, <1>2, <1>6, <1>13
  <2> QED
    BY <2>1, <2>2, <2>3, <1>9, <1>12
<1> QED
    BY <1>8, <1>9, <1>10, <1>11, <1>13 DEF F, D

-----------------------------------------------------------------------------
(* The steps between registrations.                                        *)

\* Steps that write no node keep every device.
LEMMA NodesFixed ==
    ASSUME GraphSound, UNCHANGED node
    PROVE  /\ NodeKept /\ KnownDevices' = KnownDevices
           /\ \A n, m \in KnownDevices' : n # m => node'[n].id # node'[m].id
BY DEF GraphSound, NodeKept, KnownDevices

\* Between registrations: a step that makes no withdrawn device available
\* and gives it to no lease.
LEMMA IdleStep ==
    ASSUME InventoryInv, Idle, UNCHANGED <<host, node, writer, contracts, agent, last, job>>,
           state' \in [All -> NodeStates], claims' \in [Leases -> SUBSET Devices],
           live' \subseteq Leases,
           \A n \in KnownDevices : state[n] \notin {"Schedulable", "Joining"} =>
               /\ state'[n] \notin {"Schedulable", "Joining"}
               /\ \A l \in live' : n \in claims'[l] => l \in live /\ n \in claims[l]
    PROVE  InventoryInv' /\ DevicesKept
<1> USE DEF InventoryInv
<1>1. InventoryTypeOK'
    BY DEF InventoryTypeOK, Idle
<1>2. GraphSound'
    BY NodesFixed DEF GraphSound
<1>3. Progress'
    BY DEF Progress, At, Idle, Steps
<1>4. AgentSound'
  <2> SUFFICES ASSUME agent # Unset PROVE Withdrawn(agent)' /\ Unheld(agent)'
    BY DEF AgentSound
  <2>1. Withdrawn(agent) /\ Unheld(agent)
    BY DEF AgentSound
  <2>2. Vanished(agent)' = Vanished(agent) /\ Vanished(agent) \subseteq KnownDevices
    BY DEF Vanished, KnownDevices
  <2> QED
    BY <2>1, <2>2 DEF Withdrawn, Unheld
<1>5. DevicesKept
    BY NodesFixed DEF DevicesKept, RefusedKept, OmittedKept
<1> QED
    BY <1>1, <1>2, <1>3, <1>4, <1>5

\* The leases: a withdrawn device is reserved by none.
LEMMA LeaseSteps ==
    ASSUME InventoryInv,
           \/ \E l \in Leases, c \in SUBSET KnownDevices : Reserve(l, c)
           \/ \E l \in Leases : Bind(l) \/ End(l)
           \/ \E l \in Leases, n \in Devices : Close(l, n)
    PROVE  InventoryInv' /\ DevicesKept
<1>0. InventoryTypeOK
    BY DEF InventoryInv
<1>1. ASSUME NEW l \in Leases, NEW c \in SUBSET KnownDevices, Reserve(l, c)
      PROVE  InventoryInv' /\ DevicesKept
  <2>1. claims' \in [Leases -> SUBSET Devices] /\ live' \subseteq Leases
    BY <1>0, <1>1 DEF InventoryTypeOK, Reserve, KnownDevices
  <2>2. \A n \in KnownDevices : state[n] \notin {"Schedulable", "Joining"} => n \notin c
    BY <1>1 DEF Reserve, Blocked
  <2>3. \A n \in KnownDevices : state[n] \notin {"Schedulable", "Joining"} =>
            \A k \in live' : n \in claims'[k] => k \in live /\ n \in claims[k]
    BY <1>0, <1>1, <2>2 DEF InventoryTypeOK, Reserve
  <2> QED
    BY <1>0, <1>1, <2>1, <2>3, IdleStep DEF Reserve, memory, InventoryTypeOK
<1>2. ASSUME NEW l \in Leases, Bind(l) PROVE InventoryInv' /\ DevicesKept
    BY <1>0, <1>2, IdleStep DEF Bind, memory, InventoryTypeOK
<1>3. ASSUME NEW l \in Leases, End(l) PROVE InventoryInv' /\ DevicesKept
  <2>1. live' \subseteq live
    BY <1>3 DEF End
  <2> QED
    BY <1>0, <1>3, <2>1, IdleStep DEF End, memory, InventoryTypeOK
<1>4. ASSUME NEW l \in Leases, NEW n \in Devices, Close(l, n) PROVE InventoryInv' /\ DevicesKept
    BY <1>0, <1>4, IdleStep DEF Close, memory, InventoryTypeOK
<1> QED
    BY <1>1, <1>2, <1>3, <1>4

\* The machine: its own state, or a device that nobody holds is retired.
LEMMA MachineSteps ==
    ASSUME InventoryInv, FinishRecovery \/ Unhealthy \/ \E n \in Devices : Retire(n)
    PROVE  InventoryInv' /\ DevicesKept
<1>0. InventoryTypeOK /\ 0 \in All /\ 0 \notin Devices /\ Devices \subseteq All
    BY InventoryAssumption DEF InventoryInv, All, Devices
<1>1. CASE FinishRecovery
  <2>1. state' \in [All -> NodeStates] /\ \A n \in Devices : state'[n] = state[n]
    BY <1>0, <1>1 DEF FinishRecovery, Unquarantined, InventoryTypeOK, NodeStates
  <2> QED
    BY <1>0, <1>1, <2>1, IdleStep DEF FinishRecovery, InventoryTypeOK, KnownDevices
<1>2. CASE Unhealthy
  <2>1. state' \in [All -> NodeStates] /\ \A n \in Devices : state'[n] = state[n]
    BY <1>0, <1>2 DEF Unhealthy, InventoryTypeOK, NodeStates
  <2> QED
    BY <1>0, <1>2, <2>1, IdleStep DEF Unhealthy, InventoryTypeOK, KnownDevices, memory
<1>3. ASSUME NEW n \in Devices, Retire(n) PROVE InventoryInv' /\ DevicesKept
  <2>1. /\ state' \in [All -> NodeStates]
        /\ \A m \in Devices : state'[m] = state[m] \/ state'[m] = "Retired"
    BY <1>0, <1>3 DEF Retire, SetState, InventoryTypeOK, NodeStates
  <2> QED
    BY <1>0, <1>3, <2>1, IdleStep DEF Retire, SetState, InventoryTypeOK, KnownDevices, memory
<1> QED
    BY <1>1, <1>2, <1>3

\* A crash forgets the agent and the registration.
LEMMA CrashStep ==
    ASSUME InventoryInv, Crash
    PROVE  InventoryInv' /\ DevicesKept
<1> USE DEF InventoryInv, Crash, durable
<1>1. job'.step = "none" /\ agent' = Unset
    BY DEF NoJob
<1>2. InventoryTypeOK'
    BY <1>1 DEF InventoryTypeOK, NoJob, Idle
<1>3. GraphSound' /\ NodeKept
    BY NodesFixed DEF GraphSound
<1>4. Progress' /\ AgentSound'
    BY <1>1 DEF Progress, AgentSound, At, Steps
<1>5. RefusedKept /\ OmittedKept
    BY DEF RefusedKept, OmittedKept
<1> QED
    BY <1>2, <1>3, <1>4, <1>5 DEF DevicesKept

-----------------------------------------------------------------------------
(* The steps of a registration.                                            *)

\* Claiming gives what nobody has, and to nodes of the set only.
LEMMA ClaimedMarks ==
    ASSUME NEW S, NEW f \in Marked
    PROVE  /\ Claimed(S, f) \in Marked
           /\ \A n \in All : /\ n \notin S => Claimed(S, f)[n] = f[n]
                             /\ f[n] # Other => Claimed(S, f)[n] # Other
BY InventoryAssumption DEF Claimed, Marked

\* A refusal touches the machine's own state only.
LEMMA RefuseKeeps ==
    ASSUME InventoryInv, Refuse, Idle \/ At("facts")
    PROVE  InventoryInv' /\ DeviceSide' = DeviceSide
<1> USE DEF InventoryInv, Refuse
<1>1. /\ state' \in [All -> NodeStates] /\ \A n \in Devices : state'[n] = state[n]
  <2>1. 0 \in All /\ 0 \notin Devices /\ Devices \subseteq All
    BY InventoryAssumption DEF All, Devices
  <2> QED
    BY <2>1 DEF InventoryTypeOK, NodeStates
<1>2. DeviceSide' = DeviceSide
    BY <1>1 DEF DeviceSide
<1>3. job' = NoJob /\ job'.step = "none"
    BY DEF NoJob
<1>4. InventoryTypeOK'
    BY <1>1, <1>3 DEF InventoryTypeOK, NoJob, Idle
<1>5. GraphSound'
    BY NodesFixed DEF GraphSound
<1>6. Progress'
    BY <1>3 DEF Progress, At, Steps
<1>7. AgentSound'
    BY <1>1, <1>3 DEF AgentSound, Withdrawn, Unheld, Vanished, KnownDevices, Devices
<1> QED
    BY <1>2, <1>4, <1>5, <1>6, <1>7

\* A new registration has touched no device.
LEMMA RegisterStep ==
    ASSUME InventoryInv, NEW r \in Reports, Register(r)
    PROVE  InventoryInv' /\ DevicesKept
<1>1. CASE Preflight(r)
  <2> USE <1>1 DEF InventoryInv, Register, durable
  <2>1. job' = [report |-> r, step |-> "writers", before |-> DeviceSide] /\ job'.step = "writers"
        /\ job'.report = r /\ job'.before = DeviceSide
    OBVIOUS
  <2>2. DeviceSide' = DeviceSide
    BY DEF DeviceSide
  <2>3. InventoryTypeOK'
    BY <2>1 DEF InventoryTypeOK, Idle, Steps
  <2>4. GraphSound' /\ NodeKept
    BY NodesFixed DEF GraphSound
  <2>5. Progress'
    BY <2>1, <2>2 DEF Progress, At, Preflight, ContractsAgree, Current, KnownDevices
  <2>6. AgentSound'
    BY <2>1 DEF AgentSound, Withdrawn, Unheld, Vanished, KnownDevices
  <2>7. RefusedKept /\ OmittedKept
    BY Zenon DEF RefusedKept, OmittedKept
  <2> QED
    BY <2>3, <2>4, <2>5, <2>6, <2>7 DEF DevicesKept
<1>2. CASE ~Preflight(r)
  <2>1. Refuse /\ Idle
    BY <1>2 DEF Register
  <2>2. InventoryInv'
    BY <2>1, RefuseKeeps
  <2>3. NodeKept
    BY <2>1, NodesFixed DEF InventoryInv, Refuse
  <2> QED
    BY <2>1, <2>2, <2>3 DEF DevicesKept, RefusedKept, OmittedKept, Refuse
<1> QED
    BY <1>1, <1>2

\* A machine that is new has no devices yet, and omits none.
LEMMA RegisterNewStep ==
    ASSUME InventoryInv, NEW r \in Reports, RegisterNew(r)
    PROVE  InventoryInv' /\ DevicesKept
<1> USE DEF InventoryInv
<1>1. KnownDevices = {} /\ DOMAIN Fresh(r) \subseteq Devices /\ node' = DevicesWith(r) /\ Idle
    BY DEF RegisterNew, GraphSound
<1>2. /\ node' \in [Devices -> DeviceNodes \cup {Unset}]
      /\ \A n \in DOMAIN Fresh(r) : node'[n] # Unset /\ node'[n].id \in IdsIn(r)
      /\ \A n \in Devices : node'[n] # Unset => n \in DOMAIN Fresh(r)
      /\ \A n, m \in Devices : n # m /\ node'[n] # Unset /\ node'[m] # Unset
                                 => node'[n].id # node'[m].id
    BY <1>1, DevicesWritten
<1>3. /\ job'.step = "session" /\ job'.report = r /\ last' = "pending"
      /\ job' = [report |-> job'.report, step |-> job'.step, before |-> job'.before]
    BY DEF RegisterNew
<1>4. host' \in Hosts /\ host' # Unset
    BY InventoryAssumption DEF RegisterNew
<1>5. writer' \in Marked /\ contracts' \in Marked
    BY ClaimedMarks DEF RegisterNew, InventoryTypeOK
<1>6. InventoryTypeOK'
    BY <1>2, <1>3, <1>4, <1>5 DEF InventoryTypeOK, RegisterNew, Steps, Idle
<1>7. GraphSound'
  <2>1. ASSUME NEW n \in Devices, node'[n] = Unset PROVE contracts'[n] = Unset
    <3>1. n \notin DOMAIN Fresh(r) /\ node[n] = Unset
      BY <1>1, <1>2, <2>1 DEF KnownDevices
    <3>2. n \in All /\ n # 0
      BY InventoryAssumption DEF All, Devices
    <3>3. contracts'[n] = contracts[n]
      BY <3>1, <3>2, ClaimedMarks DEF RegisterNew, InventoryTypeOK
    <3> QED
      BY <3>1, <3>3 DEF GraphSound
  <2> QED
    BY <2>1, <1>2, <1>4 DEF GraphSound, KnownDevices
<1>8. Vanished(job.report)' = {}
    BY <1>2, <1>3 DEF Vanished, KnownDevices
<1>9. Progress' /\ AgentSound'
    BY <1>3, <1>8 DEF Progress, AgentSound, At, Idle, Withdrawn, Unheld, Steps
<1>10. DevicesKept
    BY <1>1 DEF DevicesKept, NodeKept, OmittedKept, RefusedKept
<1> QED
    BY <1>6, <1>7, <1>9, <1>10

\* Adoption gives writers to the nodes the report speaks of.
LEMMA AdoptStep ==
    ASSUME InventoryInv, Adopt
    PROVE  InventoryInv' /\ DevicesKept
<1> USE DEF InventoryInv
<1>1. /\ job.step = "writers" /\ job'.step = "facts" /\ job'.report = job.report
      /\ job'.before = job.before /\ last = "pending" /\ job.report \in Reports
      /\ job' = [report |-> job'.report, step |-> job'.step, before |-> job'.before]
    BY DEF Adopt, At, Goto, InventoryTypeOK, Idle
<1>2. writer' \in Marked
    BY ClaimedMarks DEF Adopt, AdoptWriters, InventoryTypeOK
<1>3. InventoryTypeOK'
    BY <1>1, <1>2 DEF InventoryTypeOK, Adopt, Goto, Steps, Idle
<1>4. GraphSound' /\ NodeKept
    BY NodesFixed DEF GraphSound, Adopt
<1>5. Progress'
    BY <1>1 DEF Progress, Adopt, At, Steps, DeviceSide, ContractsAgree, Current, KnownDevices
<1>6. AgentSound'
    BY <1>1 DEF AgentSound, Adopt, Goto, At, Withdrawn, Unheld, Vanished, KnownDevices
<1>7. OmittedKept
  <2> SUFFICES ASSUME NEW n \in KnownDevices, writer'[n] # writer[n] \/ contracts'[n] # contracts[n]
               PROVE  ~Idle /\ node[n].id \in IdsIn(job.report)
    BY DEF OmittedKept
  <2>1. n \in All /\ n # 0
    BY InventoryAssumption DEF KnownDevices, Devices, All
  <2>2. n \in Current(job.report)
    BY <2>1, ClaimedMarks DEF Adopt, AdoptWriters, InventoryTypeOK
  <2> QED
    BY <1>1, <2>1, <2>2 DEF Current, Idle
<1>8. RefusedKept
    BY <1>1 DEF RefusedKept, Adopt, Goto
<1> QED
    BY <1>3, <1>4, <1>5, <1>6, <1>7, <1>8 DEF DevicesKept

\* The devices are refused as they were, or written with their identity.
LEMMA ReconcileStep ==
    ASSUME InventoryInv, ReconcileDevices
    PROVE  InventoryInv' /\ DevicesKept
<1> USE DEF InventoryInv
<1> DEFINE r == job.report
<1>1. /\ job.step = "facts" /\ last = "pending" /\ r \in Reports /\ host # Unset
      /\ DOMAIN Fresh(r) \subseteq Devices /\ ~Idle /\ At("facts")
    BY DEF ReconcileDevices, At, InventoryTypeOK, Idle
<1>2. CASE \E n \in Existing(r) : Changed(n, SpecOf(r, node[n].id))
  <2>1. Refuse
    BY <1>2, Zenon DEF ReconcileDevices
  <2>2. InventoryInv' /\ DeviceSide' = job.before
    BY <1>1, <2>1, RefuseKeeps, Zenon DEF Progress
  <2>3. NodeKept
    BY <2>1, NodesFixed DEF Refuse
  <2> QED
    BY <2>1, <2>2, <2>3 DEF DevicesKept, RefusedKept, OmittedKept, Refuse
<1>3. CASE ~ \E n \in Existing(r) : Changed(n, SpecOf(r, node[n].id))
  <2> DEFINE told == Existing(r) \cup DOMAIN Fresh(r)
  <2>1. /\ node' = DevicesWith(r) /\ writer' = Claimed(DOMAIN Fresh(r), writer)
        /\ contracts' = Claimed(told, contracts) /\ Goto("vanish")
        /\ UNCHANGED <<host, state, claims, live, open, session>>
    BY <1>3, Zenon DEF ReconcileDevices
  <2>2. /\ node' \in [Devices -> DeviceNodes \cup {Unset}]
        /\ \A n \in KnownDevices :
               /\ node'[n] # Unset /\ node'[n].id = node[n].id /\ node'[n].at = node[n].at
               /\ n \in Existing(r) => node'[n].kind = SpecOf(r, node[n].id).kind
               /\ n \notin Existing(r) => node'[n] = node[n]
        /\ \A n \in DOMAIN Fresh(r) : n \notin KnownDevices /\ node'[n] # Unset
        /\ \A n \in Devices : node'[n] # Unset => n \in KnownDevices \/ n \in DOMAIN Fresh(r)
        /\ \A n, m \in Devices : n # m /\ node'[n] # Unset /\ node'[m] # Unset
                                   => node'[n].id # node'[m].id
    BY <1>1, <2>1, DevicesWritten, Zenon
  <2>3. writer' \in Marked /\ contracts' \in Marked
    BY <2>1, ClaimedMarks DEF InventoryTypeOK
  <2>4. /\ \A n \in All : n \notin DOMAIN Fresh(r) => writer'[n] = writer[n]
        /\ \A n \in All : n \notin told => contracts'[n] = contracts[n]
        /\ \A n \in All : contracts[n] # Other => contracts'[n] # Other
    BY <2>1, ClaimedMarks DEF InventoryTypeOK
  <2>5. Devices \subseteq All /\ 0 \in All /\ Other # Unset
    BY InventoryAssumption DEF Devices, All
  <2>6. /\ job'.step = "vanish" /\ job'.report = r /\ last' = "pending" /\ agent' = agent
        /\ job' = [report |-> job'.report, step |-> job'.step, before |-> job'.before]
    BY <1>1, <2>1 DEF Goto, InventoryTypeOK
  <2>7. InventoryTypeOK'
    BY <1>1, <2>1, <2>2, <2>3, <2>6 DEF InventoryTypeOK, Steps
  <2>8. GraphSound'
    <3>1. ASSUME NEW n \in Devices, node'[n] = Unset PROVE contracts'[n] = Unset
      <4>1. n \notin KnownDevices /\ n \notin told
        BY <3>1, <2>2 DEF Existing
      <4> QED
        BY <4>1, <2>4, <2>5 DEF GraphSound, KnownDevices
    <3> QED
      BY <3>1, <1>1, <2>1, <2>2, Zenon DEF GraphSound, KnownDevices
  <2>9. ContractsAgree(r)
    BY <1>1 DEF Progress, Steps
  <2>10. ASSUME NEW n \in Current(job.report)' PROVE contracts'[n] # Other
    <3>1. CASE n = 0
      BY <3>1, <2>4, <2>5, <2>9 DEF ContractsAgree, Current
    <3>2. CASE n \in Devices /\ node'[n] # Unset /\ node'[n].id \in IdsIn(r)
      <4>1. CASE n \in KnownDevices
        BY <4>1, <3>2, <2>2, <2>4, <2>5, <2>9 DEF ContractsAgree, Current
      <4>2. CASE n \notin KnownDevices
        BY <4>2, <3>2, <2>4, <2>5 DEF GraphSound, KnownDevices
      <4> QED
        BY <4>1, <4>2
    <3> QED
      BY <3>1, <3>2, <2>6 DEF Current, KnownDevices
  <2>11. Progress' /\ AgentSound'
    BY <2>6, <2>10 DEF Progress, AgentSound, At, Idle, ContractsAgree
  <2>12. NodeKept
    <3> SUFFICES ASSUME NEW n \in KnownDevices
                 PROVE  /\ node'[n] # Unset
                        /\ [k \in {"id", "kind", "at"} |-> node'[n][k]]
                           = [k \in {"id", "kind", "at"} |-> node[n][k]]
                        /\ \A m \in Devices \ {n} : node'[m] # Unset => node'[m].id # node[n].id
      BY DEF NodeKept
    <3>1. node'[n].kind = node[n].kind
      BY <1>3, <2>2 DEF Changed
    <3>2. node'[n].id = node[n].id /\ node'[n].at = node[n].at /\ node'[n] # Unset
      BY <2>2
    <3>3. n \in Devices
      BY DEF KnownDevices
    <3>4. \A k \in {"id", "kind", "at"} : node'[n][k] = node[n][k]
      BY <3>1, <3>2
    <3>5. \A m \in Devices \ {n} : node'[m] # Unset => node'[m].id # node[n].id
      BY <3>2, <3>3, <2>2, Zenon
    <3> QED
      BY <3>2, <3>4, <3>5, Zenon
  <2>13. OmittedKept
    <3> SUFFICES ASSUME NEW n \in KnownDevices,
                        writer'[n] # writer[n] \/ contracts'[n] # contracts[n]
                 PROVE  ~Idle /\ node[n].id \in IdsIn(r)
      BY DEF OmittedKept
    <3>1. n \in All /\ n \notin DOMAIN Fresh(r)
      BY <2>2, <2>5 DEF KnownDevices
    <3>2. n \in Existing(r)
      BY <3>1, <2>4
    <3> QED
      BY <1>1, <3>2 DEF Existing
  <2>14. RefusedKept
    BY <2>6 DEF RefusedKept
  <2> QED
    BY <2>7, <2>8, <2>11, <2>12, <2>13, <2>14 DEF DevicesKept
<1> QED
    BY <1>2, <1>3

\* After the devices are written, a step that writes no node, writer or
\* contract and goes on as Progress says.
LEMMA LaterStep ==
    ASSUME InventoryInv, job.step \in Steps \ {"writers", "facts"},
           job'.step \in Steps \ {"writers", "facts"},
           job' = [report |-> job.report, step |-> job'.step, before |-> job.before],
           UNCHANGED <<host, node, writer, contracts, claims, agent, last>>,
           state' \in [All -> NodeStates], live' \subseteq live, Progress'
    PROVE  InventoryInv' /\ DevicesKept
<1> USE DEF InventoryInv
<1>1. ~Idle /\ ~Idle' /\ ~At("writers")' /\ ~At("facts")'
    BY DEF Idle, At, Steps
<1>2. job'.report = job.report /\ job'.before = job.before
    OBVIOUS
<1>3. InventoryTypeOK'
    BY <1>1, <1>2 DEF InventoryTypeOK
<1>4. GraphSound' /\ NodeKept
    BY NodesFixed DEF GraphSound
<1>5. AgentSound'
    BY <1>1 DEF AgentSound
<1>6. RefusedKept /\ OmittedKept
    BY <1>1 DEF RefusedKept, OmittedKept, InventoryTypeOK
<1> QED
    BY <1>3, <1>4, <1>5, <1>6 DEF DevicesKept

\* The omitted devices are withdrawn one by one.
LEMMA VanishStep ==
    ASSUME InventoryInv, Vanish
    PROVE  InventoryInv' /\ DevicesKept
<1> DEFINE gone == {n \in Vanished(job.report) : state[n] \in {"Schedulable", "Joining"}}
<1>1. InventoryTypeOK /\ job.step = "vanish" /\ ContractsAgree(job.report)
    BY DEF InventoryInv, Vanish, At, Progress, Steps
<1>2. CASE gone # {}
  <2>1. Lowest(gone) \in gone
    BY <1>2, LowestInSet DEF Vanished, KnownDevices, Devices
  <2>2. SetState(Lowest(gone), "Unavailable")
    BY <1>2 DEF Vanish
  <2>3. state' \in [All -> NodeStates]
    BY <1>1, <2>2, Zenon DEF SetState, InventoryTypeOK, NodeStates
  <2>4. job' = job /\ UNCHANGED <<host, node, writer, contracts, claims, live, agent, last>>
    BY <2>2 DEF SetState, memory
  <2>5. Progress'
    BY <1>1, <2>4 DEF Progress, At, Steps, ContractsAgree, Current, KnownDevices
  <2> QED
    BY <1>1, <2>3, <2>4, <2>5, LaterStep DEF InventoryTypeOK, Steps
<1>3. CASE gone = {}
  <2>1. Goto("fail") /\ UNCHANGED durable
    BY <1>3 DEF Vanish
  <2>2. /\ job' = [report |-> job.report, step |-> job'.step, before |-> job.before]
        /\ job'.step = "fail" /\ job'.report = job.report
    BY <1>1, <2>1 DEF Goto, InventoryTypeOK
  <2>3. Withdrawn(job.report)
    BY <1>3 DEF Withdrawn
  <2>4. Progress'
    BY <1>1, <2>1, <2>2, <2>3
       DEF Progress, At, Steps, ContractsAgree, Current, KnownDevices, Withdrawn, Vanished, durable
  <2> QED
    BY <1>1, <2>1, <2>2, <2>4, LaterStep DEF InventoryTypeOK, Steps, Goto, durable
<1> QED
    BY <1>2, <1>3

\* Their leases fail one by one.
LEMMA FailStep ==
    ASSUME InventoryInv, Fail
    PROVE  InventoryInv' /\ DevicesKept
<1>1. /\ InventoryTypeOK /\ job.step = "fail" /\ ContractsAgree(job.report)
      /\ Withdrawn(job.report)
    BY DEF InventoryInv, Fail, At, Progress, Steps
<1>2. CASE Affected(job.report) # {}
  <2>1. live' \subseteq live /\ job' = job
        /\ UNCHANGED <<host, node, writer, contracts, state, claims, agent, last>>
    BY <1>2 DEF Fail, memory
  <2>2. Progress'
    BY <1>1, <2>1 DEF Progress, At, Steps, ContractsAgree, Current, KnownDevices, Withdrawn, Vanished
  <2> QED
    BY <1>1, <2>1, <2>2, LaterStep DEF InventoryTypeOK, Steps
<1>3. CASE Affected(job.report) = {}
  <2>1. Goto("return") /\ UNCHANGED durable
    BY <1>3 DEF Fail
  <2>2. /\ job' = [report |-> job.report, step |-> job'.step, before |-> job.before]
        /\ job'.step = "return" /\ job'.report = job.report
    BY <1>1, <2>1 DEF Goto, InventoryTypeOK
  <2>3. Unheld(job.report)
    BY <1>3 DEF Unheld, Affected
  <2>4. Progress'
    BY <1>1, <2>1, <2>2, <2>3 DEF Progress, At, Steps, ContractsAgree, Current, KnownDevices,
                                  Withdrawn, Unheld, Vanished, durable
  <2> QED
    BY <1>1, <2>1, <2>2, <2>4, LaterStep DEF InventoryTypeOK, Steps, Goto, durable
<1> QED
    BY <1>2, <1>3

\* Only devices of the report return.
LEMMA ReturnStep ==
    ASSUME InventoryInv, Return
    PROVE  InventoryInv' /\ DevicesKept
<1> DEFINE back == {n \in Existing(job.report) :
                       state[n] = "Unavailable" \/ (state[n] = "Joining" /\ ~OpenOn(n))}
<1>1. /\ InventoryTypeOK /\ job.step = "return" /\ ContractsAgree(job.report)
      /\ Withdrawn(job.report) /\ Unheld(job.report)
    BY DEF InventoryInv, Return, At, Progress, Steps
<1>2. CASE back # {}
  <2>1. Lowest(back) \in back
    BY <1>2, LowestInSet DEF Existing, KnownDevices, Devices
  <2>2. PICK to \in NodeStates : SetState(Lowest(back), to)
    BY <1>2 DEF Return, NodeStates
  <2>3. /\ Lowest(back) \notin Vanished(job.report)
        /\ Vanished(job.report) \subseteq Devices /\ Devices \subseteq All
    <3>1. Lowest(back) \notin Vanished(job.report)
      BY <2>1 DEF Existing, Vanished
    <3>2. Vanished(job.report) \subseteq Devices
      BY DEF Vanished, KnownDevices
    <3>3. Devices \subseteq All
      BY InventoryAssumption DEF Devices, All
    <3> QED
      BY <3>1, <3>2, <3>3
  <2>4. /\ state' \in [All -> NodeStates]
        /\ \A n \in Vanished(job.report) : state'[n] = state[n]
    BY <1>1, <2>2, <2>3, Zenon DEF SetState, InventoryTypeOK
  <2>5. job' = job /\ UNCHANGED <<host, node, writer, contracts, claims, live, agent, last>>
    BY <2>2 DEF SetState, memory
  <2>6. Progress'
    BY <1>1, <2>4, <2>5, Zenon DEF Progress, At, Steps, ContractsAgree, Current, KnownDevices,
                            Withdrawn, Unheld, Vanished
  <2> QED
    BY <1>1, <2>4, <2>5, <2>6, LaterStep DEF InventoryTypeOK, Steps
<1>3. CASE back = {}
  <2>1. Goto("contracts") /\ UNCHANGED durable
    BY <1>3 DEF Return
  <2>2. /\ job' = [report |-> job.report, step |-> job'.step, before |-> job.before]
        /\ job'.step = "contracts" /\ job'.report = job.report
    BY <1>1, <2>1 DEF Goto, InventoryTypeOK
  <2>3. Progress'
    BY <1>1, <2>1, <2>2 DEF Progress, At, Steps, ContractsAgree, Current, KnownDevices,
                            Withdrawn, Unheld, Vanished, durable
  <2> QED
    BY <1>1, <2>1, <2>2, <2>3, LaterStep DEF InventoryTypeOK, Steps, Goto, durable
<1> QED
    BY <1>2, <1>3

\* The contracts were agreed before the devices were written and still are.
LEMMA ContractsStep ==
    ASSUME InventoryInv, WriteContracts
    PROVE  InventoryInv' /\ DevicesKept
<1> USE DEF InventoryInv
<1>1. /\ job.step = "contracts" /\ ContractsAgree(job.report) /\ job.report \in Reports
      /\ Withdrawn(job.report) /\ Unheld(job.report) /\ last = "pending" /\ host # Unset /\ ~Idle
    BY DEF WriteContracts, At, Progress, Steps, InventoryTypeOK, Idle
<1>2. /\ contracts' = Claimed(Current(job.report), contracts)
      /\ job'.step \in {"session", "marks"} /\ job'.report = job.report
      /\ job' = [report |-> job'.report, step |-> job'.step, before |-> job'.before]
      /\ UNCHANGED <<host, node, writer, state, claims, live, agent, last>>
    BY <1>1 DEF WriteContracts, Goto, InventoryTypeOK
<1>3. /\ contracts' \in Marked
      /\ \A n \in All : n \notin Current(job.report) => contracts'[n] = contracts[n]
    BY <1>2, ClaimedMarks DEF InventoryTypeOK
<1>4. Devices \subseteq All /\ 0 \notin Devices
    BY InventoryAssumption DEF Devices, All
<1>5. InventoryTypeOK'
    BY <1>1, <1>2, <1>3 DEF InventoryTypeOK, Steps
<1>6. GraphSound' /\ NodeKept
  <2>1. ASSUME NEW n \in Devices, node'[n] = Unset PROVE contracts'[n] = Unset
    BY <2>1, <1>2, <1>3, <1>4 DEF GraphSound, Current, KnownDevices
  <2> QED
    BY <2>1, <1>2, NodesFixed DEF GraphSound
<1>7. Progress' /\ AgentSound'
    BY <1>1, <1>2 DEF Progress, AgentSound, At, Idle, Steps, Withdrawn, Unheld, Vanished, KnownDevices
<1>8. OmittedKept
    BY <1>1, <1>2, <1>3, <1>4 DEF OmittedKept, Current, KnownDevices
<1>9. RefusedKept
    BY <1>1, <1>2 DEF RefusedKept
<1> QED
    BY <1>5, <1>6, <1>7, <1>8, <1>9 DEF DevicesKept

\* The marks are the machine's own.
LEMMA MarksStep ==
    ASSUME InventoryInv, Marks
    PROVE  InventoryInv' /\ DevicesKept
<1>1. /\ InventoryTypeOK /\ job.step = "marks" /\ Withdrawn(job.report) /\ Unheld(job.report)
    BY DEF InventoryInv, Marks, At, Progress, Steps
<1>2. state' \in [All -> NodeStates] /\ \A n \in Devices : state'[n] = state[n]
  <2>1. 0 \in All /\ 0 \notin Devices /\ Devices \subseteq All
    BY InventoryAssumption DEF Devices, All
  <2> QED
    BY <1>1, <2>1 DEF Marks, Unquarantined, InventoryTypeOK, NodeStates
<1>3. /\ job' = [report |-> job.report, step |-> job'.step, before |-> job.before]
      /\ job'.step = "session" /\ job'.report = job.report
      /\ UNCHANGED <<host, node, writer, contracts, claims, live, agent, last>>
    BY <1>1 DEF Marks, Goto, InventoryTypeOK
<1>4. Progress'
    BY <1>1, <1>2, <1>3 DEF Progress, At, Steps, Withdrawn, Unheld, Vanished, KnownDevices
<1> QED
    BY <1>1, <1>2, <1>3, <1>4, LaterStep DEF Steps

\* What the registration established holds of the agent it registers.
LEMMA AcceptStep ==
    ASSUME InventoryInv, Accept
    PROVE  InventoryInv' /\ DevicesKept
<1> USE DEF InventoryInv
<1>1. /\ job.step = "session" /\ job.report \in Reports
      /\ Withdrawn(job.report) /\ Unheld(job.report)
    BY DEF Accept, At, Progress, Steps, InventoryTypeOK, Idle
<1>2. /\ job' = NoJob /\ job'.step = "none" /\ agent' = job.report /\ last' = "accepted"
      /\ UNCHANGED <<host, node, writer, contracts, state, claims, live, open>>
    BY DEF Accept, NoJob
<1>3. InventoryTypeOK'
    BY <1>1, <1>2 DEF InventoryTypeOK, NoJob, Idle
<1>4. GraphSound' /\ NodeKept
    BY <1>2, NodesFixed, Zenon DEF GraphSound
<1>5. Progress'
    BY <1>2 DEF Progress, At, Steps
<1>6. AgentSound'
    BY <1>1, <1>2 DEF AgentSound, Withdrawn, Unheld, Vanished, KnownDevices
<1>7. RefusedKept /\ OmittedKept
    BY <1>2 DEF RefusedKept, OmittedKept
<1> QED
    BY <1>3, <1>4, <1>5, <1>6, <1>7 DEF DevicesKept

-----------------------------------------------------------------------------
(* The theorems on Inventory.                                              *)

\* A loaded snapshot satisfies the invariant.
LEMMA InventoryStart ==
    ASSUME InventoryInit
    PROVE  InventoryInv
<1> USE DEF InventoryInit
<1>1. PICK l \in Legacy : host = l.host /\ node = l.node /\ writer = l.writer
                          /\ contracts = l.contract
    OBVIOUS
<1>2. job.step = "none" /\ agent = Unset
    BY DEF NoJob
<1>3. l \in [host : Hosts \cup {Unset}, node : [Devices -> DeviceNodes \cup {Unset}],
             writer : Marked, contract : Marked]
    BY InventoryAssumption
<1>4. InventoryTypeOK
    BY <1>1, <1>2, <1>3 DEF InventoryTypeOK, NodeStates, NoJob, Idle
<1>5. GraphSound
    BY <1>1, InventoryAssumption DEF GraphSound, KnownDevices
<1>6. Progress /\ AgentSound
    BY <1>2 DEF Progress, AgentSound, At, Steps
<1> QED
    BY <1>4, <1>5, <1>6 DEF InventoryInv

\* Every step keeps the invariant and what DevicesKept says.
LEMMA InventoryStep ==
    ASSUME InventoryInv, [InventoryNext]_inventory_vars
    PROVE  InventoryInv' /\ [DevicesKept]_inventory_vars
<1>1. CASE UNCHANGED inventory_vars
  <2>1. /\ UNCHANGED <<host, node, writer, contracts, state, claims, live, open, session>>
        /\ UNCHANGED <<agent, recovering, last, job>>
    BY <1>1 DEF inventory_vars, durable, memory
  <2>2. InventoryTypeOK' /\ GraphSound'
    BY <2>1 DEF InventoryInv, InventoryTypeOK, GraphSound, KnownDevices, Idle
  <2>3. Progress'
    BY <2>1 DEF InventoryInv, Progress, At, DeviceSide, ContractsAgree, Current, Withdrawn, Unheld,
                Vanished, KnownDevices
  <2>4. AgentSound'
    BY <2>1 DEF InventoryInv, AgentSound, At, Idle, Withdrawn, Unheld, Vanished, KnownDevices
  <2> QED
    BY <1>1, <2>2, <2>3, <2>4 DEF InventoryInv
<1>2. CASE InventoryNext
    BY <1>2, RegisterStep, RegisterNewStep, AdoptStep, ReconcileStep, VanishStep, FailStep,
       ReturnStep, ContractsStep, MarksStep, AcceptStep, LeaseSteps, MachineSteps, CrashStep
       DEF InventoryNext
<1> QED
    BY <1>1, <1>2

\* While an agent is registered, a device it did not report takes no claims
\* and no live lease holds it, for any devices, reports and leases and after
\* any crashes (reconcile_device_subtree).
THEOREM VanishedUnheld == InventorySpec => []VanishedIsUnheld
<1>1. InventoryInv => VanishedIsUnheld
    BY DEF InventoryInv, AgentSound, VanishedIsUnheld, Withdrawn, Unheld
<1> QED
    BY InventoryStart, InventoryStep, <1>1, PTL DEF InventorySpec

\* A registration keeps the node, class and container of every device, is
\* refused only before it has changed one, and gives nothing to a device it
\* does not report (register_agent_with_capabilities).
THEOREM DevicesStayKept == InventorySpec => DevicesAreKept
BY InventoryStart, InventoryStep, PTL DEF InventorySpec, DevicesAreKept

-----------------------------------------------------------------------------
(* Facts.                                                                  *)

\* An update of k fragments is a sequence of length k.
LEMMA FragmentsLen ==
    ASSUME NEW S, NEW k \in 0 .. MaxBatches, NEW b \in [1 .. k -> S]
    PROVE  Len(b) = k /\ DOMAIN b = 1 .. k
<1>1. k \in Nat
    BY FactsAssumption
<1> QED
    BY <1>1

\* The step of apply_provider_facts, fragment by fragment: a node that a
\* fragment names gets that fragment's value and writer, any other keeps
\* its own.
LEMMA FragmentsApplied ==
    ASSUME NEW k \in 0 .. MaxBatches, NEW batches \in [1 .. k -> Batches],
           NEW changes \in Changes, ApplyProviderFacts(batches, changes)
    PROVE  /\ \A n \in Ids :
                \/ \E i \in 1 .. k : /\ n \in DOMAIN batches[i].nodes
                                     /\ facts'[n] = batches[i].nodes[n]
                                     /\ nodeWriter'[n] = batches[i].writer
                \/ facts'[n] = facts[n] /\ nodeWriter'[n] = nodeWriter[n]
           /\ \A e \in Edges :
                \/ \E i \in 1 .. k : /\ e \in batches[i].edges
                                     /\ edgeWriter'[e] = batches[i].writer
                \/ edgeWriter'[e] = edgeWriter[e]
           /\ \A i \in 1 .. k : \A n \in Ids \cap DOMAIN batches[i].nodes :
                \E m \in 1 .. k : /\ n \in DOMAIN batches[m].nodes
                                  /\ facts'[n] = batches[m].nodes[n]
           /\ facts' = [n \in Ids |-> facts'[n]] /\ nodeWriter' = [n \in Ids |-> nodeWriter'[n]]
           /\ edgeWriter' = [e \in Edges |-> edgeWriter'[e]]
<1>1. Len(batches) = k /\ DOMAIN batches = 1 .. k
    BY FragmentsLen
<1> DEFINE by(n) == CHOOSE i \in DOMAIN batches : n \in DOMAIN batches[i].nodes
           from(e) == CHOOSE i \in DOMAIN batches : e \in batches[i].edges
           N == NodesOf(batches, Len(batches))
<1>2. /\ facts' = [n \in Ids |-> IF n \in N THEN batches[by(n)].nodes[n] ELSE facts[n]]
      /\ nodeWriter' = [n \in Ids |-> IF n \in N THEN batches[by(n)].writer ELSE nodeWriter[n]]
      /\ edgeWriter' = [e \in Edges |-> IF e \in EdgesOf(batches) THEN batches[from(e)].writer
                                                                  ELSE edgeWriter[e]]
    BY Zenon DEF ApplyProviderFacts
<1>3. \A n : n \in N <=> \E i \in 1 .. k : n \in DOMAIN batches[i].nodes
    BY <1>1, Zenon DEF NodesOf
<1>4. \A n \in N : by(n) \in 1 .. k /\ n \in DOMAIN batches[by(n)].nodes
    BY <1>1, <1>3
<1>5. \A e : e \in EdgesOf(batches) <=> \E i \in 1 .. k : e \in batches[i].edges
    BY <1>1 DEF EdgesOf
<1>6. \A e \in EdgesOf(batches) : from(e) \in 1 .. k /\ e \in batches[from(e)].edges
    BY <1>1, <1>5
<1> HIDE DEF by, from, N
<1>7. \A n \in Ids : n \in N => facts'[n] = batches[by(n)].nodes[n]
                                /\ nodeWriter'[n] = batches[by(n)].writer
    BY <1>2
<1>8. \A n \in Ids : n \notin N => facts'[n] = facts[n] /\ nodeWriter'[n] = nodeWriter[n]
    BY <1>2
<1>9. \A e \in Edges : IF e \in EdgesOf(batches) THEN edgeWriter'[e] = batches[from(e)].writer
                                                 ELSE edgeWriter'[e] = edgeWriter[e]
    BY <1>2
<1>10. facts' = [n \in Ids |-> facts'[n]] /\ nodeWriter' = [n \in Ids |-> nodeWriter'[n]]
       /\ edgeWriter' = [e \in Edges |-> edgeWriter'[e]]
    BY <1>2
<1> QED
    BY <1>3, <1>4, <1>6, <1>7, <1>8, <1>9, <1>10, Zenon

\* The step of adopt_fact_writers: a fact that is adopted gets the writer of
\* an assignment that names it, any other keeps its own.
LEMMA Adopted ==
    ASSUME NEW k \in 0 .. MaxBatches, NEW adopted \in [1 .. k -> Assignments],
           AdoptFactWriters(adopted)
    PROVE  /\ \A n \in Ids :
                \/ \E i \in 1 .. k : n \in adopted[i].nodes /\ nodeWriter'[n] = adopted[i].writer
                \/ nodeWriter'[n] = nodeWriter[n]
           /\ \A e \in Edges :
                \/ \E i \in 1 .. k : e \in adopted[i].edges /\ edgeWriter'[e] = adopted[i].writer
                \/ edgeWriter'[e] = edgeWriter[e]
<1>1. DOMAIN adopted = 1 .. k
    OBVIOUS
<1> DEFINE by(n) == CHOOSE i \in DOMAIN adopted : n \in adopted[i].nodes
           from(e) == CHOOSE i \in DOMAIN adopted : e \in adopted[i].edges
<1>2. /\ nodeWriter' = [n \in Ids |-> IF \E i \in DOMAIN adopted : n \in adopted[i].nodes
                                      THEN adopted[by(n)].writer ELSE nodeWriter[n]]
      /\ edgeWriter' = [e \in Edges |-> IF \E i \in DOMAIN adopted : e \in adopted[i].edges
                                        THEN adopted[from(e)].writer ELSE edgeWriter[e]]
    BY Zenon DEF AdoptFactWriters
<1>3. \A n : (\E i \in DOMAIN adopted : n \in adopted[i].nodes)
              => by(n) \in 1 .. k /\ n \in adopted[by(n)].nodes
    BY <1>1
<1>4. \A e : (\E i \in DOMAIN adopted : e \in adopted[i].edges)
              => from(e) \in 1 .. k /\ e \in adopted[from(e)].edges
    BY <1>1
<1> HIDE DEF by, from
<1> QED
    BY <1>2, <1>3, <1>4

\* The parts of updates have the types that the constants give them.
LEMMA UpdateTypes ==
    /\ \A u \in Updates : DOMAIN u.nodes \subseteq Ids /\ u.edges \subseteq Edges
                          /\ \A n \in DOMAIN u.nodes : u.nodes[n] \in Values
    /\ \A b \in Batches : /\ DOMAIN b.nodes \subseteq Ids /\ b.edges \subseteq Edges
                          /\ b.writer \in Writers
                          /\ \A n \in DOMAIN b.nodes : b.nodes[n] \in Values
    /\ \A c \in Changes : DOMAIN c \subseteq Ids
                          /\ \A n \in DOMAIN c : c[n] \in Contracts \cup {None}
    /\ \A a \in Assignments : a.writer \in Writers /\ a.nodes \subseteq Ids /\ a.edges \subseteq Edges
<1>1. \A R : \A g \in Partial(Ids, R) : DOMAIN g \subseteq Ids /\ \A n \in DOMAIN g : g[n] \in R
    BY DEF Partial
<1> QED
    BY <1>1, FactsAssumption

\* Every reachable state has the types of the graph's fields, for any ids,
\* writers and updates (graph.rs, Graph).
THEOREM FactsTypeCorrect == Spec => []FactsTypeOK
<1>1. Init => FactsTypeOK
    BY DEF Init, FactsTypeOK
<1>2. FactsTypeOK /\ [Next]_vars => FactsTypeOK'
    <2> SUFFICES ASSUME FactsTypeOK, [Next]_vars PROVE FactsTypeOK'
        OBVIOUS
    <2>1. ASSUME NEW u \in Updates, NEW changes \in Changes, ApplyResourceFacts(u, changes)
          PROVE  FactsTypeOK'
        <3>1. /\ DOMAIN u.nodes \subseteq Ids /\ u.edges \subseteq Edges
              /\ \A n \in DOMAIN u.nodes : u.nodes[n] \in Values
              /\ \A n \in DOMAIN changes : changes[n] \in Contracts \cup {None}
            BY UpdateTypes, Zenon
        <3>2. /\ facts' = Over(facts, u.nodes) /\ edges' = edges \cup u.edges
              /\ contract' = Over(contract, changes) /\ revision' = revision + 1
              /\ nodeWriter' = nodeWriter /\ edgeWriter' = edgeWriter /\ health' = health
            BY <2>1, Zenon DEF ApplyResourceFacts, Revised
        <3>3. Over(facts, u.nodes) \in [Ids -> Values \cup {None}]
            BY <3>1 DEF Over, FactsTypeOK
        <3>4. Over(contract, changes) \in [Ids -> Contracts \cup {None}]
            BY <3>1 DEF Over, FactsTypeOK
        <3> QED
            BY <3>1, <3>2, <3>3, <3>4 DEF FactsTypeOK
    <2>2. ASSUME NEW k \in 0 .. MaxBatches, NEW batches \in [1 .. k -> Batches],
                 NEW changes \in Changes, ApplyProviderFacts(batches, changes)
          PROVE  FactsTypeOK'
        <3>1. \A i \in 1 .. k : batches[i] \in Batches
            OBVIOUS
        <3>2. facts' = [n \in Ids |-> facts'[n]] /\ nodeWriter' = [n \in Ids |-> nodeWriter'[n]]
              /\ edgeWriter' = [e \in Edges |-> edgeWriter'[e]]
            BY <2>2, FragmentsApplied, Zenon
        <3>3. \A n \in Ids : /\ facts'[n] \in Values \cup {None}
                             /\ nodeWriter'[n] \in Writers \cup {None}
            <4>1. \A n \in Ids :
                      \/ \E i \in 1 .. k : /\ n \in DOMAIN batches[i].nodes
                                           /\ facts'[n] = batches[i].nodes[n]
                                           /\ nodeWriter'[n] = batches[i].writer
                      \/ facts'[n] = facts[n] /\ nodeWriter'[n] = nodeWriter[n]
                BY <2>2, FragmentsApplied, Zenon
            <4>2. \A i \in 1 .. k : /\ batches[i].writer \in Writers
                                    /\ \A n \in DOMAIN batches[i].nodes : batches[i].nodes[n] \in Values
                BY <3>1, UpdateTypes, Zenon
            <4>3. \A n \in Ids : facts[n] \in Values \cup {None} /\ nodeWriter[n] \in Writers \cup {None}
                BY DEF FactsTypeOK
            <4> QED
                BY <4>1, <4>2, <4>3, Zenon
        <3>4. \A e \in Edges : edgeWriter'[e] \in Writers \cup {None}
            <4>1. \A e \in Edges : \/ \E i \in 1 .. k : edgeWriter'[e] = batches[i].writer
                                  \/ edgeWriter'[e] = edgeWriter[e]
                BY <2>2, FragmentsApplied, Zenon
            <4>2. \A i \in 1 .. k : batches[i].writer \in Writers
                BY <3>1, UpdateTypes
            <4> QED
                BY <4>1, <4>2, Zenon DEF FactsTypeOK
        <3>5. /\ edges' = edges \cup EdgesOf(batches) /\ contract' = Over(contract, changes)
              /\ revision' = revision + 1 /\ health' = health
            BY <2>2, Zenon DEF ApplyProviderFacts, Revised
        <3>6. EdgesOf(batches) \subseteq Edges
            BY <3>1, UpdateTypes, Zenon DEF EdgesOf
        <3>7. contract' \in [Ids -> Contracts \cup {None}]
            BY <3>5, UpdateTypes, Zenon DEF Over, FactsTypeOK
        <3> QED
            BY <3>2, <3>3, <3>4, <3>5, <3>6, <3>7 DEF FactsTypeOK
    <2>3. ASSUME NEW k \in 0 .. MaxBatches, NEW adopted \in [1 .. k -> Assignments],
                 AdoptFactWriters(adopted)
          PROVE  FactsTypeOK'
        <3>1. \A i \in 1 .. k : adopted[i].writer \in Writers
            BY UpdateTypes, Zenon
        <3>2. nodeWriter' = [n \in Ids |-> nodeWriter'[n]]
              /\ edgeWriter' = [e \in Edges |-> edgeWriter'[e]]
              /\ UNCHANGED <<facts, edges, contract, health, revision>>
            BY <2>3 DEF AdoptFactWriters
        <3>3. /\ \A n \in Ids :
                     \/ \E i \in 1 .. k : nodeWriter'[n] = adopted[i].writer
                     \/ nodeWriter'[n] = nodeWriter[n]
              /\ \A e \in Edges :
                     \/ \E i \in 1 .. k : edgeWriter'[e] = adopted[i].writer
                     \/ edgeWriter'[e] = edgeWriter[e]
            BY <2>3, Adopted, Zenon
        <3>4. \A n \in Ids : nodeWriter'[n] \in Writers \cup {None}
            BY <3>1, <3>3 DEF FactsTypeOK
        <3>5. \A e \in Edges : edgeWriter'[e] \in Writers \cup {None}
            BY <3>1, <3>3 DEF FactsTypeOK
        <3> QED
            BY <3>2, <3>4, <3>5 DEF FactsTypeOK
    <2>4. ASSUME NEW n \in Ids, NEW h \in Healths, SetObservation(n, h)
          PROVE  FactsTypeOK'
        BY <2>4 DEF FactsTypeOK, SetObservation
    <2>5. CASE UNCHANGED vars
        BY <2>5 DEF FactsTypeOK, vars
    <2> QED
        BY <2>1, <2>2, <2>3, <2>4, <2>5 DEF Next
<1> QED
    BY <1>1, <1>2, PTL DEF Spec

\* Writers own only stored facts, contracts bind only positive capacity and
\* edges join stored nodes, for any number of fragments in an update
\* (apply_provider_facts, adopt_fact_writers, validate_claim_bindings).
THEOREM GroundedAlways == Spec => []Grounded
<1>1. Init => Grounded
    BY DEF Init, Grounded
<1>2. FactsTypeOK /\ FactsTypeOK' /\ Grounded /\ [Next]_vars => Grounded'
    <2> SUFFICES ASSUME FactsTypeOK, FactsTypeOK', Grounded, [Next]_vars PROVE Grounded'
        OBVIOUS
    <2>1. ASSUME NEW u \in Updates, NEW changes \in Changes, ApplyResourceFacts(u, changes)
          PROVE  Grounded'
        <3>1. \A n \in Ids : facts[n] # None => facts'[n] # None
            <4>1. facts' = [n \in Ids |-> IF n \in DOMAIN u.nodes THEN u.nodes[n] ELSE facts[n]]
                BY <2>1, Zenon DEF ApplyResourceFacts, Over
            <4>2. \A n \in DOMAIN u.nodes : u.nodes[n] # None
                BY UpdateTypes, FactsAssumption, Zenon
            <4> QED
                BY <4>1, <4>2
        <3>2. \A n \in Known(facts') : facts'[n] # None
            BY DEF Known
        <3>3. \A e \in edges' : facts'[e.from] # None /\ facts'[e.to] # None
            BY <2>1, <3>1, <3>2, Zenon DEF ApplyResourceFacts, Grounded, FactsTypeOK, Edges
        <3>4. \A n \in Ids : contract'[n] # None => facts'[n] \in Claimable
            BY <2>1 DEF ApplyResourceFacts, ContractsValid
        <3> QED
            BY <2>1, <3>1, <3>3, <3>4, Zenon DEF ApplyResourceFacts, Grounded
    <2>2. ASSUME NEW k \in 0 .. MaxBatches, NEW batches \in [1 .. k -> Batches],
                 NEW changes \in Changes, ApplyProviderFacts(batches, changes)
          PROVE  Grounded'
        <3> DEFINE named(n) == \E i \in 1 .. k : n \in DOMAIN batches[i].nodes
        <3>1. \A i \in 1 .. k : /\ DOMAIN batches[i].nodes \subseteq Ids
                                /\ \A n \in DOMAIN batches[i].nodes :
                                       batches[i].nodes[n] # None
            BY UpdateTypes, FactsAssumption
        <3>2. \A n \in Ids : facts[n] # None \/ named(n) => facts'[n] # None
            <4>1. \A n \in Ids :
                      \/ \E i \in 1 .. k : /\ n \in DOMAIN batches[i].nodes
                                           /\ facts'[n] = batches[i].nodes[n]
                                           /\ nodeWriter'[n] = batches[i].writer
                      \/ facts'[n] = facts[n] /\ nodeWriter'[n] = nodeWriter[n]
                BY <2>2, FragmentsApplied, Zenon
            <4>2. \A i \in 1 .. k : \A n \in Ids \cap DOMAIN batches[i].nodes :
                      \E m \in 1 .. k : /\ n \in DOMAIN batches[m].nodes
                                        /\ facts'[n] = batches[m].nodes[n]
                BY <2>2, FragmentsApplied, Zenon
            <4> QED
                BY <3>1, <4>1, <4>2, Zenon
        <3>3. \A n \in Ids : nodeWriter'[n] # None => facts'[n] # None
            <4>1. \A n \in Ids :
                      \/ \E i \in 1 .. k : /\ n \in DOMAIN batches[i].nodes
                                           /\ facts'[n] = batches[i].nodes[n]
                                           /\ nodeWriter'[n] = batches[i].writer
                      \/ facts'[n] = facts[n] /\ nodeWriter'[n] = nodeWriter[n]
                BY <2>2, FragmentsApplied, Zenon
            <4> QED
                BY <3>1, <4>1, Zenon DEF Grounded
        <3>4. DOMAIN batches = 1 .. k /\ edges' = edges \cup EdgesOf(batches)
            BY <2>2, Zenon DEF ApplyProviderFacts
        <3>5. \A e \in Edges : edgeWriter'[e] # None => e \in edges'
            <4>1. \A e \in Edges : \/ \E i \in 1 .. k : e \in batches[i].edges
                                  \/ edgeWriter'[e] = edgeWriter[e]
                BY <2>2, FragmentsApplied, Zenon
            <4>2. \A i \in 1 .. k : batches[i].edges \subseteq EdgesOf(batches)
                BY <3>4, Zenon DEF EdgesOf
            <4> QED
                BY <3>4, <4>1, <4>2, Zenon DEF Grounded
        <3>6. \A i \in 1 .. k : \A e \in batches[i].edges :
                  {e.from, e.to} \subseteq Known(facts) \cup NodesOf(batches, i)
            BY <2>2, <3>4, Zenon DEF ApplyProviderFacts
        <3>7. \A i \in 1 .. k : \A n \in NodesOf(batches, i) : n \in Ids /\ named(n)
            BY <3>1 DEF NodesOf
        <3>8. \A n \in Known(facts) : n \in Ids /\ facts[n] # None
            BY DEF Known
        <3>9. \A e \in EdgesOf(batches) : facts'[e.from] # None /\ facts'[e.to] # None
            <4> SUFFICES ASSUME NEW e \in EdgesOf(batches)
                         PROVE  facts'[e.from] # None /\ facts'[e.to] # None
                OBVIOUS
            <4>1. PICK i \in 1 .. k : e \in batches[i].edges
                BY <3>4 DEF EdgesOf
            <4>2. e.from \in Known(facts) \cup NodesOf(batches, i)
                  /\ e.to \in Known(facts) \cup NodesOf(batches, i)
                BY <4>1, <3>6
            <4> HIDE DEF named
            <4> QED
                BY <4>2, <3>2, <3>7, <3>8
        <3>10. \A e \in edges : facts'[e.from] # None /\ facts'[e.to] # None
            BY <3>2 DEF Grounded, FactsTypeOK, Edges
        <3>11. \A n \in Ids : contract'[n] # None => facts'[n] \in Claimable
            BY <2>2, Zenon DEF ApplyProviderFacts, ContractsValid
        <3> QED
            BY <3>3, <3>4, <3>5, <3>9, <3>10, <3>11 DEF Grounded
    <2>3. ASSUME NEW k \in 0 .. MaxBatches, NEW adopted \in [1 .. k -> Assignments],
                 AdoptFactWriters(adopted)
          PROVE  Grounded'
        <3>1. \A i \in 1 .. k : MayAdopt(adopted[i])
            BY <2>3 DEF AdoptFactWriters
        <3>2. UNCHANGED <<facts, edges, contract>>
            BY <2>3 DEF AdoptFactWriters
        <3>3. \A n \in Ids : nodeWriter'[n] # None => facts[n] # None
            BY <2>3, <3>1, Adopted, Zenon DEF MayAdopt, Grounded
        <3>4. \A e \in Edges : edgeWriter'[e] # None => e \in edges
            <4>1. \A e \in Edges : \/ \E i \in 1 .. k : e \in adopted[i].edges
                                  \/ edgeWriter'[e] = edgeWriter[e]
                BY <2>3, Adopted, Zenon
            <4> QED
                BY <3>1, <4>1, Zenon DEF MayAdopt, Grounded
        <3> QED
            BY <3>2, <3>3, <3>4, Zenon DEF Grounded
    <2>4. ASSUME NEW n \in Ids, NEW h \in Healths, SetObservation(n, h)
          PROVE  Grounded'
        BY <2>4 DEF Grounded, SetObservation
    <2>5. CASE UNCHANGED vars
        BY <2>5, Zenon DEF Grounded, vars
    <2> QED
        BY <2>1, <2>2, <2>3, <2>4, <2>5 DEF Next
<1> QED
    BY <1>1, <1>2, FactsTypeCorrect, PTL DEF Spec

\* A fact that has a writer keeps it through every update and adoption
\* (apply_provider_facts, adopt_fact_writers).
THEOREM WritersAreFinal == Spec => WriterIsFinal
<1>1. [Next]_vars => [WriterKept]_vars
    <2> SUFFICES ASSUME [Next]_vars PROVE WriterKept \/ UNCHANGED vars
        OBVIOUS
    <2>1. ASSUME NEW u \in Updates, NEW changes \in Changes, ApplyResourceFacts(u, changes)
          PROVE  WriterKept
        BY <2>1 DEF ApplyResourceFacts, WriterKept
    <2>2. ASSUME NEW k \in 0 .. MaxBatches, NEW batches \in [1 .. k -> Batches],
                 NEW changes \in Changes, ApplyProviderFacts(batches, changes)
          PROVE  WriterKept
        <3>1. \A i \in 1 .. k : MayWrite(batches[i])
            BY <2>2, Zenon DEF ApplyProviderFacts
        <3>2. \A n \in Ids : \/ \E i \in 1 .. k : /\ n \in DOMAIN batches[i].nodes
                                                 /\ nodeWriter'[n] = batches[i].writer
                             \/ nodeWriter'[n] = nodeWriter[n]
            BY <2>2, FragmentsApplied, Zenon
        <3>3. \A e \in Edges : \/ \E i \in 1 .. k : /\ e \in batches[i].edges
                                                   /\ edgeWriter'[e] = batches[i].writer
                               \/ edgeWriter'[e] = edgeWriter[e]
            BY <2>2, FragmentsApplied, Zenon
        <3> QED
            BY <3>1, <3>2, <3>3, Zenon DEF MayWrite, WriterKept
    <2>3. ASSUME NEW k \in 0 .. MaxBatches, NEW adopted \in [1 .. k -> Assignments],
                 AdoptFactWriters(adopted)
          PROVE  WriterKept
        <3>1. \A i \in 1 .. k : MayAdopt(adopted[i])
            BY <2>3 DEF AdoptFactWriters
        <3>2. /\ \A n \in Ids : \/ \E i \in 1 .. k : /\ n \in adopted[i].nodes
                                                    /\ nodeWriter'[n] = adopted[i].writer
                                \/ nodeWriter'[n] = nodeWriter[n]
              /\ \A e \in Edges : \/ \E i \in 1 .. k : /\ e \in adopted[i].edges
                                                      /\ edgeWriter'[e] = adopted[i].writer
                                  \/ edgeWriter'[e] = edgeWriter[e]
            BY <2>3, Adopted, Zenon
        <3> QED
            BY <3>1, <3>2, Zenon DEF MayAdopt, WriterKept
    <2>4. ASSUME NEW n \in Ids, NEW h \in Healths, SetObservation(n, h)
          PROVE  WriterKept
        BY <2>4 DEF SetObservation, WriterKept
    <2> QED
        BY <2>1, <2>2, <2>3, <2>4 DEF Next
<1> QED
    BY <1>1, PTL DEF Spec, WriterIsFinal

\* The facts of an owned node become only what its writer says, and once
\* anything is owned a fact that nobody owns does not change (apply,
\* apply_provider_facts).
THEOREM OwnersAlone == Spec => OnlyOwnersWrite
<1>1. [Next]_vars => [OwnedOrFrozen]_vars
    <2> SUFFICES ASSUME [Next]_vars PROVE OwnedOrFrozen \/ UNCHANGED vars
        OBVIOUS
    <2>1. ASSUME NEW u \in Updates, NEW changes \in Changes, ApplyResourceFacts(u, changes)
          PROVE  OwnedOrFrozen
        BY <2>1, Zenon DEF ApplyResourceFacts, Over, HasFactWriters, OwnedOrFrozen
    <2>2. ASSUME NEW k \in 0 .. MaxBatches, NEW batches \in [1 .. k -> Batches],
                 NEW changes \in Changes, ApplyProviderFacts(batches, changes)
          PROVE  OwnedOrFrozen
        <3>1. \A i \in 1 .. k : MayWrite(batches[i]) /\ batches[i] \in Batches
            BY <2>2, Zenon DEF ApplyProviderFacts
        <3> SUFFICES ASSUME NEW n \in Ids, facts'[n] # facts[n]
                     PROVE  /\ nodeWriter[n] # None =>
                                \E b \in Batches : /\ b.writer = nodeWriter[n]
                                                   /\ n \in DOMAIN b.nodes
                                                   /\ b.nodes[n] = facts'[n]
                            /\ nodeWriter[n] = None => facts[n] = None
            BY Zenon DEF OwnedOrFrozen
        <3>2. PICK i \in 1 .. k : /\ n \in DOMAIN batches[i].nodes
                                 /\ facts'[n] = batches[i].nodes[n]
            BY <2>2, FragmentsApplied, Zenon
        <3>3. nodeWriter[n] = batches[i].writer \/ (nodeWriter[n] = None /\ facts[n] = None)
            BY <3>1, <3>2 DEF MayWrite
        <3>4. CASE nodeWriter[n] = None /\ facts[n] = None
            BY <3>4
        <3>5. CASE nodeWriter[n] = batches[i].writer
            <4>1. batches[i].writer # None
                BY <3>1, UpdateTypes, FactsAssumption
            <4> QED
                BY <4>1, <3>1, <3>2, <3>5
        <3> QED
            BY <3>3, <3>4, <3>5
    <2>3. ASSUME NEW k \in 0 .. MaxBatches, NEW adopted \in [1 .. k -> Assignments],
                 AdoptFactWriters(adopted)
          PROVE  OwnedOrFrozen
        BY <2>3, Zenon DEF AdoptFactWriters, OwnedOrFrozen
    <2>4. ASSUME NEW n \in Ids, NEW h \in Healths, SetObservation(n, h)
          PROVE  OwnedOrFrozen
        BY <2>4 DEF SetObservation, OwnedOrFrozen
    <2> QED
        BY <2>1, <2>2, <2>3, <2>4 DEF Next
<1> QED
    BY <1>1, PTL DEF Spec, OnlyOwnersWrite

\* Ownership holds in every step (apply_provider_facts, adopt_fact_writers).
THEOREM OwnershipIsKept == Spec => OwnershipKept
<1>1. [WriterKept]_vars /\ [OwnedOrFrozen]_vars => [WriterKept /\ OwnedOrFrozen]_vars
    OBVIOUS
<1> QED
    BY <1>1, WritersAreFinal, OwnersAlone, PTL DEF WriterIsFinal, OnlyOwnersWrite, OwnershipKept

\* Facts, edges and contracts change only with the revision, which
\* observations and adoption leave alone (apply, adopt_fact_writers,
\* set_observation).
THEOREM RevisionIsExact == Spec => RevisionCountsFacts
<1>1. [Next]_vars => [RevisedWhenChanged]_vars
    BY Zenon DEF Next, ApplyResourceFacts, ApplyProviderFacts, AdoptFactWriters, SetObservation,
           Revised, RevisedWhenChanged
<1> QED
    BY <1>1, PTL DEF Spec, RevisionCountsFacts
=============================================================================
