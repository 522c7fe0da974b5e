---------------------------- MODULE ClusterProofs ----------------------------
(***************************************************************************)
(* The kernel's type invariant and the shape of its authority records, and *)
(* how authority comes and goes, for every value of the constants: an      *)
(* exclusive endpoint has one holder, which carries the newest fence ever  *)
(* issued for it, and what has ended stays ended; authority is never       *)
(* placed on what has retired, moves with no graph update, is not          *)
(* activated before every endpoint is prepared, and does not end without   *)
(* an order to every endpoint that holds it.                               *)
(***************************************************************************)
EXTENDS Cluster, TLAPS

USE DEF clock_vars, graph_vars, lease_vars, binding_vars, node_vars,
        OutsideLeases, OutsideBindings

-----------------------------------------------------------------------------
(* Typing of the helpers.                                                  *)

\* A resolved claim is a quantity of every node (resolve_claim).
LEMMA ResolvedClaims ==
    ASSUME graph \in Graphs, NEW c \in ClaimSets
    PROVE  ResolveClaim(c) \in Claims
BY ConstantsAssumption DEF ResolveClaim, Claims, Graph, Quantity

\* Moving leases to another state keeps their type.
LEMMA SetStatesType ==
    ASSUME lease_state \in [Leases -> LeaseState], NEW S, NEW keep,
           NEW st \in LeaseState
    PROVE  SetStates(S, keep, st) \in [Leases -> LeaseState]
BY DEF SetStates

\* An effect on an opened binding is typed (binding_effect).
LEMMA EffectType ==
    ASSUME TypeOK, NEW kind \in EffectKind, NEW b \in Bindings,
           bindings[b].node \in Nodes
    PROVE  EffectOn(kind, b) \in Effect
<1>1. graph.machine_of \in [Nodes -> Machines \cup {None}]
  BY ConstantsAssumption, Zenon DEF TypeOK, Graph
<1>2. EffectSession(bindings[b], agent_session[b]) \in Nat
  BY <1>1 DEF TypeOK, EffectSession
<1>3. bindings[b].fence \in Nat /\ epoch \in Nat
  BY Zenon DEF TypeOK, Binding
<1> QED
  BY <1>2, <1>3 DEF EffectOn, Effect

\* An opened binding names a lease and a node that exist.
LEMMA BoundTo ==
    ASSUME BindingsEnforceRoots, NEW b \in Bindings, binding_state[b] # "Absent"
    PROVE  /\ bindings[b].lease \in Leases
           /\ Exists(bindings[b].lease)
           /\ leases[bindings[b].lease].parent = None
           /\ bindings[b].node \in Nodes
           /\ bindings[b].node \in Claimed(leases[bindings[b].lease].claims)
           /\ bindings[b].provider \in Providers
BY DEF BindingsEnforceRoots, Claimed

\* So the effects on the open bindings of any leases are typed.
LEMMA BindingEffectsType ==
    ASSUME TypeOK, BindingsEnforceRoots, NEW kind \in EffectKind, NEW S
    PROVE  BindingEffects(kind, S) \subseteq Effect
<1> SUFFICES ASSUME NEW b \in Bindings, Open(b)
             PROVE  EffectOn(kind, b) \in Effect
  BY DEF BindingEffects
<1>1. bindings[b].node \in Nodes
  BY BoundTo DEF Open, OpenBinding
<1> QED  BY <1>1, EffectType

-----------------------------------------------------------------------------
(* Typing of the actions.                                                  *)

Shaped == TypeOK /\ AuthorityShape

\* The initial state is typed and empty.
LEMMA InitShaped == Init => Shaped
<1> SUFFICES ASSUME Init PROVE Shaped
  OBVIOUS
<1>1. NoLease \in Lease /\ NoTerms \in Terms /\ NoBinding \in Binding
  BY ConstantsAssumption
  DEF NoLease, NoTerms, NoBinding, Lease, Terms, Binding, Claims, Quantity,
      BindingScope
<1>2. TypeOK
  BY <1>1
  DEF Init, TypeOK, LeaseState, BindingState, NodeState
<1>3. AuthorityShape
  BY DEF Init, AuthorityShape, BindingsEnforceRoots, LeaseForest, NoLease
<1> QED  BY <1>2, <1>3 DEF Shaped

\* Commands on the clock, the graph and the nodes keep the types.
LEMMA KernelTypes ==
    ASSUME TypeOK
    PROVE  /\ \A t \in 0 .. MaxTime : SetNow(t) => TypeOK'
           /\ \A a \in AgreementInputs : SetAgreement(a) => TypeOK'
           /\ AdvanceEpoch => TypeOK'
           /\ \A g \in Graphs : ApplyResourceFacts(g) => TypeOK'
           /\ \A n \in ControlledNodes : NodeNext(n) => TypeOK'
           /\ \A p \in Providers, n \in Nodes, f \in 1 .. MaxFence :
                  AdvanceEndpointFence(p, n, f) => TypeOK'
           /\ \A m \in Machines, s \in 1 .. MaxSession :
                  SetAgentSession(m, s) => TypeOK'
<1>1. ASSUME NEW t \in 0 .. MaxTime, SetNow(t) PROVE TypeOK'
  BY <1>1 DEF TypeOK, SetNow
<1>2. ASSUME NEW a \in AgreementInputs, SetAgreement(a) PROVE TypeOK'
  BY <1>2, ConstantsAssumption DEF TypeOK, SetAgreement
<1>3. ASSUME AdvanceEpoch PROVE TypeOK'
  BY <1>3 DEF TypeOK, AdvanceEpoch
<1>4. ASSUME NEW g \in Graphs, ApplyResourceFacts(g) PROVE TypeOK'
  BY <1>4 DEF TypeOK, ApplyResourceFacts
<1>5. ASSUME NEW n \in Nodes, NEW st \in NodeState, SetNodeState(n, st)
      PROVE  TypeOK'
  BY <1>5 DEF TypeOK, SetNodeState
<1>6. ASSUME NEW n \in ControlledNodes, NodeNext(n) PROVE TypeOK'
  <2>1. n \in Nodes /\ "Quarantined" \in NodeState /\ "Schedulable" \in NodeState
    BY ConstantsAssumption DEF NodeState
  <2> QED
    BY <1>5, <1>6, <2>1 DEF NodeNext, QuarantineNode, UnquarantineNode
<1>7. ASSUME NEW p \in Providers, NEW n \in Nodes, NEW f \in 1 .. MaxFence,
             AdvanceEndpointFence(p, n, f)
      PROVE  TypeOK'
  BY <1>7 DEF TypeOK, AdvanceEndpointFence
<1>8. ASSUME NEW m \in Machines, NEW s \in 1 .. MaxSession, SetAgentSession(m, s)
      PROVE  TypeOK'
  <2>1. effects' \subseteq Effect
    BY <1>8, SMTT(40)
    DEF TypeOK, SetAgentSession, LiveMachineBindings, Effect, EffectKind, Binding
  <2>2. sessions' \in [Machines -> Nat]
    BY <1>8 DEF TypeOK, SetAgentSession
  <2> QED  BY <1>8, <2>1, <2>2, Zenon DEF TypeOK, SetAgentSession
<1> QED
  BY <1>1, <1>2, <1>3, <1>4, <1>6, <1>7, <1>8

\* Commands on leases keep the types.
LEMMA LeaseTypes ==
    ASSUME Shaped, NEW l \in Leases, LeaseNext(l)
    PROVE  TypeOK'
<1> USE DEF Shaped, AuthorityShape
<1>1. ASSUME NEW st \in LeaseState, NEW p \in Leases \cup {None},
             NEW claims \in Claims, NEW exp \in Nat, NEW dl \in Nat,
             NewLease(l, st, p, claims, exp, dl)
      PROVE  TypeOK'
  <2>1. leases' \in [Leases -> Lease]
    BY <1>1 DEF TypeOK, NewLease, Lease
  <2>2. terms' \in [Leases -> Terms]
    BY <1>1 DEF TypeOK, NewLease, Terms
  <2> QED  BY <1>1, <2>1, <2>2 DEF TypeOK, NewLease
<1>2. "Reserved" \in LeaseState /\ "Preparing" \in LeaseState
      /\ "Active" \in LeaseState /\ "Failed" \in LeaseState
      /\ "Released" \in LeaseState /\ "Revoked" \in LeaseState
      /\ "Expired" \in LeaseState /\ "Completed" \in LeaseState
  BY DEF LeaseState, LiveLease, EndedLease
<1>3. \A S : FenceEffects(S) \subseteq Effect /\ ReleaseEffects(S) \subseteq Effect
  BY BindingEffectsType DEF FenceEffects, ReleaseEffects, EffectKind
<1>4. ASSUME NEW keep, NEW st \in LeaseState, EndTree(l, keep, st),
             effects' \subseteq Effect, OutsideLeases
      PROVE  TypeOK'
  BY <1>4, SetStatesType, SMTT(40) DEF TypeOK, EndTree
<1>5. ASSUME NEW c \in ClaimSets, NEW exp \in Expiries, ReserveLease(l, c, exp)
      PROVE  TypeOK'
  BY <1>1, <1>2, <1>5, ResolvedClaims, ConstantsAssumption, Zenon
  DEF ReserveLease, TypeOK
<1>6. ASSUME NEW c \in ClaimSets, NEW exp \in Expiries,
             NEW p \in Leases \cup {None}, NEW dl \in Deadlines,
             OpenLease(l, c, p, exp, dl)
      PROVE  TypeOK'
  BY <1>1, <1>2, <1>6, ResolvedClaims, ConstantsAssumption, Zenon
  DEF OpenLease, TypeOK
<1>7. ASSUME NEW dl \in Deadlines, PromoteLease(l, dl) PROVE TypeOK'
  <2>1. terms' \in [Leases -> Terms]
    BY <1>7, ConstantsAssumption, Zenon DEF TypeOK, PromoteLease, Terms
  <2> QED  BY <1>2, <1>7, <2>1, Zenon DEF TypeOK, PromoteLease
<1>8. ASSUME NEW exp \in Expiries, RenewLease(l, exp) PROVE TypeOK'
  <2>1. terms' \in [Leases -> Terms]
    BY <1>8, ConstantsAssumption, Zenon DEF TypeOK, RenewLease, Terms
  <2> QED  BY <1>8, <2>1, Zenon DEF TypeOK, RenewLease
<1>9. ASSUME NEW final \in {"Completed", "Failed"}, CompleteLease(l, final)
      PROVE  TypeOK'
  <2>1. final \in LeaseState
    BY <1>2, Zenon
  <2> QED  BY <1>3, <1>4, <1>9, <2>1 DEF CompleteLease, TypeOK
<1>10. CASE ActivateLease(l)
  BY <1>2, <1>10, ZenonT(40) DEF TypeOK, ActivateLease
<1>11. CASE FailLease(l)
  BY <1>2, <1>3, <1>4, <1>11 DEF FailLease
<1>12. CASE ReleaseLease(l)
  BY <1>2, <1>3, <1>12 DEF TypeOK, ReleaseLease
<1>13. CASE RevokeLease(l)
  BY <1>2, <1>3, <1>4, <1>13, Zenon DEF RevokeLease
<1>14. CASE ExpireLease(l)
  BY <1>2, <1>3, <1>4, <1>14 DEF ExpireLease, TypeOK
<1> QED
  BY <1>5, <1>6, <1>7, <1>8, <1>9, <1>10, <1>11, <1>12, <1>13, <1>14, Zenon
  DEF LeaseNext

\* Commands on bindings keep the types.
LEMMA BindingTypes ==
    ASSUME Shaped, NEW b \in Bindings, BindingNext(b)
    PROVE  TypeOK'
<1> USE DEF Shaped, AuthorityShape
<1>1. \A st \in OpenBinding \cup ClosedBinding : st \in BindingState
  BY Zenon DEF BindingState
<1>2. ASSUME binding_state[b] # "Absent", NEW kind \in EffectKind
      PROVE  {EffectOn(kind, b)} \subseteq Effect
  BY <1>2, BoundTo, EffectType
<1>3. ASSUME NEW kind \in EffectKind, Send(kind, b), binding_state[b] # "Absent"
      PROVE  TypeOK'
  BY <1>2, <1>3 DEF TypeOK, Send
<1>4. ASSUME NEW l \in Leases, NEW n \in Nodes, OpenNewBinding(b, l, n)
      PROVE  TypeOK'
  <2> DEFINE k == graph.contract[n]
             m == graph.machine_of[n]
             f == NextFence(b, n, k)
  <2>1. k \in Contract /\ m \in Machines
    BY <1>4, ConstantsAssumption DEF TypeOK, OpenNewBinding, Graph
  <2>2. k.provider \in Providers /\ k.scope \in BindingScope
    BY <2>1, ZenonT(40) DEF Contract
  <2>3. f \in Nat
    BY <2>2, ConstantsAssumption DEF TypeOK, NextFence
  <2>4. bindings' \in [Bindings -> Binding]
    BY <1>4, <2>2, <2>3, Zenon DEF TypeOK, OpenNewBinding, Binding
  <2>5. last_fence' \in [Providers \X Nodes -> Nat]
    BY <1>4, <2>2, <2>3, ZenonT(40) DEF TypeOK, OpenNewBinding
  <2>6. effects' \subseteq Effect
    BY <1>4, <2>1, <2>3 DEF TypeOK, OpenNewBinding, Effect, EffectKind
  <2>7. binding_state' \in [Bindings -> BindingState]
        /\ agent_session' \in [Bindings -> Nat]
    BY <1>1, <1>4, <2>1, Zenon DEF TypeOK, OpenNewBinding, OpenBinding
  <2> QED
    BY <1>4, <2>4, <2>5, <2>6, <2>7, ZenonT(40) DEF TypeOK, OpenNewBinding
<1>5. CASE RetryOpenBinding(b)
  BY <1>3, <1>5 DEF RetryOpenBinding, EffectKind
<1>6. CASE FenceBinding(b)
  BY <1>3, <1>6 DEF FenceBinding, EffectKind, OpenBinding
<1>7. CASE ReleaseBinding(b)
  BY <1>3, <1>7, Zenon DEF ReleaseBinding, EffectKind, OpenBinding
<1>8. CASE ActivateBinding(b)
  BY <1>1, <1>2, <1>8, Zenon DEF TypeOK, ActivateBinding, EffectKind, OpenBinding
<1>9. CASE FailBinding(b)
  BY <1>1, <1>2, <1>9 DEF TypeOK, FailBinding, EffectKind, OpenBinding, Open
<1>10. ASSUME NEW s \in 1 .. MaxSession, NEW st \in BindingState,
              Record(b, s, st)
       PROVE  /\ binding_state' \in [Bindings -> BindingState]
              /\ agent_session' \in [Bindings -> Nat]
              /\ UNCHANGED <<bindings, last_fence>>
  BY <1>10 DEF TypeOK, Record
<1>11. ASSUME NEW s \in 1 .. MaxSession, RebindSession(b, s)
       PROVE  TypeOK'
  BY <1>10, <1>11, Zenon DEF TypeOK, RebindSession
<1>12. ASSUME NEW s \in 1 .. MaxSession, NEW f, RecordPrepared(b, s, f)
       PROVE  TypeOK'
  BY <1>10, <1>12, Zenon DEF TypeOK, RecordPrepared
<1>13. ASSUME NEW s \in 1 .. MaxSession, NEW f,
              RecordActive(b, s, f) \/ RecordReleased(b, s, f)
                  \/ RecordFenced(b, s, f)
       PROVE  TypeOK'
  BY <1>1, <1>10, <1>13
  DEF TypeOK, RecordActive, RecordReleased, RecordFenced, OpenBinding,
      ClosedBinding
<1>14. ASSUME NEW s \in 1 .. MaxSession, NEW f, RecordFailed(b, s, f)
       PROVE  TypeOK'
  <2>1. FailedState(b) \in BindingState
    BY <1>1 DEF TypeOK, FailedState, OpenBinding
  <2>2. effects' \subseteq Effect
    BY <1>14, BindingEffectsType, Zenon DEF RecordFailed, FenceEffects, EffectKind
  <2>3. lease_state' \in [Leases -> LeaseState]
    <3>1. "Failed" \in LeaseState
      BY DEF LeaseState, EndedLease
    <3> QED  BY <1>14, <3>1, SetStatesType DEF TypeOK, RecordFailed
  <2> QED
    BY <1>10, <1>14, <2>1, <2>2, <2>3, Zenon DEF TypeOK, RecordFailed
<1> QED
  BY <1>4, <1>5, <1>6, <1>7, <1>8, <1>9, <1>11, <1>12, <1>13, <1>14
  DEF BindingNext, Acknowledge

-----------------------------------------------------------------------------
(* The shape of the authority records.                                     *)

\* The records keep their shape while no lease or binding is opened.
LEMMA ShapeKept ==
    ASSUME Shaped, UNCHANGED <<leases, bindings>>,
           \A l \in Leases : Exists(l) => Exists(l)',
           \A b \in Bindings : binding_state[b] = "Absent"
                                  <=> binding_state'[b] = "Absent"
    PROVE  AuthorityShape'
<1>1. BindingsEnforceRoots'
  BY DEF Shaped, AuthorityShape, BindingsEnforceRoots, Claimed, NoBinding
<1>2. LeaseForest'
  BY DEF Shaped, AuthorityShape, LeaseForest, TypeOK, Lease
<1> QED  BY <1>1, <1>2, ZenonT(40) DEF AuthorityShape

\* A new lease is a root or the child of an active lease, and nothing refers
\* to it yet.
LEMMA ShapeOfNewLease ==
    ASSUME Shaped, NEW l \in Leases, ~Exists(l),
           NEW st \in LiveLease, NEW p \in Leases \cup {None},
           NEW claims, NEW exp, NEW dl,
           p # None => lease_state[p] = "Active",
           NewLease(l, st, p, claims, exp, dl)
    PROVE  AuthorityShape'
<1> USE DEF Shaped, AuthorityShape
<1>1. \A x \in Leases : Exists(x) => Exists(x)'
  BY Zenon DEF NewLease, Exists, LiveLease, TypeOK
<1>2. \A x \in Leases : x # l => leases'[x] = leases[x]
  BY Zenon DEF NewLease, TypeOK
<1>3. Exists(l)' /\ leases'[l].parent = p
  BY DEF NewLease, Exists, LiveLease, TypeOK
<1>4. BindingsEnforceRoots'
  <2>1. UNCHANGED <<bindings, binding_state>>
    BY DEF NewLease
  <2>2. ASSUME NEW b \in Bindings, binding_state[b] # "Absent"
        PROVE  /\ lease_state'[bindings[b].lease] # "Absent"
               /\ leases'[bindings[b].lease] = leases[bindings[b].lease]
    BY <1>1, <1>2, <2>2, BoundTo, Zenon DEF Exists
  <2> QED
    BY <2>1, <2>2, Zenon DEF BindingsEnforceRoots, Exists, Claimed, NoBinding
<1>5. LeaseForest'
  <2> SUFFICES ASSUME NEW x \in Leases, leases'[x].parent # None
               PROVE  lease_state'[x] # "Absent" /\ lease_state'[leases'[x].parent] # "Absent"
    BY Zenon DEF LeaseForest, Exists
  <2>1. CASE x = l
    BY <1>1, <1>3, <2>1, Zenon DEF Exists
  <2>2. CASE x # l
    <3>1. leases'[x].parent = leases[x].parent
      BY <1>2, <2>2, Zenon
    <3>2. leases[x].parent \in Leases
      BY <3>1, Zenon DEF TypeOK, Lease
    <3>3. Exists(x) /\ Exists(leases[x].parent)
      BY <3>1, Zenon DEF LeaseForest
    <3> QED  BY <1>1, <3>1, <3>2, <3>3, Zenon DEF Exists
  <2> QED  BY <2>1, <2>2, Zenon
<1> QED  BY <1>4, <1>5, Zenon

\* Commands on leases keep the shape.
LEMMA LeaseShape ==
    ASSUME Shaped, NEW l \in Leases, LeaseNext(l)
    PROVE  AuthorityShape'
<1>1. ASSUME NEW c \in ClaimSets, NEW exp \in Expiries, ReserveLease(l, c, exp)
      PROVE  AuthorityShape'
  BY <1>1, ShapeOfNewLease, Zenon DEF ReserveLease, LiveLease
<1>2. ASSUME NEW c \in ClaimSets, NEW exp \in Expiries,
             NEW p \in Leases \cup {None}, NEW dl \in Deadlines,
             OpenLease(l, c, p, exp, dl)
      PROVE  AuthorityShape'
  <2>1. p # None => lease_state[p] = "Active"
    BY <1>2 DEF OpenLease, Delegable
  <2> QED  BY <1>2, <2>1, ShapeOfNewLease DEF OpenLease, LiveLease
<1>3. ASSUME UNCHANGED <<leases, bindings, binding_state>>,
             \A x \in Leases : Exists(x) => Exists(x)'
      PROVE  AuthorityShape'
  BY <1>3, ShapeKept
<1>4. ASSUME NEW keep, NEW st \in LeaseState \ {"Absent"}, EndTree(l, keep, st)
      PROVE  \A x \in Leases : Exists(x) => Exists(x)'
  BY <1>4, Zenon DEF EndTree, SetStates, Exists
<1>5. ASSUME NEW dl \in Deadlines, PromoteLease(l, dl) PROVE AuthorityShape'
  BY <1>3, <1>5, Zenon DEF PromoteLease, Exists, Shaped, TypeOK
<1>6. ASSUME NEW exp \in Expiries, RenewLease(l, exp) PROVE AuthorityShape'
  BY <1>3, <1>6, Zenon DEF RenewLease, Exists
<1>7. ASSUME NEW final \in {"Completed", "Failed"}, CompleteLease(l, final)
      PROVE  AuthorityShape'
  <2>1. CASE UNCHANGED lease_vars
    BY <1>3, <1>7, <2>1, Zenon DEF CompleteLease, Exists
  <2>2. CASE EndTree(l, EndedLease \cup {"Completed"}, final)
    <3>1. \A x \in Leases : Exists(x) => Exists(x)'
      BY <1>4, <2>2, Zenon DEF LeaseState, EndedLease
    <3> QED  BY <1>3, <1>7, <2>2, <3>1 DEF CompleteLease, EndTree
  <2> QED  BY <1>7, <2>1, <2>2, Zenon DEF CompleteLease
<1>8. CASE ActivateLease(l)
  BY <1>3, <1>8, Zenon DEF ActivateLease, Exists, Shaped, TypeOK
<1>9. CASE FailLease(l)
  <2>1. \A x \in Leases : Exists(x) => Exists(x)'
    BY <1>4, <1>9, Zenon DEF FailLease, LeaseState, EndedLease
  <2> QED  BY <1>3, <1>9, <2>1, Zenon DEF FailLease, EndTree
<1>10. CASE ReleaseLease(l)
  BY <1>3, <1>10, Zenon DEF ReleaseLease, Exists, Shaped, TypeOK
<1>11. CASE RevokeLease(l)
  <2>1. \A x \in Leases : Exists(x) => Exists(x)'
    BY <1>4, <1>11, Zenon DEF RevokeLease, LeaseState, EndedLease
  <2> QED  BY <1>3, <1>11, <2>1, Zenon DEF RevokeLease, EndTree
<1>12. CASE ExpireLease(l)
  <2>1. CASE UNCHANGED lease_vars
    BY <1>3, <1>12, <2>1, Zenon DEF ExpireLease, Exists
  <2>2. CASE EndTree(l, EndedLease, "Expired")
    <3>1. \A x \in Leases : Exists(x) => Exists(x)'
      BY <1>4, <2>2, ZenonT(40) DEF LeaseState, EndedLease
    <3> QED  BY <1>3, <1>12, <2>2, <3>1 DEF ExpireLease, EndTree
  <2> QED  BY <1>12, <2>1, <2>2, ZenonT(40) DEF ExpireLease
<1> QED
  BY <1>1, <1>2, <1>5, <1>6, <1>7, <1>8, <1>9, <1>10, <1>11, <1>12 DEF LeaseNext

\* Commands on bindings keep the shape.
LEMMA BindingShape ==
    ASSUME Shaped, NEW b \in Bindings, BindingNext(b)
    PROVE  AuthorityShape'
<1>1. ASSUME NEW l \in Leases, NEW n \in Nodes, OpenNewBinding(b, l, n)
      PROVE  AuthorityShape'
  <2>1. graph.contract[n].provider \in Providers
    BY <1>1, ConstantsAssumption
    DEF Shaped, TypeOK, OpenNewBinding, Graph, Contract
  <2>2. /\ bindings'[b].lease = l /\ bindings'[b].node = n
        /\ bindings'[b].provider \in Providers
        /\ binding_state'[b] # "Absent"
        /\ \A x \in Bindings : x # b => /\ bindings'[x] = bindings[x]
                                        /\ binding_state'[x] = binding_state[x]
    BY <1>1, <2>1, Zenon DEF Shaped, TypeOK, OpenNewBinding
  <2>3. Exists(l) /\ leases[l].parent = None /\ n \in Claimed(leases[l].claims)
    BY <1>1, Zenon DEF OpenNewBinding, Bindable, Exists
  <2>4. UNCHANGED <<lease_state, leases>>
    BY <1>1, Zenon DEF OpenNewBinding, OutsideBindings, lease_vars
  <2>5. BindingsEnforceRoots'
    <3>1. ASSUME NEW x \in Bindings, x # b
          PROVE  UNCHANGED <<bindings[x], binding_state[x]>>
      BY <2>2, <3>1, Zenon
    <3>2. ASSUME NEW x \in Bindings, binding_state'[x] # "Absent"
          PROVE  LET y == bindings'[x]
                 IN  /\ y.lease \in Leases /\ lease_state[y.lease] # "Absent"
                     /\ leases[y.lease].parent = None
                     /\ leases[y.lease].claims[y.node] # 0 /\ y.node \in Nodes
                     /\ y.provider \in Providers
      BY <2>2, <2>3, <3>1, <3>2, Zenon
      DEF Shaped, AuthorityShape, BindingsEnforceRoots, Exists, Claimed
    <3>3. ASSUME NEW x \in Bindings, binding_state'[x] = "Absent"
          PROVE  bindings'[x] = NoBinding
      BY <2>2, <3>1, <3>3, Zenon DEF Shaped, AuthorityShape, BindingsEnforceRoots
    <3> QED  BY <2>4, <3>2, <3>3, Zenon DEF BindingsEnforceRoots, Exists, Claimed
  <2>6. LeaseForest'
    BY <2>4, Zenon DEF Shaped, AuthorityShape, LeaseForest, Exists
  <2> QED  BY <2>5, <2>6, ZenonT(40) DEF AuthorityShape
<1>2. ASSUME UNCHANGED <<leases, bindings>>,
             binding_state[b] # "Absent", binding_state'[b] # "Absent",
             \A x \in Bindings \ {b} : binding_state'[x] = binding_state[x],
             \A x \in Leases : Exists(x) => Exists(x)'
      PROVE  AuthorityShape'
  BY <1>2, ShapeKept, Zenon
<1>3. ASSUME NEW kind, Send(kind, b), binding_state[b] # "Absent"
      PROVE  AuthorityShape'
  BY <1>2, <1>3 DEF Send, Exists
<1>4. CASE RetryOpenBinding(b) \/ FenceBinding(b) \/ ReleaseBinding(b)
  BY <1>3, <1>4, Zenon DEF RetryOpenBinding, FenceBinding, ReleaseBinding, OpenBinding
<1>5. CASE ActivateBinding(b)
  BY <1>2, <1>5, Zenon DEF ActivateBinding, Exists, Shaped, TypeOK
<1>6. CASE FailBinding(b)
  BY <1>2, <1>6, Zenon DEF FailBinding, Open, OpenBinding, Exists, Shaped, TypeOK
<1>7. ASSUME NEW s, NEW st, Record(b, s, st)
      PROVE  /\ binding_state'[b] = st
             /\ \A x \in Bindings \ {b} : binding_state'[x] = binding_state[x]
             /\ UNCHANGED bindings
  BY <1>7 DEF Record, Shaped, TypeOK
<1>8. ASSUME NEW s, RebindSession(b, s) PROVE AuthorityShape'
  BY <1>2, <1>7, <1>8, Zenon DEF RebindSession, Exists
<1>9. ASSUME NEW s, NEW f,
             RecordPrepared(b, s, f) \/ RecordActive(b, s, f)
                 \/ RecordReleased(b, s, f) \/ RecordFenced(b, s, f)
      PROVE  AuthorityShape'
  <2>1. binding_state[b] # "Absent" /\ UNCHANGED <<leases, lease_state>>
    BY <1>9, ZenonT(40)
    DEF RecordPrepared, RecordActive, RecordReleased, RecordFenced, Acknowledged,
        OutsideBindings, lease_vars
  <2>2. PICK st : Record(b, s, st) /\ st # "Absent"
    BY <1>9 DEF RecordPrepared, RecordActive, RecordReleased, RecordFenced
  <2>3. \A x \in Leases : Exists(x) => Exists(x)'
    BY <2>1 DEF Exists
  <2> QED  BY <1>2, <1>7, <2>1, <2>2, <2>3, Zenon
<1>10. ASSUME NEW s, NEW f, RecordFailed(b, s, f) PROVE AuthorityShape'
  <2>1. \A x \in Leases : Exists(x) => Exists(x)'
    BY <1>10, Zenon DEF RecordFailed, SetStates, Exists
  <2>2. binding_state[b] # "Absent" /\ FailedState(b) # "Absent"
    BY <1>10, Zenon DEF RecordFailed, Acknowledged, FailedState
  <2> QED
    BY <1>2, <1>7, <1>10, <2>1, <2>2, Zenon DEF RecordFailed
<1> QED
  BY <1>1, <1>4, <1>5, <1>6, <1>8, <1>9, <1>10 DEF BindingNext, Acknowledge

\* Every step of the kernel keeps the types and the shape.
LEMMA NextShaped == Shaped /\ [Next]_vars => Shaped'
<1> SUFFICES ASSUME Shaped, [Next]_vars PROVE Shaped'
  OBVIOUS
<1>1. CASE UNCHANGED vars
  BY <1>1, Zenon
  DEF vars, Shaped, TypeOK, AuthorityShape, BindingsEnforceRoots, LeaseForest,
      Exists, Claimed
<1>2. CASE \E l \in Leases : LeaseNext(l)
  BY <1>2, LeaseTypes, LeaseShape DEF Shaped
<1>3. CASE \E b \in Bindings : BindingNext(b)
  BY <1>3, BindingTypes, BindingShape DEF Shaped
<1>4. ASSUME UNCHANGED <<lease_vars, binding_vars>> PROVE AuthorityShape'
  BY <1>4, ShapeKept DEF Exists
<1>5. CASE \/ \E t \in 0 .. MaxTime : SetNow(t)
           \/ \E a \in AgreementInputs : SetAgreement(a)
           \/ AdvanceEpoch
           \/ \E g \in Graphs : ApplyResourceFacts(g)
           \/ \E n \in ControlledNodes : NodeNext(n)
           \/ \E p \in Providers, n \in Nodes, f \in 1 .. MaxFence :
                  AdvanceEndpointFence(p, n, f)
           \/ \E m \in Machines, s \in 1 .. MaxSession : SetAgentSession(m, s)
  <2>1. UNCHANGED <<lease_vars, binding_vars>>
    BY <1>5, Zenon
    DEF SetNow, SetAgreement, AdvanceEpoch, ApplyResourceFacts, NodeNext,
        QuarantineNode, UnquarantineNode, SetNodeState, AdvanceEndpointFence,
        SetAgentSession
  <2>2. TypeOK'
    BY <1>5, KernelTypes DEF Shaped
  <2> QED  BY <1>4, <2>1, <2>2 DEF Shaped
<1> QED
  BY <1>1, <1>2, <1>3, <1>5 DEF Next

-----------------------------------------------------------------------------

\* The type invariant holds in every reachable state.
THEOREM TypeCorrect == Spec => []TypeOK
<1>1. Shaped => TypeOK
  BY DEF Shaped
<1> QED  BY <1>1, InitShaped, NextShaped, PTL DEF Spec

\* Every binding enforces one claim of one root lease, and every delegated
\* lease has an opened parent, in every reachable state (open_binding,
\* open_lease).
THEOREM AuthorityShapeCorrect == Spec => []AuthorityShape
<1>1. Shaped => AuthorityShape
  BY DEF Shaped
<1> QED  BY <1>1, InitShaped, NextShaped, PTL DEF Spec

-----------------------------------------------------------------------------
(* Endpoints and fences.                                                   *)

Endpoint(b) == <<bindings[b].provider, bindings[b].node>>

\* The strengthening: the watermark of an endpoint covers the fence of every
\* exclusive binding ever opened on it, closed or not.
FencesCovered ==
    \A b \in Bindings :
        binding_state[b] # "Absent" /\ bindings[b].scope = "Exclusive"
            => bindings[b].fence <= last_fence[Endpoint(b)]

FenceInv == Shaped /\ ExclusiveEndpoint /\ OpenHasNewestFence /\ FencesCovered

\* What every step but the opening of a binding does to the bindings: records
\* stay, nothing opens, watermarks do not fall.
Settles ==
    /\ bindings' = bindings
    /\ \A b \in Bindings : Open(b)' => Open(b)
    /\ \A b \in Bindings : binding_state'[b] # "Absent"
                               => binding_state[b] # "Absent"
    /\ last_fence' \in [Providers \X Nodes -> Nat]
    /\ \A k \in Providers \X Nodes : last_fence[k] <= last_fence'[k]

\* The endpoint of an opened binding is one the watermarks know.
LEMMA EndpointType ==
    ASSUME Shaped, NEW b \in Bindings, binding_state[b] # "Absent"
    PROVE  /\ Endpoint(b) \in Providers \X Nodes
           /\ last_fence[Endpoint(b)] \in Nat
           /\ bindings[b].fence \in Nat
<1>1. Endpoint(b) \in Providers \X Nodes
  BY BoundTo DEF Endpoint, Shaped, AuthorityShape
<1> QED  BY <1>1 DEF Shaped, TypeOK, Binding

\* Steps that open nothing keep the fences in order.
LEMMA SettlesKeepsFences ==
    ASSUME FenceInv, Settles
    PROVE  ExclusiveEndpoint' /\ OpenHasNewestFence' /\ FencesCovered'
<1>1. \A b \in Bindings : Endpoint(b)' = Endpoint(b)
  BY DEF Settles, Endpoint
<1>2. ExclusiveEndpoint'
  BY DEF FenceInv, Settles, ExclusiveEndpoint, SameEndpoint
<1>3. ASSUME NEW b \in Bindings, binding_state'[b] # "Absent",
             bindings[b].scope = "Exclusive"
      PROVE  bindings[b].fence <= last_fence'[Endpoint(b)]
  <2>1. binding_state[b] # "Absent"
    BY <1>3 DEF Settles
  <2>2. bindings[b].fence <= last_fence[Endpoint(b)]
    BY <1>3, <2>1 DEF FenceInv, FencesCovered
  <2>3. /\ Endpoint(b) \in Providers \X Nodes
        /\ last_fence[Endpoint(b)] \in Nat /\ bindings[b].fence \in Nat
    BY <2>1, EndpointType DEF FenceInv
  <2>4. last_fence'[Endpoint(b)] \in Nat
        /\ last_fence[Endpoint(b)] <= last_fence'[Endpoint(b)]
    BY <2>3 DEF Settles
  <2> QED  BY <2>2, <2>3, <2>4
<1>4. FencesCovered'
  BY <1>1, <1>3 DEF FencesCovered, Settles
<1>5. OpenHasNewestFence'
  <2> SUFFICES ASSUME NEW b1 \in Bindings, Open(b1)',
                      bindings'[b1].scope = "Exclusive"
               PROVE  /\ bindings'[b1].fence <= last_fence'[Endpoint(b1)']
                      /\ \A b2 \in Bindings :
                             b2 # b1 /\ SameEndpoint(b1, b2)'
                                 /\ bindings'[b2].scope = "Exclusive"
                             => bindings'[b2].fence < bindings'[b1].fence
    BY DEF OpenHasNewestFence, Endpoint
  <2>1. Open(b1) /\ binding_state'[b1] # "Absent" /\ bindings' = bindings
    BY DEF Settles, Open, OpenBinding
  <2>2. bindings'[b1].fence <= last_fence'[Endpoint(b1)']
    BY <1>1, <1>3, <2>1
  <2>3. \A b2 \in Bindings :
            b2 # b1 /\ SameEndpoint(b1, b2)' /\ bindings'[b2].scope = "Exclusive"
            => bindings'[b2].fence < bindings'[b1].fence
    BY <2>1, Zenon DEF FenceInv, OpenHasNewestFence, SameEndpoint
  <2> QED  BY <2>2, <2>3
<1> QED  BY <1>2, <1>4, <1>5

\* Opening a binding issues a fence above all earlier ones of the endpoint,
\* and only when no open binding there excludes it.
LEMMA OpeningKeepsFences ==
    ASSUME FenceInv, Shaped', NEW b \in Bindings, NEW l \in Leases, NEW n \in Nodes,
           OpenNewBinding(b, l, n)
    PROVE  ExclusiveEndpoint' /\ OpenHasNewestFence' /\ FencesCovered'
<1> DEFINE k == graph.contract[n]
           e == <<k.provider, n>>
<1>0. Shaped /\ TypeOK
  BY ZenonT(40) DEF FenceInv, Shaped
<1>1. k \in Contract /\ k.provider \in Providers /\ k.scope \in BindingScope
      /\ e \in Providers \X Nodes
  BY <1>0, ConstantsAssumption DEF TypeOK, OpenNewBinding, Graph, Contract
<1>2. /\ binding_state[b] = "Absent"
      /\ bindings'[b].node = n /\ bindings'[b].provider = k.provider
      /\ bindings'[b].scope = k.scope
      /\ bindings'[b].fence = NextFence(b, n, k)
      /\ Endpoint(b)' = e
      /\ ~ConflictingEndpoint(n, k)
  BY <1>0, Zenon DEF TypeOK, OpenNewBinding, Endpoint
<1>3. \A x \in Bindings : x # b =>
          /\ bindings'[x] = bindings[x] /\ Endpoint(x)' = Endpoint(x)
          /\ binding_state'[x] = binding_state[x] /\ Open(x)' = Open(x)
  BY <1>0, Zenon DEF TypeOK, OpenNewBinding, Endpoint, Open
<1>4. /\ last_fence' \in [Providers \X Nodes -> Nat]
      /\ \A y \in Providers \X Nodes : last_fence[y] <= last_fence'[y]
      /\ k.scope = "Exclusive" =>
             /\ last_fence'[e] = last_fence[e] + 1
             /\ bindings'[b].fence = last_fence[e] + 1
  <2>0. last_fence \in [Providers \X Nodes -> Nat]
    BY <1>0, Zenon DEF TypeOK
  <2>1. CASE k.scope = "Exclusive"
    <3>1. last_fence' = [last_fence EXCEPT ![e] = last_fence[e] + 1]
      BY <2>1 DEF OpenNewBinding, NextFence
    <3>2. bindings'[b].fence = last_fence[e] + 1
      BY <1>2, <2>1, ZenonT(40) DEF NextFence
    <3> HIDE DEF e
    <3> QED  BY <1>1, <2>0, <3>1, <3>2, SMTT(40)
  <2>2. CASE k.scope # "Exclusive"
    <3>1. last_fence' = last_fence
      BY <2>2, Zenon DEF OpenNewBinding
    <3>2. \A y \in Providers \X Nodes : last_fence[y] <= last_fence[y]
      BY <2>0
    <3> QED  BY <2>0, <2>2, <3>1, <3>2, Zenon
  <2> QED  BY <2>1, <2>2, ZenonT(40)
<1>5. ExclusiveEndpoint'
  <2>1. ASSUME NEW x \in Bindings, x # b, Open(x), bindings[x].node = n,
               bindings[x].provider = k.provider
        PROVE  k.scope = "IndependentShare" /\ bindings[x].scope = "IndependentShare"
    <3>1. bindings[x].scope \in BindingScope
      BY <1>0 DEF TypeOK, Binding
    <3> QED
      BY <1>1, <1>2, <2>1, <3>1 DEF ConflictingEndpoint, BindingScope
  <2> SUFFICES ASSUME NEW x \in Bindings, NEW y \in Bindings, x # y,
                      Open(x)', Open(y)', SameEndpoint(x, y)'
               PROVE  /\ bindings'[x].scope = "IndependentShare"
                      /\ bindings'[y].scope = "IndependentShare"
    BY Zenon DEF ExclusiveEndpoint
  <2>2. CASE x = b
    BY <1>2, <1>3, <2>1, <2>2, Zenon DEF SameEndpoint
  <2>3. CASE y = b
    BY <1>2, <1>3, <2>1, <2>3, Zenon DEF SameEndpoint
  <2>4. CASE x # b /\ y # b
    BY <1>3, <2>4, Zenon DEF FenceInv, ExclusiveEndpoint, SameEndpoint
  <2> QED  BY <2>2, <2>3, <2>4
<1>6. FencesCovered'
  <2> SUFFICES ASSUME NEW x \in Bindings, binding_state'[x] # "Absent",
                      bindings'[x].scope = "Exclusive"
               PROVE  bindings'[x].fence <= last_fence'[Endpoint(x)']
    BY Zenon DEF FencesCovered
  <2>1. CASE x = b
    <3>1. last_fence[e] + 1 \in Nat
      BY <1>0, <1>1 DEF TypeOK
    <3> QED  BY <1>2, <1>4, <2>1, <3>1
  <2>2. CASE x # b
    <3>1. binding_state[x] # "Absent" /\ bindings[x].scope = "Exclusive"
      BY <1>3, <2>2
    <3>2. bindings[x].fence <= last_fence[Endpoint(x)]
      BY <3>1, Zenon DEF FenceInv, FencesCovered
    <3>3. /\ Endpoint(x) \in Providers \X Nodes
          /\ last_fence[Endpoint(x)] \in Nat /\ bindings[x].fence \in Nat
      BY <1>0, <3>1, EndpointType, Zenon
    <3>4. last_fence'[Endpoint(x)] \in Nat
          /\ last_fence[Endpoint(x)] <= last_fence'[Endpoint(x)]
      BY <1>4, <3>3
    <3>5. bindings'[x] = bindings[x] /\ Endpoint(x)' = Endpoint(x)
      BY <1>3, <2>2, Zenon
    <3> QED  BY <3>2, <3>3, <3>4, <3>5
  <2> QED  BY <2>1, <2>2
<1>7. OpenHasNewestFence'
  <2> SUFFICES ASSUME NEW b1 \in Bindings, Open(b1)',
                      bindings'[b1].scope = "Exclusive"
               PROVE  /\ bindings'[b1].fence <= last_fence'[Endpoint(b1)']
                      /\ \A b2 \in Bindings :
                             b2 # b1 /\ SameEndpoint(b1, b2)'
                                 /\ bindings'[b2].scope = "Exclusive"
                             => bindings'[b2].fence < bindings'[b1].fence
    BY Zenon DEF OpenHasNewestFence, Endpoint
  <2>1. bindings'[b1].fence <= last_fence'[Endpoint(b1)']
    BY <1>6, Zenon DEF FencesCovered, Open, OpenBinding
  <2>2. ASSUME NEW b2 \in Bindings, b2 # b1, SameEndpoint(b1, b2)',
               bindings'[b2].scope = "Exclusive"
        PROVE  bindings'[b2].fence < bindings'[b1].fence
    <3>1. CASE b1 # b /\ b2 # b
      BY <1>3, <2>2, <3>1, Zenon DEF FenceInv, OpenHasNewestFence, SameEndpoint
    <3>2. CASE b2 = b
      <4>1. Open(b1) /\ bindings[b1].node = n /\ bindings[b1].provider = k.provider
        BY <1>2, <1>3, <2>2, <3>2, Zenon DEF SameEndpoint
      <4> QED
        BY <1>2, <2>2, <3>2, <4>1, Zenon DEF ConflictingEndpoint
    <3>3. CASE b1 = b
      <4>1. bindings'[b2] = bindings[b2] /\ Endpoint(b2) = e
        BY <1>2, <1>3, <2>2, <3>3, ZenonT(40) DEF SameEndpoint, Endpoint
      <4>2. binding_state[b2] # "Absent"
        BY <1>0, <4>1, ConstantsAssumption
        DEF Shaped, AuthorityShape, BindingsEnforceRoots, NoBinding, Endpoint
      <4>3. bindings[b2].fence <= last_fence[e]
        BY <2>2, <4>1, <4>2, Zenon DEF FenceInv, FencesCovered
      <4>4. bindings[b2].fence \in Nat /\ last_fence[e] \in Nat
        BY <1>0, <4>1, <4>2, EndpointType, Zenon
      <4>5. bindings'[b].fence = last_fence[e] + 1
        BY <1>2, <1>4, <3>3
      <4> QED  BY <3>3, <4>1, <4>3, <4>4, <4>5
    <3> QED  BY <3>1, <3>2, <3>3
  <2> QED  BY <2>1, <2>2, Zenon
<1> QED  BY <1>5, <1>6, <1>7

-----------------------------------------------------------------------------
(* The actions.                                                            *)

\* Steps that leave bindings and fences alone settle them.
LEMMA BindingsUntouched ==
    ASSUME Shaped, UNCHANGED <<binding_state, bindings, last_fence>>
    PROVE  Settles
<1>1. last_fence \in [Providers \X Nodes -> Nat]
  BY DEF Shaped, TypeOK
<1>2. \A k \in Providers \X Nodes : last_fence[k] <= last_fence'[k]
  BY <1>1
<1> QED  BY <1>1, <1>2 DEF Settles, Open

\* Commands on leases leave the bindings alone and revive nothing.
LEMMA LeaseSettles ==
    ASSUME Shaped, NEW l \in Leases, LeaseNext(l)
    PROVE  Settles /\ StaysEnded
<1>0. TypeOK
  BY Zenon DEF Shaped
<1>1. UNCHANGED <<binding_state, bindings, last_fence>>
  <2> DEFINE Same == UNCHANGED <<binding_state, bindings, last_fence>>
  <2>1. ASSUME NEW c \in ClaimSets, NEW exp \in Expiries, ReserveLease(l, c, exp)
        PROVE  Same
    BY <2>1, Zenon DEF ReserveLease, NewLease
  <2>2. ASSUME NEW c \in ClaimSets, NEW exp \in Expiries,
               NEW p \in Leases \cup {None}, NEW dl \in Deadlines,
               OpenLease(l, c, p, exp, dl)
        PROVE  Same
    BY <2>2, Zenon DEF OpenLease, NewLease
  <2>3. ASSUME NEW dl \in Deadlines, PromoteLease(l, dl) PROVE Same
    BY <2>3 DEF PromoteLease
  <2>4. ASSUME NEW exp \in Expiries, RenewLease(l, exp) PROVE Same
    BY <2>4 DEF RenewLease
  <2>5. ASSUME NEW final \in {"Completed", "Failed"}, CompleteLease(l, final)
        PROVE  Same
    BY <2>5, Zenon DEF CompleteLease
  <2>6. CASE ActivateLease(l) \/ ReleaseLease(l)
    BY <2>6, Zenon DEF ActivateLease, ReleaseLease
  <2>7. CASE FailLease(l) \/ RevokeLease(l) \/ ExpireLease(l)
    BY <2>7 DEF FailLease, RevokeLease, ExpireLease
  <2> QED
    BY <2>1, <2>2, <2>3, <2>4, <2>5, <2>6, <2>7, Zenon DEF LeaseNext
<1> DEFINE Ended == \A x \in Leases : Exists(x) /\ lease_state[x] \notin LiveLease
                                         => lease_state'[x] \notin LiveLease
<1>2. ASSUME NEW keep, NEW st, st \notin LiveLease, EndTree(l, keep, st)
      PROVE  Ended
  BY <1>2, Zenon DEF EndTree, SetStates
<1>3. ASSUME NEW st, lease_state' = [lease_state EXCEPT ![l] = st],
             Exists(l) /\ lease_state[l] \notin LiveLease => st \notin LiveLease
      PROVE  Ended
  BY <1>0, <1>3 DEF TypeOK
<1>4. ASSUME UNCHANGED lease_state PROVE Ended
  BY <1>4, SMTT(40)
<1>5. Ended
  <2>1. ASSUME NEW c \in ClaimSets, NEW exp \in Expiries, ReserveLease(l, c, exp)
        PROVE  Ended
    BY <1>3, <2>1, Zenon DEF ReserveLease, NewLease
  <2>2. ASSUME NEW c \in ClaimSets, NEW exp \in Expiries,
               NEW p \in Leases \cup {None}, NEW dl \in Deadlines,
               OpenLease(l, c, p, exp, dl)
        PROVE  Ended
    BY <1>3, <2>2, Zenon DEF OpenLease, NewLease
  <2>3. ASSUME NEW dl \in Deadlines, PromoteLease(l, dl) PROVE Ended
    BY <1>3, <2>3, Zenon DEF PromoteLease, LiveLease
  <2>4. ASSUME NEW exp \in Expiries, RenewLease(l, exp) PROVE Ended
    BY <1>4, <2>4, Zenon DEF RenewLease
  <2>5. ASSUME NEW final \in {"Completed", "Failed"}, CompleteLease(l, final)
        PROVE  Ended
    BY <1>2, <1>4, <2>5, Zenon DEF CompleteLease, LiveLease
  <2>6. CASE ActivateLease(l)
    BY <1>3, <2>6, Zenon DEF ActivateLease, LiveLease
  <2>7. CASE FailLease(l)
    BY <1>2, <2>7, Zenon DEF FailLease, LiveLease
  <2>8. CASE ReleaseLease(l)
    BY <1>3, <2>8, Zenon DEF ReleaseLease, LiveLease
  <2>9. CASE RevokeLease(l)
    BY <1>2, <2>9, Zenon DEF RevokeLease, LiveLease
  <2>10. CASE ExpireLease(l)
    BY <1>2, <1>4, <2>10, Zenon DEF ExpireLease, LiveLease
  <2> QED
    BY <2>1, <2>2, <2>3, <2>4, <2>5, <2>6, <2>7, <2>8, <2>9, <2>10, Zenon DEF LeaseNext
<1> QED  BY <1>1, <1>5, BindingsUntouched DEF StaysEnded

\* Commands on bindings other than the opening settle and revive nothing.
LEMMA BindingSettles ==
    ASSUME Shaped, NEW b \in Bindings, BindingNext(b),
           ~ \E l \in Leases, n \in Nodes : OpenNewBinding(b, l, n)
    PROVE  Settles /\ StaysEnded
<1>0. TypeOK
  BY Zenon DEF Shaped
<1>1. ASSUME UNCHANGED <<lease_state, bindings, last_fence>>,
             binding_state[b] # "Absent",
             \A x \in Bindings : x # b => binding_state'[x] = binding_state[x],
             Open(b)' => Open(b),
             binding_state[b] \in ClosedBinding => binding_state'[b] \in ClosedBinding
      PROVE  Settles /\ StaysEnded
  <2>1. \A k \in Providers \X Nodes : last_fence[k] <= last_fence'[k]
    BY <1>0, <1>1 DEF TypeOK
  <2> QED  BY <1>0, <1>1, <2>1, Zenon DEF Settles, StaysEnded, TypeOK, Open
<1>2. ASSUME NEW kind, Send(kind, b), binding_state[b] # "Absent"
      PROVE  Settles /\ StaysEnded
  BY <1>1, <1>2 DEF Send, Open
<1>3. CASE RetryOpenBinding(b) \/ FenceBinding(b) \/ ReleaseBinding(b)
  BY <1>2, <1>3, Zenon DEF RetryOpenBinding, FenceBinding, ReleaseBinding, OpenBinding
<1>4. CASE ActivateBinding(b)
  BY <1>0, <1>1, <1>4, Zenon
  DEF ActivateBinding, TypeOK, Open, OpenBinding, ClosedBinding
<1>5. CASE FailBinding(b)
  BY <1>0, <1>1, <1>5, Zenon
  DEF FailBinding, TypeOK, Open, OpenBinding, ClosedBinding
<1>6. ASSUME NEW s, NEW st, Record(b, s, st)
      PROVE  /\ binding_state'[b] = st
             /\ \A x \in Bindings : x # b => binding_state'[x] = binding_state[x]
             /\ UNCHANGED <<bindings, last_fence>>
  <2>1. binding_state \in [Bindings -> BindingState]
    BY <1>0, Zenon DEF TypeOK
  <2> QED  BY <1>6, <2>1, Zenon DEF Record
<1>7. ASSUME NEW s, RebindSession(b, s) PROVE Settles /\ StaysEnded
  BY <1>1, <1>6, <1>7, ZenonT(40) DEF RebindSession, Open
<1>8. ASSUME NEW s, NEW f,
             RecordPrepared(b, s, f) \/ RecordActive(b, s, f)
                 \/ RecordReleased(b, s, f) \/ RecordFenced(b, s, f)
      PROVE  Settles /\ StaysEnded
  <2> DEFINE Moves(st) == Record(b, s, st)
  <2>0. binding_state[b] # "Absent" /\ OutsideBindings
    BY <1>8, Zenon DEF RecordPrepared, RecordActive, RecordReleased, RecordFenced, Acknowledged
  <2>1. \/ binding_state[b] \in {"Preparing", "Active"} /\ Moves(binding_state[b])
        \/ Moves("Released") \/ Moves("Fenced")
    <3>1. CASE RecordActive(b, s, f)
      BY <3>1, Zenon DEF RecordActive
    <3>2. CASE ~RecordActive(b, s, f)
      BY <1>8, <3>2, Zenon DEF RecordPrepared, RecordReleased, RecordFenced
    <3> QED  BY <3>1, <3>2, Zenon
  <2>2. PICK st : /\ Moves(st)
                  /\ \/ binding_state[b] \in {"Preparing", "Active"} /\ st = binding_state[b]
                     \/ st \in {"Released", "Fenced"}
    <3> HIDE DEF Moves
    <3> QED  BY <2>1, Zenon
  <2>3. /\ binding_state'[b] = st
        /\ \A x \in Bindings : x # b => binding_state'[x] = binding_state[x]
        /\ UNCHANGED <<bindings, last_fence>>
    BY <1>6, <2>2, Zenon
  <2>4. Open(b)' => Open(b)
    BY <2>2, <2>3 DEF Open, OpenBinding
  <2>5. binding_state[b] \in ClosedBinding => binding_state'[b] \in ClosedBinding
    BY <2>2, <2>3 DEF ClosedBinding
  <2>6. lease_state' = lease_state
    BY <2>0 DEF OutsideBindings
  <2> QED  BY <1>1, <2>0, <2>3, <2>4, <2>5, <2>6, Zenon
<1>9. ASSUME NEW s, NEW f, RecordFailed(b, s, f) PROVE Settles /\ StaysEnded
  <2>1. /\ binding_state[b] # "Absent"
        /\ binding_state'[b] = FailedState(b)
        /\ \A x \in Bindings : x # b => binding_state'[x] = binding_state[x]
        /\ UNCHANGED <<bindings, last_fence>>
    BY <1>6, <1>9, ZenonT(40) DEF RecordFailed, Acknowledged
  <2>2. \A x \in Leases : lease_state[x] \notin LiveLease
                             => lease_state'[x] \notin LiveLease
    BY <1>9 DEF RecordFailed, SetStates, LiveLease
  <2>3. Open(b)' => Open(b)
    BY <2>1, Zenon DEF FailedState, Open
  <2>4. binding_state[b] \in ClosedBinding => binding_state'[b] \in ClosedBinding
    BY <2>1, Zenon DEF FailedState, Open, OpenBinding, ClosedBinding
  <2>5. \A k \in Providers \X Nodes : last_fence[k] <= last_fence'[k]
    BY <1>0, <2>1 DEF TypeOK
  <2> QED
    BY <1>0, <2>1, <2>2, <2>3, <2>4, <2>5 DEF Settles, StaysEnded, TypeOK, Open
<1> QED
  BY <1>3, <1>4, <1>5, <1>7, <1>8, <1>9 DEF BindingNext, Acknowledge

\* Every step settles the bindings, or opens one.
LEMMA NextSettles ==
    ASSUME Shaped, [Next]_vars
    PROVE  \/ Settles /\ StaysEnded
           \/ \E b \in Bindings, l \in Leases, n \in Nodes : OpenNewBinding(b, l, n)
<1>0. TypeOK
  BY DEF Shaped
<1>1. ASSUME UNCHANGED <<lease_state, binding_state, bindings, last_fence>>
      PROVE  Settles /\ StaysEnded
  BY <1>1, BindingsUntouched, Zenon DEF StaysEnded
<1>2. CASE UNCHANGED vars
  BY <1>1, <1>2 DEF vars
<1>3. CASE \E l \in Leases : LeaseNext(l)
  BY <1>3, LeaseSettles
<1>4. CASE \E b \in Bindings : BindingNext(b)
  BY <1>4, BindingSettles
<1>5. CASE \/ \E t \in 0 .. MaxTime : SetNow(t)
           \/ \E a \in AgreementInputs : SetAgreement(a)
           \/ AdvanceEpoch
           \/ \E g \in Graphs : ApplyResourceFacts(g)
           \/ \E n \in ControlledNodes : NodeNext(n)
           \/ \E m \in Machines, s \in 1 .. MaxSession : SetAgentSession(m, s)
  <2>1. UNCHANGED <<lease_state, binding_state, bindings, last_fence>>
    BY <1>5, Zenon
    DEF SetNow, SetAgreement, AdvanceEpoch, ApplyResourceFacts, NodeNext,
        QuarantineNode, UnquarantineNode, SetNodeState, SetAgentSession
  <2> QED  BY <1>1, <2>1, Zenon
<1>6. ASSUME NEW p \in Providers, NEW n \in Nodes, NEW f \in 1 .. MaxFence,
             AdvanceEndpointFence(p, n, f)
      PROVE  Settles /\ StaysEnded
  <2>1. /\ last_fence' \in [Providers \X Nodes -> Nat]
        /\ \A k \in Providers \X Nodes : last_fence[k] <= last_fence'[k]
    BY <1>0, <1>6 DEF TypeOK, AdvanceEndpointFence
  <2>2. UNCHANGED <<lease_state, binding_state, bindings>>
    BY <1>6 DEF AdvanceEndpointFence
  <2> QED  BY <2>1, <2>2, Zenon DEF Settles, StaysEnded, Open
<1> QED
  BY <1>2, <1>3, <1>4, <1>5, <1>6 DEF Next

\* Every step keeps the endpoints exclusive and the fences in order.
LEMMA NextFences == FenceInv /\ [Next]_vars => FenceInv'
<1> SUFFICES ASSUME FenceInv, [Next]_vars PROVE FenceInv'
  OBVIOUS
<1>1. Shaped /\ Shaped'
  BY NextShaped DEF FenceInv
<1>2. CASE Settles
  BY <1>1, <1>2, SettlesKeepsFences DEF FenceInv
<1>3. CASE \E b \in Bindings, l \in Leases, n \in Nodes : OpenNewBinding(b, l, n)
  BY <1>1, <1>3, OpeningKeepsFences, Zenon DEF FenceInv
<1> QED  BY <1>1, <1>2, <1>3, NextSettles

\* At the start there are no bindings.
LEMMA InitFences == Init => FenceInv
<1> SUFFICES ASSUME Init PROVE FenceInv
  OBVIOUS
<1>1. \A b \in Bindings : binding_state[b] = "Absent"
  BY DEF Init
<1> QED
  BY <1>1, InitShaped
  DEF FenceInv, ExclusiveEndpoint, OpenHasNewestFence, FencesCovered, Open,
      OpenBinding

-----------------------------------------------------------------------------

\* At every moment an endpoint is held by one exclusive binding or by
\* independent shares, never by both and never by two exclusive ones.
THEOREM EndpointsExclusive == Spec => []ExclusiveEndpoint
<1>1. FenceInv => ExclusiveEndpoint
  BY DEF FenceInv
<1> QED  BY <1>1, InitFences, NextFences, PTL DEF Spec

\* The open exclusive binding of an endpoint always carries its newest fence.
THEOREM FencesOrdered == Spec => []OpenHasNewestFence
<1>1. FenceInv => OpenHasNewestFence
  BY DEF FenceInv
<1> QED  BY <1>1, InitFences, NextFences, PTL DEF Spec

\* No step revives an ended lease or reopens a closed binding.
THEOREM EndingIsFinal == Spec => NothingRevives
<1>1. Shaped /\ [Next]_vars => [StaysEnded]_vars
  <2> SUFFICES ASSUME Shaped, [Next]_vars PROVE StaysEnded
    OBVIOUS
  <2>1. ASSUME NEW b \in Bindings, NEW l \in Leases, NEW n \in Nodes,
               OpenNewBinding(b, l, n)
        PROVE  StaysEnded
    BY <2>1, Zenon
    DEF Shaped, TypeOK, StaysEnded, OpenNewBinding, ClosedBinding
  <2> QED  BY <2>1, NextSettles
<1> QED  BY <1>1, InitShaped, NextShaped, PTL DEF Spec, NothingRevives

-----------------------------------------------------------------------------
(* What a step does to one lease.                                          *)

\* The lease x is opened by this step, on nodes that nothing blocks.
Arrives(x) ==
    /\ ~Exists(x) /\ lease_state'[x] \in LiveLease
    /\ Placeable(leases'[x].claims)
    /\ UNCHANGED <<graph, node_states, binding_state, bindings, prepared>>

\* The claims of lease x stay, and it does not become live.
Stays(x) ==
    /\ leases'[x] = leases[x]
    /\ lease_state'[x] \in LiveLease => lease_state[x] \in LiveLease

\* Opening a lease keeps the others (reserve_lease, open_lease).
LEMMA NewLeaseArrives ==
    ASSUME Shaped, NEW l \in Leases, ~Exists(l), NEW st \in LiveLease, NEW p,
           NEW claims, Placeable(claims), NEW exp, NEW dl,
           NewLease(l, st, p, claims, exp, dl), NEW x \in Leases
    PROVE  Stays(x) \/ Arrives(x)
<1>1. lease_state \in [Leases -> LeaseState] /\ leases \in [Leases -> Lease]
  BY Zenon DEF Shaped, TypeOK
<1>2. CASE x = l
  <2>1. leases'[l].claims = claims /\ lease_state'[l] = st
    BY <1>1, Zenon DEF NewLease
  <2>2. UNCHANGED <<graph, node_states, binding_state, bindings, prepared>>
    BY Zenon DEF NewLease
  <2> QED  BY <1>2, <2>1, <2>2, Zenon DEF Arrives
<1>3. CASE x # l
  BY <1>1, <1>3, Zenon DEF NewLease, Stays
<1> QED  BY <1>2, <1>3, Zenon

\* Every command on leases opens one lease, or keeps or ends leases.
LEMMA LeaseArrives ==
    ASSUME Shaped, NEW l \in Leases, LeaseNext(l), NEW x \in Leases
    PROVE  Stays(x) \/ Arrives(x)
<1>0. lease_state \in [Leases -> LeaseState] /\ leases \in [Leases -> Lease]
  BY Zenon DEF Shaped, TypeOK
<1>1. ASSUME NEW keep, NEW st, st \notin LiveLease, EndTree(l, keep, st)
      PROVE  Stays(x)
  BY <1>1, Zenon DEF EndTree, SetStates, Stays
<1>2. ASSUME NEW st, lease_state' = [lease_state EXCEPT ![l] = st],
             UNCHANGED leases, st \in LiveLease => lease_state[l] \in LiveLease
      PROVE  Stays(x)
  BY <1>0, <1>2, Zenon DEF Stays
<1>3. ASSUME UNCHANGED <<lease_state, leases>> PROVE Stays(x)
  BY <1>3, Zenon DEF Stays
<1>4. ASSUME NEW c \in ClaimSets, NEW exp \in Expiries, ReserveLease(l, c, exp)
      PROVE  Stays(x) \/ Arrives(x)
  BY <1>4, NewLeaseArrives, Zenon DEF ReserveLease, LiveLease
<1>5. ASSUME NEW c \in ClaimSets, NEW exp \in Expiries,
             NEW p \in Leases \cup {None}, NEW dl \in Deadlines,
             OpenLease(l, c, p, exp, dl)
      PROVE  Stays(x) \/ Arrives(x)
  BY <1>5, NewLeaseArrives, Zenon DEF OpenLease, LiveLease
<1>6. ASSUME NEW dl \in Deadlines, PromoteLease(l, dl) PROVE Stays(x)
  BY <1>2, <1>6, Zenon DEF PromoteLease, LiveLease
<1>7. ASSUME NEW exp \in Expiries, RenewLease(l, exp) PROVE Stays(x)
  BY <1>3, <1>7, Zenon DEF RenewLease
<1>8. ASSUME NEW final \in {"Completed", "Failed"}, CompleteLease(l, final)
      PROVE  Stays(x)
  BY <1>1, <1>3, <1>8, Zenon DEF CompleteLease, LiveLease
<1>9. CASE ActivateLease(l)
  BY <1>2, <1>9, Zenon DEF ActivateLease, LiveLease
<1>10. CASE FailLease(l) \/ RevokeLease(l)
  BY <1>1, <1>10, Zenon DEF FailLease, RevokeLease, LiveLease
<1>11. CASE ReleaseLease(l)
  BY <1>2, <1>11, Zenon DEF ReleaseLease, LiveLease
<1>12. CASE ExpireLease(l)
  BY <1>1, <1>3, <1>12, Zenon DEF ExpireLease, LiveLease
<1> QED
  BY <1>4, <1>5, <1>6, <1>7, <1>8, <1>9, <1>10, <1>11, <1>12, Zenon DEF LeaseNext

\* Commands on bindings keep the claims of every lease and make none live.
LEMMA BindingStays ==
    ASSUME Shaped, NEW b \in Bindings, BindingNext(b)
    PROVE  (\A x \in Leases : Stays(x)) /\ UNCHANGED <<leases, graph, node_states>>
<1>1. ASSUME UNCHANGED lease_state, UNCHANGED <<leases, graph, node_states>>
      PROVE  (\A x \in Leases : Stays(x)) /\ UNCHANGED <<leases, graph, node_states>>
  BY <1>1, Zenon DEF Stays
<1>2. ASSUME NEW s, NEW f, RecordFailed(b, s, f)
      PROVE  (\A x \in Leases : Stays(x)) /\ UNCHANGED <<leases, graph, node_states>>
  BY <1>2, Zenon DEF RecordFailed, SetStates, Stays, LiveLease
<1>3. ASSUME NEW l \in Leases, NEW n \in Nodes, OpenNewBinding(b, l, n)
      PROVE  UNCHANGED lease_state /\ UNCHANGED <<leases, graph, node_states>>
  BY <1>3, Zenon DEF OpenNewBinding
<1>4. ASSUME \/ RetryOpenBinding(b) \/ ActivateBinding(b) \/ FenceBinding(b)
             \/ FailBinding(b) \/ ReleaseBinding(b)
      PROVE  UNCHANGED lease_state /\ UNCHANGED <<leases, graph, node_states>>
  BY <1>4, Zenon DEF RetryOpenBinding, ActivateBinding, FenceBinding, FailBinding,
                     ReleaseBinding, Send
<1>5. ASSUME NEW s, NEW f,
             RebindSession(b, s) \/ RecordPrepared(b, s, f) \/ RecordActive(b, s, f)
                 \/ RecordReleased(b, s, f) \/ RecordFenced(b, s, f)
      PROVE  UNCHANGED lease_state /\ UNCHANGED <<leases, graph, node_states>>
  BY <1>5, Zenon DEF RebindSession, RecordPrepared, RecordActive, RecordReleased, RecordFenced
<1> QED
  BY <1>1, <1>2, <1>3, <1>4, <1>5, Zenon DEF BindingNext, Acknowledge

\* What every other step leaves alone.
LEMMA OtherStays ==
    ASSUME \/ UNCHANGED vars
           \/ \E t \in 0 .. MaxTime : SetNow(t)
           \/ \E a \in AgreementInputs : SetAgreement(a)
           \/ AdvanceEpoch
           \/ \E g \in Graphs : ApplyResourceFacts(g)
           \/ \E n \in ControlledNodes : NodeNext(n)
           \/ \E p \in Providers, n \in Nodes, f \in 1 .. MaxFence :
                  AdvanceEndpointFence(p, n, f)
           \/ \E m \in Machines, s \in 1 .. MaxSession : SetAgentSession(m, s)
    PROVE  UNCHANGED <<lease_state, leases, binding_state, bindings, prepared>>
BY Zenon
DEF vars, SetNow, SetAgreement, AdvanceEpoch, ApplyResourceFacts, NodeNext,
    QuarantineNode, UnquarantineNode, SetNodeState, AdvanceEndpointFence,
    SetAgentSession

\* A lease that occupies after a step did so before, with the same claims, or
\* is opened by the step.
LEMMA OccupationArrives ==
    ASSUME Shaped, [Next]_vars, NEW x \in Leases, Occupies(x)'
    PROVE  (Occupies(x) /\ leases'[x] = leases[x]) \/ Arrives(x)
<1>1. Stays(x) \/ Arrives(x)
  <2>1. CASE \E l \in Leases : LeaseNext(l)
    BY <2>1, LeaseArrives, Zenon
  <2>2. CASE \E b \in Bindings : BindingNext(b)
    BY <2>2, BindingStays, Zenon
  <2>3. CASE UNCHANGED <<lease_state, leases, binding_state, bindings, prepared>>
    BY <2>3, Zenon DEF Stays
  <2> QED  BY <2>1, <2>2, <2>3, OtherStays, Zenon DEF Next
<1>2. ASSUME Stays(x) PROVE Occupies(x)
  <2>1. CASE lease_state'[x] \in LiveLease
    BY <1>2, <2>1, Zenon DEF Stays, Occupies
  <2>2. CASE \E b \in Bindings : bindings'[b].lease = x /\ Open(b)'
    <3>1. PICK b \in Bindings : bindings'[b].lease = x /\ Open(b)'
      BY <2>2, Zenon
    <3>2. CASE Settles
      BY <3>1, <3>2, Zenon DEF Settles, Occupies, OpenBindings
    <3>3. ASSUME NEW y \in Bindings, NEW l \in Leases, NEW n \in Nodes,
                 OpenNewBinding(y, l, n)
          PROVE  Occupies(x)
      <4>0. bindings \in [Bindings -> Binding] /\ binding_state \in [Bindings -> BindingState]
        BY Zenon DEF Shaped, TypeOK
      <4>1. CASE b = y
        <5>1. x = l
          BY <3>1, <3>3, <4>0, <4>1 DEF OpenNewBinding
        <5> QED  BY <3>3, <5>1, Zenon DEF OpenNewBinding, Bindable, Occupies, LiveLease
      <4>2. CASE b # y
        BY <3>1, <3>3, <4>0, <4>2, Zenon DEF OpenNewBinding, Open, Occupies, OpenBindings
      <4> QED  BY <4>1, <4>2
    <3> QED  BY <3>2, <3>3, NextSettles, Zenon
  <2> QED  BY <2>1, <2>2, Zenon DEF Occupies, OpenBindings
<1> QED  BY <1>1, <1>2, Zenon DEF Stays

-----------------------------------------------------------------------------
(* Retirement.                                                             *)

\* A graph update moves no node that an occupying lease claims
\* (install_resource_graph); no other step touches the graph.
LEMMA ClaimsKeepMachine ==
    ASSUME Shaped, [Next]_vars, NEW l \in Leases, Occupies(l),
           NEW c \in Claimed(leases[l].claims)
    PROVE  graph'.machine_of[c] = graph.machine_of[c]
<1>1. CASE \E g \in Graphs : ApplyResourceFacts(g)
  BY <1>1, Zenon DEF ApplyResourceFacts, Installable
<1>2. CASE UNCHANGED graph
  BY <1>2, Zenon
<1>3. ASSUME NEW x \in Leases, LeaseNext(x) PROVE UNCHANGED graph
  BY <1>3, Zenon
  DEF LeaseNext, ReserveLease, OpenLease, NewLease, PromoteLease, RenewLease,
      CompleteLease, ActivateLease, FailLease, ReleaseLease, RevokeLease, ExpireLease
<1>4. ASSUME NEW b \in Bindings, BindingNext(b) PROVE UNCHANGED graph
  BY <1>4, BindingStays, Zenon
<1>5. CASE \/ UNCHANGED vars
           \/ \E t \in 0 .. MaxTime : SetNow(t)
           \/ \E a \in AgreementInputs : SetAgreement(a)
           \/ AdvanceEpoch
           \/ \E n \in ControlledNodes : NodeNext(n)
           \/ \E p \in Providers, n \in Nodes, f \in 1 .. MaxFence :
                  AdvanceEndpointFence(p, n, f)
           \/ \E m \in Machines, s \in 1 .. MaxSession : SetAgentSession(m, s)
  BY <1>2, <1>5, Zenon
  DEF vars, SetNow, SetAgreement, AdvanceEpoch, NodeNext, QuarantineNode,
      UnquarantineNode, SetNodeState, AdvanceEndpointFence, SetAgentSession
<1> QED  BY <1>1, <1>2, <1>3, <1>4, <1>5, Zenon DEF Next

\* A node retires only by the command that checks for live authority.
LEMMA RetiresIdle ==
    ASSUME Shaped, [Next]_vars, NEW n \in Nodes, node_states'[n] = "Retired",
           node_states[n] # "Retired"
    PROVE  ~NodeHasLiveAuthority(n)
<1>0. node_states \in [Nodes -> NodeState]
  BY Zenon DEF Shaped, TypeOK
<1>1. ASSUME NEW k \in ControlledNodes, NEW st \in NodeState, SetNodeState(k, st)
      PROVE  ~NodeHasLiveAuthority(n)
  <2>1. k \in Nodes
    BY ConstantsAssumption, Zenon
  <2>2. k = n /\ st = "Retired"
    BY <1>0, <1>1, <2>1, Zenon DEF SetNodeState
  <2> QED  BY <1>1, <2>2, Zenon DEF SetNodeState, NodeStateAllowed
<1>2. CASE \E k \in ControlledNodes : NodeNext(k)
  BY <1>1, <1>2, Zenon DEF NodeNext, QuarantineNode, UnquarantineNode, NodeState
<1>3. ASSUME UNCHANGED node_states PROVE FALSE
  BY <1>3, Zenon
<1>4. ASSUME NEW x \in Leases, LeaseNext(x) PROVE UNCHANGED node_states
  BY <1>4, Zenon
  DEF LeaseNext, ReserveLease, OpenLease, NewLease, PromoteLease, RenewLease,
      CompleteLease, ActivateLease, FailLease, ReleaseLease, RevokeLease, ExpireLease
<1>5. ASSUME NEW b \in Bindings, BindingNext(b) PROVE UNCHANGED node_states
  BY <1>5, BindingStays, Zenon
<1>6. CASE \/ UNCHANGED vars
           \/ \E t \in 0 .. MaxTime : SetNow(t)
           \/ \E a \in AgreementInputs : SetAgreement(a)
           \/ AdvanceEpoch
           \/ \E g \in Graphs : ApplyResourceFacts(g)
           \/ \E p \in Providers, k \in Nodes, f \in 1 .. MaxFence :
                  AdvanceEndpointFence(p, k, f)
           \/ \E m \in Machines, s \in 1 .. MaxSession : SetAgentSession(m, s)
  BY <1>3, <1>6, Zenon
  DEF vars, SetNow, SetAgreement, AdvanceEpoch, ApplyResourceFacts,
      AdvanceEndpointFence, SetAgentSession
<1> QED  BY <1>2, <1>3, <1>4, <1>5, <1>6, Zenon DEF Next

\* The node of an open binding is claimed by the occupying lease it enforces.
LEMMA OpenIsClaimed ==
    ASSUME Shaped, NEW b \in Bindings, Open(b)
    PROVE  /\ bindings[b].lease \in Leases /\ Occupies(bindings[b].lease)
           /\ bindings[b].node \in Claimed(leases[bindings[b].lease].claims)
<1>1. binding_state[b] # "Absent"
  BY Zenon DEF Open, OpenBinding
<1> QED
  BY <1>1, Zenon DEF Shaped, AuthorityShape, BindingsEnforceRoots, Occupies, OpenBindings

\* The part of RetiredIsIdle that is inductive with the authority shape.
RetiredUnclaimed ==
    \A n \in Nodes : node_states[n] = "Retired" =>
        \A l \in Leases : Occupies(l) =>
            \A c \in Claimed(leases[l].claims) : ~PartOf(c, n)

\* Every step leaves what has retired unclaimed.
LEMMA NextRetired ==
    Shaped /\ RetiredUnclaimed /\ [Next]_vars => RetiredUnclaimed'
<1> SUFFICES ASSUME Shaped, RetiredUnclaimed, [Next]_vars,
                    NEW n \in Nodes, node_states'[n] = "Retired",
                    NEW l \in Leases, Occupies(l)',
                    NEW c \in Nodes, leases'[l].claims[c] # 0, PartOf(c, n)'
             PROVE  FALSE
  BY Zenon DEF RetiredUnclaimed, Claimed
<1>1. ASSUME PartOf(c, n) PROVE n \in {c} \cup graph.ancestors[c]
  <2>1. graph \in Graphs
    BY Zenon DEF Shaped, TypeOK
  <2>2. graph.machine_of[c] = None \/ graph.machine_of[c] \in {c} \cup graph.ancestors[c]
    BY <2>1, GraphsAssumption, Zenon
  <2>3. n # None
    BY ConstantsAssumption, Zenon
  <2> QED  BY <1>1, <2>2, <2>3, Zenon DEF PartOf
<1>2. CASE Arrives(l)
  <2>1. ~NodeQuarantined(c) /\ node_states[n] = "Retired" /\ PartOf(c, n)
    BY <1>2, Zenon DEF Arrives, Placeable, Claimed, PartOf
  <2> QED  BY <1>1, <2>1, Zenon DEF NodeQuarantined
<1>3. CASE Occupies(l) /\ leases'[l] = leases[l]
  <2>1. c \in Claimed(leases[l].claims)
    BY <1>3, Zenon DEF Claimed
  <2>2. PartOf(c, n)
    BY <1>3, <2>1, ClaimsKeepMachine, Zenon DEF PartOf
  <2>3. NodeHasLiveAuthority(n)
    BY <1>1, <1>3, <2>1, <2>2, Zenon DEF NodeHasLiveAuthority, InScope
  <2>4. node_states[n] = "Retired"
    BY <2>3, RetiresIdle, Zenon
  <2> QED  BY <1>3, <2>1, <2>2, <2>4, Zenon DEF RetiredUnclaimed
<1> QED  BY <1>2, <1>3, OccupationArrives, Zenon

\* A retired node or machine holds no authority, whatever is placed on the
\* machine afterwards (set_node_state, node_quarantined).
THEOREM RetirementIsIdle == Spec => []RetiredIsIdle
<1>1. Init => RetiredUnclaimed
  BY Zenon DEF Init, RetiredUnclaimed
<1>2. Shaped /\ RetiredUnclaimed => RetiredIsIdle
  BY OpenIsClaimed, Zenon DEF RetiredIsIdle, RetiredUnclaimed
<1> QED  BY <1>1, <1>2, InitShaped, NextShaped, NextRetired, PTL DEF Spec

\* An open binding keeps its machine until it closes
\* (install_resource_graph).
THEOREM OpenBindingsKeepMachine == Spec => OpenBindingKeepsMachine
<1>1. ASSUME Shaped, [Next]_vars
      PROVE  \A b \in Bindings : Open(b) =>
                 graph'.machine_of[bindings[b].node] = graph.machine_of[bindings[b].node]
  BY <1>1, OpenIsClaimed, ClaimsKeepMachine, Zenon
<1> QED
  BY <1>1, InitShaped, NextShaped, PTL DEF Spec, OpenBindingKeepsMachine

-----------------------------------------------------------------------------
(* Teardown.                                                               *)

\* The step orders the agent of binding b to end its generation.
Ordered(b) ==
    \E e \in effects' : /\ e.kind \in {"Fence", "Release"} /\ e.binding = b
                        /\ e.fence = bindings[b].fence

\* The effects on a group of leases reach every open binding of the group
\* (binding_effects).
LEMMA EffectsReach ==
    ASSUME NEW b \in Bindings, Open(b), NEW S, bindings[b].lease \in S,
           NEW kind \in {"Fence", "Release"}, effects' = BindingEffects(kind, S)
    PROVE  Ordered(b)
<1>1. EffectOn(kind, b) \in effects'
  BY Zenon DEF BindingEffects
<1>2. /\ EffectOn(kind, b).kind = kind /\ EffectOn(kind, b).binding = b
      /\ EffectOn(kind, b).fence = bindings[b].fence
  BY DEF EffectOn
<1> QED  BY <1>1, <1>2, Zenon DEF Ordered

\* Each command that ends a lease orders its endpoints to close.
LEMMA LeaseOrders ==
    ASSUME Shaped, NEW x \in Leases, LeaseNext(x), NEW b \in Bindings, Open(b),
           lease_state[bindings[b].lease] \in LiveLease,
           lease_state'[bindings[b].lease] \notin LiveLease
    PROVE  Ordered(b)
<1> DEFINE l == bindings[b].lease
<1>0. lease_state \in [Leases -> LeaseState] /\ l \in Leases
  BY OpenIsClaimed, Zenon DEF Shaped, TypeOK
<1>1. ASSUME NEW st, lease_state' = [lease_state EXCEPT ![x] = st]
      PROVE  x = l /\ st \notin LiveLease
  BY <1>0, <1>1, Zenon
<1>2. ASSUME NEW keep, NEW st, EndTree(x, keep, st) PROVE l \in {x} \cup Descendants(x)
  BY <1>0, <1>2, Zenon DEF EndTree, SetStates
<1>3. ASSUME UNCHANGED lease_state PROVE FALSE
  BY <1>3, Zenon
<1>4. ASSUME NEW S, l \in S, effects' = FenceEffects(S) PROVE Ordered(b)
  BY <1>4, EffectsReach, Zenon DEF FenceEffects
<1>5. ASSUME NEW c \in ClaimSets, NEW exp \in Expiries, ReserveLease(x, c, exp)
      PROVE  FALSE
  BY <1>1, <1>5, Zenon DEF ReserveLease, NewLease, LiveLease
<1>6. ASSUME NEW c \in ClaimSets, NEW exp \in Expiries,
             NEW p \in Leases \cup {None}, NEW dl \in Deadlines,
             OpenLease(x, c, p, exp, dl)
      PROVE  FALSE
  BY <1>1, <1>6, Zenon DEF OpenLease, NewLease, LiveLease
<1>7. ASSUME NEW dl \in Deadlines, PromoteLease(x, dl) PROVE FALSE
  BY <1>1, <1>7, Zenon DEF PromoteLease, LiveLease
<1>8. ASSUME NEW exp \in Expiries, RenewLease(x, exp) PROVE FALSE
  BY <1>3, <1>8, Zenon DEF RenewLease
<1>9. ASSUME NEW final \in {"Completed", "Failed"}, CompleteLease(x, final)
      PROVE  Ordered(b)
  BY <1>2, <1>3, <1>4, <1>9, Zenon DEF CompleteLease
<1>10. ASSUME ActivateLease(x) PROVE FALSE
  BY <1>1, <1>10, Zenon DEF ActivateLease, LiveLease
<1>11. CASE FailLease(x)
  <2>1. l \in {x} \cup Descendants(x)
    BY <1>2, <1>11, Zenon DEF FailLease
  <2>2. lease_state[l] \notin EndedLease
    BY <1>0 DEF LiveLease, EndedLease
  <2>3. l \in (IF lease_state[x] \in EndedLease THEN Descendants(x)
                                              ELSE {x} \cup Descendants(x))
    BY <2>1, <2>2, Zenon
  <2> QED  BY <1>4, <1>11, <2>3, Zenon DEF FailLease
<1>12. CASE ReleaseLease(x)
  <2>1. x = l /\ effects' = ReleaseEffects({x})
    BY <1>1, <1>12, Zenon DEF ReleaseLease
  <2> QED  BY <2>1, EffectsReach, Zenon DEF ReleaseEffects
<1>13. CASE RevokeLease(x)
  BY <1>2, <1>4, <1>13, Zenon DEF RevokeLease
<1>14. CASE ExpireLease(x)
  BY <1>2, <1>3, <1>4, <1>14, Zenon DEF ExpireLease
<1> QED
  BY <1>5, <1>6, <1>7, <1>8, <1>9, <1>10, <1>11, <1>12, <1>13, <1>14, Zenon DEF LeaseNext

\* The only command on bindings that ends a lease fences it (record_failed).
LEMMA BindingOrders ==
    ASSUME Shaped, NEW y \in Bindings, BindingNext(y), NEW b \in Bindings, Open(b),
           lease_state[bindings[b].lease] \in LiveLease,
           lease_state'[bindings[b].lease] \notin LiveLease
    PROVE  Ordered(b)
<1> DEFINE l == bindings[b].lease
<1>0. l \in Leases
  BY OpenIsClaimed, Zenon
<1>1. ASSUME NEW s, NEW f, RecordFailed(y, s, f) PROVE Ordered(b)
  <2>1. l = bindings[y].lease
    BY <1>0, <1>1, Zenon DEF RecordFailed, SetStates
  <2>2. effects' = BindingEffects("Fence", {bindings[y].lease})
    BY <1>1, Zenon DEF RecordFailed, FenceEffects
  <2> QED  BY <2>1, <2>2, EffectsReach, Zenon
<1>2. ASSUME UNCHANGED lease_state PROVE FALSE
  BY <1>2, Zenon
<1>3. ASSUME NEW x \in Leases, NEW n \in Nodes, OpenNewBinding(y, x, n) PROVE FALSE
  BY <1>2, <1>3, Zenon DEF OpenNewBinding
<1>4. ASSUME \/ RetryOpenBinding(y) \/ ActivateBinding(y) \/ FenceBinding(y)
             \/ FailBinding(y) \/ ReleaseBinding(y)
      PROVE  FALSE
  BY <1>2, <1>4, Zenon DEF RetryOpenBinding, ActivateBinding, FenceBinding, FailBinding,
                           ReleaseBinding, Send
<1>5. ASSUME NEW s, NEW f,
             RebindSession(y, s) \/ RecordPrepared(y, s, f) \/ RecordActive(y, s, f)
                 \/ RecordReleased(y, s, f) \/ RecordFenced(y, s, f)
      PROVE  FALSE
  BY <1>2, <1>5, Zenon
  DEF RebindSession, RecordPrepared, RecordActive, RecordReleased, RecordFenced
<1> QED
  BY <1>1, <1>3, <1>4, <1>5, Zenon DEF BindingNext, Acknowledge

\* Authority never ends without a fence or a release to every endpoint that
\* still holds it (fail_lease, release_lease, revoke_lease, expire_lease,
\* complete_lease, record_failed).
THEOREM TeardownIsRequested == Spec => TeardownRequested
<1>1. ASSUME Shaped, [Next]_vars, NEW b \in Bindings, Open(b),
             lease_state[bindings[b].lease] \in LiveLease,
             lease_state'[bindings[b].lease] \notin LiveLease
      PROVE  Ordered(b)
  <2>1. CASE \E x \in Leases : LeaseNext(x)
    BY <1>1, <2>1, LeaseOrders, Zenon
  <2>2. CASE \E y \in Bindings : BindingNext(y)
    BY <1>1, <2>2, BindingOrders, Zenon
  <2>3. CASE UNCHANGED <<lease_state, leases, binding_state, bindings, prepared>>
    BY <1>1, <2>3, Zenon
  <2> QED  BY <1>1, <2>1, <2>2, <2>3, OtherStays, Zenon DEF Next
<1>2. ASSUME Shaped, [Next]_vars
      PROVE  \A b \in Bindings :
                 LET l == bindings[b].lease
                 IN  /\ Open(b)
                     /\ lease_state[l] \in LiveLease
                     /\ lease_state'[l] \notin LiveLease
                     => \E e \in effects' : /\ e.kind \in {"Fence", "Release"}
                                            /\ e.binding = b
                                            /\ e.fence = bindings[b].fence
  BY <1>1, <1>2, Zenon DEF Ordered
<1> QED  BY <1>2, InitShaped, NextShaped, PTL DEF Spec, TeardownRequested

-----------------------------------------------------------------------------
(* Activation.                                                             *)

\* A binding of lease l on node n has been prepared.
PreparedOn(l, n) ==
    \E b \in Bindings : bindings[b].lease = l /\ bindings[b].node = n /\ b \in prepared

\* The strengthening: what activate_lease found stays true of an Active root.
ActiveIsPrepared ==
    \A l \in Leases : lease_state[l] = "Active" /\ leases[l].parent = None =>
        \A n \in Claimed(leases[l].claims) : PreparedOn(l, n)

\* A lease is Active after a step because it was, or because the step
\* activated it.
ActiveByStep(x) ==
    lease_state'[x] = "Active" =>
        /\ leases'[x] = leases[x]
        /\ lease_state[x] = "Active" \/ ActivateLease(x)

\* Commands on leases keep the bindings, and one of them activates.
LEMMA LeaseActivates ==
    ASSUME Shaped, NEW l \in Leases, LeaseNext(l)
    PROVE  /\ \A x \in Leases : ActiveByStep(x)
           /\ UNCHANGED <<bindings, prepared>>
           /\ \A e \in effects' : e.kind # "Activate"
<1>0. lease_state \in [Leases -> LeaseState] /\ leases \in [Leases -> Lease]
  BY Zenon DEF Shaped, TypeOK
<1>1. ASSUME NEW keep, NEW st, st # "Active", EndTree(l, keep, st), NEW x \in Leases
      PROVE  ActiveByStep(x)
  BY <1>1, Zenon DEF EndTree, SetStates, ActiveByStep
<1>2. ASSUME NEW st, lease_state' = [lease_state EXCEPT ![l] = st], st # "Active",
             \A x \in Leases : x # l => leases'[x] = leases[x], NEW x \in Leases
      PROVE  ActiveByStep(x)
  BY <1>0, <1>2, Zenon DEF ActiveByStep
<1>3. ASSUME UNCHANGED <<lease_state, leases>>, NEW x \in Leases PROVE ActiveByStep(x)
  BY <1>3, Zenon DEF ActiveByStep
<1>4. ASSUME NEW kind, kind # "Activate", NEW S, effects' = BindingEffects(kind, S)
      PROVE  \A e \in effects' : e.kind # "Activate"
  <2> SUFFICES ASSUME NEW e \in effects' PROVE e.kind = kind
    BY <1>4, Zenon
  <2>1. PICK x \in Bindings : e = EffectOn(kind, x)
    BY <1>4, Zenon DEF BindingEffects
  <2> QED  BY <2>1 DEF EffectOn
<1>5. ASSUME effects' = {} PROVE \A e \in effects' : e.kind # "Activate"
  BY <1>5, Zenon
<1> DEFINE Goal == /\ \A x \in Leases : ActiveByStep(x)
                   /\ UNCHANGED <<bindings, prepared>>
                   /\ \A e \in effects' : e.kind # "Activate"
<1>6. ASSUME NEW st, st # "Active", NEW p, NEW claims, NEW exp, NEW dl,
             NewLease(l, st, p, claims, exp, dl)
      PROVE  Goal
  <2>1. \A x \in Leases : x # l => leases'[x] = leases[x]
    BY <1>0, <1>6, Zenon DEF NewLease
  <2> QED  BY <1>2, <1>5, <1>6, <2>1, Zenon DEF NewLease
<1>7. ASSUME NEW c \in ClaimSets, NEW exp \in Expiries, ReserveLease(l, c, exp) PROVE Goal
  BY <1>6, <1>7, Zenon DEF ReserveLease
<1>8. ASSUME NEW c \in ClaimSets, NEW exp \in Expiries,
             NEW p \in Leases \cup {None}, NEW dl \in Deadlines,
             OpenLease(l, c, p, exp, dl)
      PROVE  Goal
  BY <1>6, <1>8, Zenon DEF OpenLease
<1>9. ASSUME NEW dl \in Deadlines, PromoteLease(l, dl) PROVE Goal
  BY <1>2, <1>5, <1>9, Zenon DEF PromoteLease
<1>10. ASSUME NEW exp \in Expiries, RenewLease(l, exp) PROVE Goal
  BY <1>3, <1>5, <1>10, Zenon DEF RenewLease
<1>11. ASSUME NEW final \in {"Completed", "Failed"}, CompleteLease(l, final) PROVE Goal
  BY <1>1, <1>3, <1>4, <1>11, Zenon DEF CompleteLease, FenceEffects
<1>12. CASE ActivateLease(l)
  <2>1. \A x \in Leases : ActiveByStep(x)
    BY <1>0, <1>12, Zenon DEF ActivateLease, ActiveByStep
  <2> QED  BY <1>5, <1>12, <2>1, Zenon DEF ActivateLease
<1>13. CASE FailLease(l)
  BY <1>1, <1>4, <1>13, Zenon DEF FailLease, FenceEffects
<1>14. CASE ReleaseLease(l)
  BY <1>2, <1>4, <1>14, Zenon DEF ReleaseLease, ReleaseEffects
<1>15. CASE RevokeLease(l)
  BY <1>1, <1>4, <1>15, Zenon DEF RevokeLease, FenceEffects
<1>16. CASE ExpireLease(l)
  BY <1>1, <1>3, <1>4, <1>16, Zenon DEF ExpireLease, FenceEffects
<1> QED
  BY <1>7, <1>8, <1>9, <1>10, <1>11, <1>12, <1>13, <1>14, <1>15, <1>16, Zenon DEF LeaseNext

\* The bindings that enforce a lease keep their records and their handles.
BindingsKept ==
    /\ \A b \in Bindings : bindings[b].lease \in Leases => bindings'[b] = bindings[b]
    /\ prepared \subseteq prepared'

\* Commands on bindings forget nothing, and one of them tells an endpoint of
\* an Active lease to activate.
LEMMA BindingActivates ==
    ASSUME Shaped, NEW y \in Bindings, BindingNext(y)
    PROVE  /\ BindingsKept /\ UNCHANGED leases
           /\ \A x \in Leases : lease_state'[x] = "Active" => lease_state[x] = "Active"
           /\ \A e \in effects' : e.kind = "Activate" =>
                  e.binding = y /\ Open(y) /\ lease_state[bindings[y].lease] = "Active"
<1> DEFINE Goal ==
           /\ BindingsKept /\ UNCHANGED leases
           /\ \A x \in Leases : lease_state'[x] = "Active" => lease_state[x] = "Active"
           /\ \A e \in effects' : e.kind = "Activate" =>
                  e.binding = y /\ Open(y) /\ lease_state[bindings[y].lease] = "Active"
<1>1. ASSUME NEW l \in Leases, NEW n \in Nodes, OpenNewBinding(y, l, n) PROVE Goal
  <2>1. bindings[y].lease \notin Leases
    <3>1. binding_state[y] = "Absent"
      BY <1>1, Zenon DEF OpenNewBinding
    <3>2. bindings[y] = NoBinding
      BY <3>1, Zenon DEF Shaped, AuthorityShape, BindingsEnforceRoots
    <3>3. NoBinding.lease = None
      BY DEF NoBinding
    <3> QED
      BY <3>2, <3>3, ConstantsAssumption, Zenon
  <2>2. \A b \in Bindings : b # y => bindings'[b] = bindings[b]
    BY <1>1, Zenon DEF Shaped, TypeOK, OpenNewBinding
  <2>3. \A e \in effects' : e.kind # "Activate"
    <3>1. PICK f, s : effects' = {[kind |-> "Prepare", binding |-> y, fence |-> f,
                                   session |-> s, epoch |-> epoch]}
      BY <1>1, Zenon DEF OpenNewBinding
    <3> QED
      BY <3>1
  <2>4. UNCHANGED <<lease_state, leases, prepared>>
    BY <1>1, Zenon DEF OpenNewBinding
  <2> QED
    BY <2>1, <2>2, <2>3, <2>4, Zenon DEF BindingsKept
<1>2. ASSUME NEW kind, kind # "Activate", effects' = {EffectOn(kind, y)}
      PROVE  \A e \in effects' : e.kind # "Activate"
  BY <1>2 DEF EffectOn
<1>3. ASSUME NEW kind \in {"Prepare", "Fence", "Release"}, Send(kind, y) PROVE Goal
  BY <1>2, <1>3, Zenon DEF Send, BindingsKept
<1>4. CASE RetryOpenBinding(y) \/ FenceBinding(y) \/ ReleaseBinding(y)
  BY <1>3, <1>4, Zenon DEF RetryOpenBinding, FenceBinding, ReleaseBinding
<1>5. CASE ActivateBinding(y)
  <2>1. \A e \in effects' : e.binding = y
    <3>1. effects' = {EffectOn("Activate", y)}
      BY <1>5, Zenon DEF ActivateBinding
    <3>2. EffectOn("Activate", y).binding = y
      BY DEF EffectOn
    <3> QED
      BY <3>1, <3>2, Zenon
  <2> QED
    BY <1>5, <2>1, Zenon DEF ActivateBinding, BindingsKept, Open, OpenBinding
<1>6. CASE FailBinding(y)
  BY <1>2, <1>6, Zenon DEF FailBinding, BindingsKept
<1>7. ASSUME NEW s, NEW f,
             RebindSession(y, s) \/ RecordPrepared(y, s, f) \/ RecordActive(y, s, f)
                 \/ RecordReleased(y, s, f) \/ RecordFenced(y, s, f)
      PROVE  Goal
  BY <1>7, Zenon
  DEF RebindSession, RecordPrepared, RecordActive, RecordReleased, RecordFenced, Record,
      BindingsKept
<1>8. ASSUME NEW s, NEW f, RecordFailed(y, s, f) PROVE Goal
  <2>1. \A e \in effects' : e.kind = "Fence"
    <3>1. effects' = BindingEffects("Fence", {bindings[y].lease})
      BY <1>8, Zenon DEF RecordFailed, FenceEffects
    <3>2. \A b : EffectOn("Fence", b).kind = "Fence"
      BY DEF EffectOn
    <3> QED
      BY <3>1, <3>2, Zenon DEF BindingEffects
  <2>2. \A x \in Leases : lease_state'[x] = "Active" => lease_state[x] = "Active"
    BY <1>8, Zenon DEF RecordFailed, SetStates
  <2> QED  BY <1>8, <2>1, <2>2, Zenon DEF RecordFailed, Record, BindingsKept
<1> QED
  BY <1>1, <1>4, <1>5, <1>6, <1>7, <1>8, Zenon DEF BindingNext, Acknowledge

\* Every step keeps Active roots prepared.
LEMMA NextActive == Shaped /\ ActiveIsPrepared /\ [Next]_vars => ActiveIsPrepared'
<1> SUFFICES ASSUME Shaped, ActiveIsPrepared, [Next]_vars PROVE ActiveIsPrepared'
  OBVIOUS
<1>1. ASSUME BindingsKept, NEW l \in Leases, NEW n, PreparedOn(l, n) PROVE PreparedOn(l, n)'
  BY <1>1, Zenon DEF PreparedOn, BindingsKept
<1>2. ASSUME NEW l \in Leases, ActivateLease(l), leases[l].parent = None,
             NEW n \in Claimed(leases[l].claims)
      PROVE  PreparedOn(l, n)
  BY <1>2, Zenon DEF ActivateLease, BindingsPrepared, PreparedOn
<1>3. CASE \E l \in Leases : LeaseNext(l)
  <2>1. (\A x \in Leases : ActiveByStep(x)) /\ BindingsKept
    BY <1>3, LeaseActivates, Zenon DEF BindingsKept
  <2> QED  BY <1>1, <1>2, <2>1, Zenon DEF ActiveIsPrepared, ActiveByStep
<1>4. CASE \E y \in Bindings : BindingNext(y)
  BY <1>1, <1>4, BindingActivates, Zenon DEF ActiveIsPrepared
<1>5. CASE UNCHANGED <<lease_state, leases, binding_state, bindings, prepared>>
  <2>1. \A l, n : PreparedOn(l, n)' <=> PreparedOn(l, n)
    BY <1>5 DEF PreparedOn
  <2>2. lease_state' = lease_state /\ leases' = leases
    BY <1>5
  <2> QED  BY <2>1, <2>2, ZenonT(40) DEF ActiveIsPrepared
<1> QED  BY <1>3, <1>4, <1>5, OtherStays, Zenon DEF Next

\* No endpoint is told to activate before every claim of the lease has been
\* prepared by its own binding (activate_lease, activate_binding).
THEOREM ActivationIsPrepared == Spec => ActivateAfterAllPrepared
<1>1. Init => ActiveIsPrepared
  BY Zenon DEF Init, ActiveIsPrepared
<1>2. ASSUME Shaped, ActiveIsPrepared, Next, NEW e \in effects', e.kind = "Activate"
      PROVE  LET l == bindings[e.binding].lease
             IN  \A n \in Claimed(leases[l].claims) : PreparedOn(l, n)
  <2>1. CASE \E l \in Leases : LeaseNext(l)
    BY <1>2, <2>1, LeaseActivates, Zenon
  <2>2. CASE \E y \in Bindings : BindingNext(y)
    <3>1. PICK y \in Bindings : /\ e.binding = y /\ Open(y)
                               /\ lease_state[bindings[y].lease] = "Active"
      BY <1>2, <2>2, BindingActivates, Zenon
    <3>2. bindings[y].lease \in Leases /\ leases[bindings[y].lease].parent = None
      BY <1>2, <3>1, Zenon
      DEF Shaped, AuthorityShape, BindingsEnforceRoots, Open, OpenBinding
    <3> QED  BY <1>2, <3>1, <3>2, Zenon DEF ActiveIsPrepared
  <2>3. CASE \E m \in Machines, s \in 1 .. MaxSession : SetAgentSession(m, s)
    <3>0. PICK m \in Machines, s \in 1 .. MaxSession : SetAgentSession(m, s)
      BY <2>3, Zenon
    <3>1. PICK b : e = [kind |-> "Reconcile", binding |-> b, fence |-> bindings[b].fence,
                        session |-> s, epoch |-> epoch]
      BY <1>2, <3>0, Zenon DEF SetAgentSession
    <3>2. e.kind = "Reconcile"
      BY <3>1
    <3> QED
      BY <1>2, <3>2
  <2>4. CASE \/ \E t \in 0 .. MaxTime : SetNow(t)
             \/ \E a \in AgreementInputs : SetAgreement(a)
             \/ AdvanceEpoch
             \/ \E g \in Graphs : ApplyResourceFacts(g)
             \/ \E n \in ControlledNodes : NodeNext(n)
             \/ \E p \in Providers, n \in Nodes, f \in 1 .. MaxFence :
                    AdvanceEndpointFence(p, n, f)
    <3>1. effects' = {}
      BY <2>4, Zenon
      DEF SetNow, SetAgreement, AdvanceEpoch, ApplyResourceFacts, NodeNext,
          QuarantineNode, UnquarantineNode, SetNodeState, AdvanceEndpointFence
    <3> QED  BY <1>2, <3>1, Zenon
  <2> QED  BY <1>2, <2>1, <2>2, <2>3, <2>4, Zenon DEF Next
<1>3. ASSUME Shaped, ActiveIsPrepared, [Next]_vars
      PROVE  [\A e \in effects' : e.kind = "Activate" =>
                  LET l == bindings[e.binding].lease
                  IN  \A n \in Claimed(leases[l].claims) : \E b \in Bindings :
                          /\ bindings[b].lease = l /\ bindings[b].node = n
                          /\ b \in prepared]_vars
  BY <1>2, <1>3, Zenon DEF PreparedOn
<1> QED
  BY <1>1, <1>3, InitShaped, NextShaped, NextActive, PTL DEF Spec, ActivateAfterAllPrepared
=============================================================================
