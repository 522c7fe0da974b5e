------------------------- MODULE ClusterGrantsProofs -------------------------
(***************************************************************************)
(* Cluster implements Grants, for every value of the constants: the state  *)
(* of the kernel maps to an initial state of Grants and every kernel step  *)
(* to a step of it.  And the replay of the kernel implements the kernel:   *)
(* it accepts what was committed and does the same.                        *)
(***************************************************************************)
EXTENDS ClusterGrants, ClusterProofs

-----------------------------------------------------------------------------
(* The mapped state.                                                       *)

\* The grants are read off the bindings and the machines of the open ones.
LEMMA SameGrants ==
    ASSUME UNCHANGED <<binding_state, bindings>>,
           \A b \in Bindings : Open(b) =>
               graph'.machine_of[bindings[b].node] = graph.machine_of[bindings[b].node]
    PROVE  UNCHANGED <<GState, GGrants, GServing>>
<1>1. GState' = GState
  BY Zenon DEF GState, GrantStateOf
<1>2. GGrants' = GGrants
  BY Zenon DEF GGrants, GrantOf
<1>3. ASSUME NEW b \in Bindings PROVE ServingOf(b)' = ServingOf(b)
  BY Zenon DEF ServingOf, Open
<1>4. GServing' = GServing
  BY <1>3, Zenon DEF GServing
<1> QED  BY <1>1, <1>2, <1>4

\* The value of the mapping at a binding.
LEMMA MappedAt ==
    ASSUME NEW b \in Bindings
    PROVE  /\ GState[b] = GrantStateOf(b)
           /\ GGrants[b] = GrantOf(b)
           /\ GServing[b] = ServingOf(b)
           /\ GGrants[b].fence = bindings[b].fence
           /\ GGrants[b].scope = bindings[b].scope
BY DEF GState, GGrants, GServing, GrantOf

\* Open and known bindings are open and known grants.
LEMMA OpenGrantIsOpen ==
    ASSUME NEW b \in Bindings
    PROVE  /\ GState[b] \in G!OpenGrant <=> Open(b)
           /\ GState[b] = "Absent" <=> binding_state[b] = "Absent"
           /\ \A st \in {"Preparing", "Active"} : GState[b] = st <=> binding_state[b] = st
BY MappedAt DEF GrantStateOf, G!OpenGrant, Open, OpenBinding, ClosedBinding

\* The orders of a set of equal effects.
LEMMA OrdersOfEffects ==
    ASSUME NEW kind \in {"Prepare", "Activate", "Release", "Fence"}, NEW T \in SUBSET Bindings
    PROVE  OrdersOf({EffectOn(kind, b) : b \in T}) = G!Orders(kind, T)
<1>1. \A b \in T : GGrants[b].fence = bindings[b].fence
  BY MappedAt
<1>2. \A b \in T : /\ EffectOn(kind, b).kind = kind
                   /\ EffectOn(kind, b).binding = b
                   /\ EffectOn(kind, b).fence = bindings[b].fence
  BY DEF EffectOn
<1> QED  BY <1>1, <1>2 DEF OrdersOf, G!Orders

\* No effects are no orders.
LEMMA OrdersOfNothing == OrdersOf({}) = {} /\ \A kind : G!Orders(kind, {}) = {}
BY DEF OrdersOf, G!Orders

-----------------------------------------------------------------------------
(* Steps that change no grant.                                             *)

GrantsKept == UNCHANGED <<GState, GGrants, GServing, prepared, sessions, last_fence>>

\* A step without effects tells the agents nothing.
LEMMA QuietStep ==
    ASSUME GrantsKept, effects' = {}
    PROVE  G!GrantNext
<1>1. GOrders' = G!Orders("Fence", {})
  BY OrdersOfNothing DEF GOrders
<1>2. G!Tell("Fence", {})
  BY <1>1, Zenon DEF G!Tell, GrantsKept
<1>3. "Fence" \in G!OrderKind /\ {} \in SUBSET Bindings
  BY DEF G!OrderKind
<1> QED  BY <1>2, <1>3, Zenon DEF G!GrantNext

\* A teardown of bindings that were opened.
LEMMA TeardownStep ==
    ASSUME GrantsKept, NEW kind \in {"Release", "Fence"}, NEW T \in SUBSET Bindings,
           \A b \in T : binding_state[b] # "Absent",
           effects' = {EffectOn(kind, b) : b \in T}
    PROVE  G!GrantNext
<1>1. GOrders' = G!Orders(kind, T)
  BY OrdersOfEffects DEF GOrders
<1>2. T \subseteq G!Known
  BY OpenGrantIsOpen DEF G!Known
<1>3. G!Tell(kind, T)
  BY <1>1, <1>2, Zenon DEF G!Tell, GrantsKept
<1>4. kind \in G!OrderKind
  BY DEF G!OrderKind
<1> QED  BY <1>3, <1>4, Zenon DEF G!GrantNext

\* A teardown of the open bindings of some leases.
LEMMA LeaseTeardownStep ==
    ASSUME GrantsKept, NEW kind \in {"Release", "Fence"}, NEW S,
           effects' = BindingEffects(kind, S)
    PROVE  G!GrantNext
<1> DEFINE T == {x \in Bindings : Open(x) /\ bindings[x].lease \in S}
<1>1. \A b \in T : binding_state[b] # "Absent"
  BY DEF Open, OpenBinding
<1>2. effects' = {EffectOn(kind, b) : b \in T}
  BY Zenon DEF BindingEffects
<1>3. T \in SUBSET Bindings
  OBVIOUS
<1> HIDE DEF T
<1> QED  BY <1>1, <1>2, <1>3, TeardownStep

\* The commands on leases.
LEMMA LeaseStep ==
    ASSUME NEW l \in Leases, LeaseNext(l)
    PROVE  G!GrantNext
<1>1. ASSUME OutsideLeases PROVE GrantsKept
  <2>1. UNCHANGED <<binding_state, bindings, graph, prepared, sessions, last_fence>>
    BY <1>1, Zenon DEF OutsideLeases, graph_vars, binding_vars, node_vars
  <2> QED  BY <2>1, SameGrants, Zenon DEF GrantsKept
<1>2. ASSUME OutsideLeases, effects' = {} PROVE G!GrantNext
  BY <1>1, <1>2, QuietStep, Zenon
<1>3. ASSUME OutsideLeases, NEW S, effects' = FenceEffects(S) PROVE G!GrantNext
  BY <1>1, <1>3, LeaseTeardownStep, Zenon DEF FenceEffects
<1>4. ASSUME OutsideLeases, NEW S, effects' = ReleaseEffects(S) PROVE G!GrantNext
  BY <1>1, <1>4, LeaseTeardownStep, Zenon DEF ReleaseEffects
<1>5. ASSUME NEW c \in ClaimSets, NEW exp \in Expiries, ReserveLease(l, c, exp)
      PROVE  G!GrantNext
  BY <1>2, <1>5, Zenon DEF ReserveLease, NewLease
<1>6. ASSUME NEW c \in ClaimSets, NEW exp \in Expiries,
             NEW p \in Leases \cup {None}, NEW dl \in Deadlines,
             OpenLease(l, c, p, exp, dl)
      PROVE  G!GrantNext
  BY <1>2, <1>6, Zenon DEF OpenLease, NewLease
<1>7. ASSUME NEW dl \in Deadlines, PromoteLease(l, dl) PROVE G!GrantNext
  BY <1>2, <1>7, Zenon DEF PromoteLease
<1>8. ASSUME NEW exp \in Expiries, RenewLease(l, exp) PROVE G!GrantNext
  BY <1>2, <1>8, Zenon DEF RenewLease
<1>9. ASSUME NEW final \in {"Completed", "Failed"}, CompleteLease(l, final)
      PROVE  G!GrantNext
  BY <1>3, <1>9, Zenon DEF CompleteLease
<1>10. CASE ActivateLease(l)
  BY <1>2, <1>10, Zenon DEF ActivateLease
<1>11. CASE FailLease(l)
  BY <1>3, <1>11, Zenon DEF FailLease
<1>12. CASE ReleaseLease(l)
  BY <1>4, <1>12, Zenon DEF ReleaseLease
<1>13. CASE RevokeLease(l)
  BY <1>3, <1>13, Zenon DEF RevokeLease
<1>14. CASE ExpireLease(l)
  BY <1>3, <1>14, Zenon DEF ExpireLease
<1> QED
  BY <1>5, <1>6, <1>7, <1>8, <1>9, <1>10, <1>11, <1>12, <1>13, <1>14, Zenon
  DEF LeaseNext

-----------------------------------------------------------------------------
(* Commands on bindings.                                                   *)

ClosedOr(st) == IF st \in ClosedBinding THEN "Closed" ELSE st

\* One binding that was opened before changes state.
LEMMA StateMoves ==
    ASSUME TypeOK, NEW b \in Bindings, NEW st, UNCHANGED <<bindings, graph>>,
           binding_state' = [binding_state EXCEPT ![b] = st],
           binding_state[b] # "Absent", st # "Absent"
    PROVE  /\ GState' = [GState EXCEPT ![b] = ClosedOr(st)]
           /\ GGrants' = GGrants
           /\ (st \in OpenBinding <=> Open(b)) => GServing' = GServing
           /\ st \notin OpenBinding => GServing' = [GServing EXCEPT ![b] = None]
<1>1. /\ binding_state'[b] = st
      /\ \A x \in Bindings : x # b => binding_state'[x] = binding_state[x]
  BY DEF TypeOK
<1>2. \A x \in Bindings :
          GrantStateOf(x)' = IF x = b THEN ClosedOr(st) ELSE GrantStateOf(x)
  BY <1>1 DEF GrantStateOf, ClosedOr
<1>3. GState' = [GState EXCEPT ![b] = ClosedOr(st)]
  BY <1>2 DEF GState
<1>4. \A x \in Bindings : GrantOf(x)' = GrantOf(x)
  BY <1>1, Zenon DEF GrantOf
<1>5. GGrants' = GGrants
  BY <1>4, Zenon DEF GGrants
<1>6. \A x \in Bindings : x # b => ServingOf(x)' = ServingOf(x)
  BY <1>1, Zenon DEF ServingOf, Open
<1>7. ASSUME st \in OpenBinding <=> Open(b) PROVE ServingOf(b)' = ServingOf(b)
  BY <1>1, <1>7, Zenon DEF ServingOf, Open
<1>8. ASSUME st \in OpenBinding <=> Open(b) PROVE GServing' = GServing
  BY <1>6, <1>7, <1>8, Zenon DEF GServing
<1>9. ASSUME st \notin OpenBinding PROVE ServingOf(b)' = None
  BY <1>1, <1>9, Zenon DEF ServingOf, Open
<1>10. ASSUME st \notin OpenBinding PROVE GServing' = [GServing EXCEPT ![b] = None]
  BY <1>6, <1>9, <1>10 DEF GServing
<1> QED  BY <1>3, <1>5, <1>8, <1>10

\* A command that sends one effect.
LEMMA SendStep ==
    ASSUME NEW b \in Bindings,
           RetryOpenBinding(b) \/ FenceBinding(b) \/ ReleaseBinding(b)
    PROVE  G!GrantNext
<1>1. ASSUME NEW kind, Send(kind, b)
      PROVE  GrantsKept /\ effects' = {EffectOn(kind, x) : x \in {b}}
  <2>1. /\ UNCHANGED <<binding_state, bindings, graph, prepared, sessions, last_fence>>
        /\ effects' = {EffectOn(kind, b)}
    BY <1>1, Zenon DEF Send, OutsideBindings, graph_vars, binding_vars
  <2>2. GrantsKept
    BY <2>1, SameGrants, Zenon DEF GrantsKept
  <2>3. {EffectOn(kind, x) : x \in {b}} = {EffectOn(kind, b)}
    BY Zenon
  <2> QED  BY <2>1, <2>2, <2>3
<1>2. CASE RetryOpenBinding(b)
  <2>1. /\ binding_state[b] = "Preparing"
        /\ GrantsKept /\ effects' = {EffectOn("Prepare", x) : x \in {b}}
    BY <1>1, <1>2, Zenon DEF RetryOpenBinding
  <2>2. GOrders' = G!Orders("Prepare", {b})
    BY <2>1, OrdersOfEffects DEF GOrders
  <2>3. GState[b] = "Preparing"
    BY <2>1, OpenGrantIsOpen
  <2>4. G!Tell("Prepare", {b})
    BY <2>1, <2>2, <2>3, Zenon DEF G!Tell, GrantsKept
  <2>5. "Prepare" \in G!OrderKind /\ {b} \in SUBSET Bindings
    BY DEF G!OrderKind
  <2> QED  BY <2>4, <2>5, Zenon DEF G!GrantNext
<1>3. ASSUME NEW kind \in {"Release", "Fence"}, Send(kind, b), binding_state[b] # "Absent"
      PROVE  G!GrantNext
  <2>1. GrantsKept /\ effects' = {EffectOn(kind, x) : x \in {b}}
    BY <1>1, <1>3
  <2>2. {b} \in SUBSET Bindings /\ \A x \in {b} : binding_state[x] # "Absent"
    BY <1>3
  <2> QED  BY <2>1, <2>2, TeardownStep, Zenon
<1>4. CASE FenceBinding(b)
  BY <1>3, <1>4 DEF FenceBinding, OpenBinding
<1>5. CASE ReleaseBinding(b)
  BY <1>3, <1>5 DEF ReleaseBinding, OpenBinding
<1> QED  BY <1>2, <1>4, <1>5

\* An Active lease has no unprepared binding (activate_lease): this is what
\* lets activate_binding look at the lease alone.
ActivePrepared ==
    \A b \in Bindings : /\ binding_state[b] \in {"Preparing", "Active"}
                        /\ lease_state[bindings[b].lease] = "Active"
                        => b \in prepared

\* An endpoint is activated.
LEMMA ActivateStep ==
    ASSUME TypeOK, ActivePrepared, NEW b \in Bindings, ActivateBinding(b)
    PROVE  G!GrantNext
<1>1. /\ binding_state[b] \in {"Preparing", "Active"}
      /\ lease_state[bindings[b].lease] = "Active"
      /\ binding_state' = [binding_state EXCEPT ![b] = "Active"]
      /\ effects' = {EffectOn("Activate", b)}
      /\ UNCHANGED <<bindings, graph, prepared, sessions, last_fence>>
  BY Zenon DEF ActivateBinding, OutsideBindings, graph_vars
<1>2. b \in prepared
  BY <1>1, Zenon DEF ActivePrepared
<1>3. Open(b)
  BY <1>1, Zenon DEF Open, OpenBinding
<1>4. /\ GState' = [GState EXCEPT ![b] = ClosedOr("Active")]
      /\ GGrants' = GGrants /\ GServing' = GServing
  BY <1>1, <1>3, StateMoves DEF OpenBinding
<1>5. ClosedOr("Active") = "Active"
  BY DEF ClosedOr, ClosedBinding
<1>6. GState[b] \in {"Preparing", "Active"}
  BY <1>1, OpenGrantIsOpen, Zenon
<1>7. GOrders' = G!Orders("Activate", {b})
  <2>1. effects' = {EffectOn("Activate", x) : x \in {b}}
    BY <1>1, Zenon
  <2> QED  BY <2>1, OrdersOfEffects DEF GOrders
<1>8. G!ActivateGrant(b)
  BY <1>1, <1>2, <1>4, <1>5, <1>6, <1>7, Zenon DEF G!ActivateGrant
<1> QED  BY <1>8, Zenon DEF G!GrantNext

\* A binding is given up, with others or alone.
LEMMA FailStep ==
    ASSUME TypeOK, NEW b \in Bindings, Open(b),
           NEW S \in SUBSET Bindings, b \in S, \A x \in S : Open(x),
           binding_state' = [binding_state EXCEPT ![b] = "Failed"],
           effects' = {EffectOn("Fence", x) : x \in S},
           UNCHANGED <<bindings, graph, prepared, sessions, last_fence>>
    PROVE  G!GrantNext
<1>1. binding_state[b] # "Absent" /\ "Failed" \in OpenBinding
  BY DEF Open, OpenBinding
<1>2. /\ GState' = [GState EXCEPT ![b] = ClosedOr("Failed")]
      /\ GGrants' = GGrants /\ GServing' = GServing
  BY <1>1, StateMoves
<1>3. ClosedOr("Failed") = "Failed"
  BY DEF ClosedOr, ClosedBinding
<1>4. S \subseteq G!OpenGrants
  BY OpenGrantIsOpen DEF G!OpenGrants
<1>5. GOrders' = G!Orders("Fence", S)
  BY OrdersOfEffects DEF GOrders
<1>6. G!FailGrant(b, S)
  BY <1>2, <1>3, <1>4, <1>5, Zenon DEF G!FailGrant
<1> QED  BY <1>6, Zenon DEF G!GrantNext

\* An acknowledgement comes from the session that serves the open binding.
LEMMA AcknowledgedServes ==
    ASSUME Shaped, NEW b \in Bindings, NEW s, NEW f, Acknowledged(b, s, f), Open(b)
    PROVE  \E m \in Machines : s = sessions[m] /\ G!Serves(b, s)
<1> DEFINE m == graph.machine_of[bindings[b].node]
<1>1. bindings[b].node \in Nodes /\ m \in Machines \cup {None}
  <2>1. bindings[b].node \in Nodes
    BY BoundTo, Zenon DEF Shaped, AuthorityShape, Acknowledged
  <2>2. graph \in Graph
    BY ConstantsAssumption DEF Shaped, TypeOK
  <2> QED  BY <2>1, <2>2, Zenon DEF Graph
<1>2. m # None /\ sessions[m] # 0 /\ sessions[m] = s
  BY Zenon DEF Acknowledged, RequireSession
<1>3. GServing[b] = m
  BY MappedAt, Zenon DEF ServingOf
<1>4. m \in Machines
  BY <1>1, <1>2
<1> HIDE DEF m
<1>5. G!Serves(b, s)
  BY <1>2, <1>3, Zenon DEF G!Serves
<1> QED  BY <1>2, <1>4, <1>5, Zenon

\* A record that moves nothing the agents can see.
LEMMA RecordQuiet ==
    ASSUME TypeOK, NEW b \in Bindings, NEW s, NEW st, Record(b, s, st),
           binding_state[b] # "Absent", st # "Absent",
           ClosedOr(st) = ClosedOr(binding_state[b]), st \in OpenBinding <=> Open(b),
           UNCHANGED <<graph, prepared, sessions>>
    PROVE  GrantsKept
<1>1. /\ binding_state' = [binding_state EXCEPT ![b] = st]
      /\ UNCHANGED <<bindings, last_fence>>
  BY Zenon DEF Record
<1>2. /\ GState' = [GState EXCEPT ![b] = ClosedOr(st)]
      /\ GGrants' = GGrants /\ GServing' = GServing
  BY <1>1, StateMoves
<1>3. GState[b] = ClosedOr(st)
  BY MappedAt DEF GrantStateOf, ClosedOr
<1>4. GState' = GState
  BY <1>2, <1>3 DEF GState
<1> QED  BY <1>1, <1>2, <1>4, Zenon DEF GrantsKept

\* The agent answered that the endpoint is closed.
LEMMA CloseStep ==
    ASSUME Shaped, NEW b \in Bindings, NEW s, NEW f, NEW st \in ClosedBinding,
           Acknowledged(b, s, f), Record(b, s, st), effects' = {},
           UNCHANGED prepared, OutsideBindings
    PROVE  G!GrantNext
<1>0. TypeOK /\ UNCHANGED <<graph, prepared, sessions>> /\ binding_state[b] # "Absent"
  BY Zenon DEF Shaped, OutsideBindings, graph_vars, Acknowledged
<1>1. st # "Absent" /\ st \notin OpenBinding /\ ClosedOr(st) = "Closed"
  BY DEF ClosedBinding, OpenBinding, ClosedOr
<1>2. CASE Open(b)
  <2>1. /\ binding_state' = [binding_state EXCEPT ![b] = st]
        /\ UNCHANGED <<bindings, last_fence>>
    BY Zenon DEF Record
  <2>2. /\ GState' = [GState EXCEPT ![b] = "Closed"] /\ GGrants' = GGrants
        /\ GServing' = [GServing EXCEPT ![b] = None]
    BY <1>0, <1>1, <2>1, StateMoves
  <2>3. PICK m \in Machines : s = sessions[m] /\ G!Serves(b, s)
    BY <1>2, AcknowledgedServes, Zenon
  <2>4. b \in G!OpenGrants
    BY <1>2, OpenGrantIsOpen DEF G!OpenGrants
  <2>5. GOrders' = {}
    BY OrdersOfNothing DEF GOrders
  <2>6. G!CloseGrant(b, sessions[m])
    BY <1>0, <2>1, <2>2, <2>3, <2>4, <2>5, Zenon DEF G!CloseGrant
  <2> QED  BY <2>6, Zenon DEF G!GrantNext
<1>3. CASE ~Open(b)
  <2>1. ClosedOr(binding_state[b]) = "Closed"
    BY <1>0, <1>3, Zenon DEF TypeOK, BindingState, Open, ClosedOr
  <2>2. GrantsKept
    BY <1>0, <1>1, <1>3, <2>1, RecordQuiet, Zenon
  <2> QED  BY <2>2, QuietStep
<1> QED  BY <1>2, <1>3

\* The other acknowledgements, and a session rebound after a restart.
LEMMA RecordStep ==
    ASSUME Shaped, NEW b \in Bindings, NEW s, NEW f,
           \/ RecordPrepared(b, s, f) \/ RecordActive(b, s, f)
           \/ RecordFailed(b, s, f) \/ RebindSession(b, s)
    PROVE  G!GrantNext
<1>0. TypeOK
  BY Zenon DEF Shaped
<1>1. CASE RecordPrepared(b, s, f)
  <2>1. /\ Acknowledged(b, s, f) /\ binding_state[b] \in {"Preparing", "Active"}
        /\ Record(b, s, binding_state[b]) /\ prepared' = prepared \cup {b}
        /\ effects' = {} /\ UNCHANGED <<graph, sessions>>
    BY <1>1, Zenon DEF RecordPrepared, OutsideBindings, graph_vars
  <2>2. UNCHANGED <<binding_state, bindings, last_fence>>
    BY <1>0, <2>1, Zenon DEF Record, TypeOK
  <2>3. Open(b)
    BY <2>1 DEF Open, OpenBinding
  <2>4. UNCHANGED <<GState, GGrants, GServing>>
    BY <2>1, <2>2, SameGrants, Zenon
  <2>5. PICK m \in Machines : s = sessions[m] /\ G!Serves(b, s)
    BY <2>1, <2>3, AcknowledgedServes, Zenon
  <2>6. GState[b] \in {"Preparing", "Active"}
    BY <2>1, OpenGrantIsOpen
  <2>7. GOrders' = {}
    BY <2>1, OrdersOfNothing DEF GOrders
  <2>8. G!ConfirmGrant(b, sessions[m])
    BY <2>1, <2>2, <2>4, <2>5, <2>6, <2>7, Zenon DEF G!ConfirmGrant
  <2> QED  BY <2>8, Zenon DEF G!GrantNext
<1>2. CASE RecordActive(b, s, f) \/ RebindSession(b, s)
  <2>1. /\ Record(b, s, binding_state[b]) /\ binding_state[b] # "Absent"
        /\ effects' = {} /\ UNCHANGED <<graph, prepared, sessions>>
    BY <1>2, Zenon
    DEF RecordActive, RebindSession, Acknowledged, OutsideBindings, graph_vars
  <2>2. GrantsKept
    BY <1>0, <2>1, RecordQuiet DEF Open
  <2> QED  BY <2>1, <2>2, QuietStep
<1>3. CASE RecordFailed(b, s, f)
  <2> DEFINE l == bindings[b].lease
             S == {x \in Bindings : Open(x) /\ bindings[x].lease \in {l}}
  <2>1. /\ Acknowledged(b, s, f) /\ Record(b, s, FailedState(b))
        /\ binding_state[b] # "Absent" /\ effects' = BindingEffects("Fence", {l})
        /\ UNCHANGED <<graph, prepared, sessions>>
    BY <1>3, Zenon DEF RecordFailed, Acknowledged, FenceEffects, graph_vars
  <2>2. CASE Open(b)
    <3>1. /\ binding_state' = [binding_state EXCEPT ![b] = "Failed"]
          /\ UNCHANGED <<bindings, last_fence>>
      BY <2>1, <2>2, Zenon DEF Record, FailedState
    <3>2. b \in S /\ S \in SUBSET Bindings /\ \A x \in S : Open(x)
      BY <2>2
    <3>3. effects' = {EffectOn("Fence", x) : x \in S}
      BY <2>1, Zenon DEF BindingEffects
    <3> HIDE DEF S
    <3> QED  BY <1>0, <2>1, <2>2, <3>1, <3>2, <3>3, FailStep
  <2>3. CASE ~Open(b)
    <3>1. FailedState(b) = binding_state[b]
      BY <2>3, Zenon DEF FailedState
    <3>2. GrantsKept
      BY <1>0, <2>1, <2>3, <3>1, RecordQuiet DEF Open
    <3> QED  BY <2>1, <3>2, LeaseTeardownStep
  <2> QED  BY <2>2, <2>3
<1> QED  BY <1>1, <1>2, <1>3

\* A new binding is a new grant of its endpoint.
LEMMA OpeningStep ==
    ASSUME Shaped, NEW b \in Bindings, NEW l \in Leases, NEW n \in Nodes,
           OpenNewBinding(b, l, n)
    PROVE  G!GrantNext
<1> DEFINE k  == graph.contract[n]
           m  == graph.machine_of[n]
           fe == NextFence(b, n, k)
           ep == <<k.provider, n>>
           new == [lease |-> l, node |-> n, provider |-> k.provider,
                   scope |-> k.scope, fence |-> fe]
<1>0. TypeOK /\ BindingsEnforceRoots
  BY Zenon DEF Shaped, AuthorityShape
<1>1. /\ binding_state[b] = "Absent" /\ k # None /\ m # None /\ sessions[m] # 0
      /\ ~ConflictingEndpoint(n, k)
      /\ last_fence' = IF k.scope = "Exclusive" THEN [last_fence EXCEPT ![ep] = fe]
                                                ELSE last_fence
      /\ binding_state' = [binding_state EXCEPT ![b] = "Preparing"]
      /\ bindings' = [bindings EXCEPT ![b] = new]
      /\ effects' = {[kind |-> "Prepare", binding |-> b, fence |-> fe,
                      session |-> sessions[m], epoch |-> epoch]}
      /\ UNCHANGED <<prepared, graph, sessions>>
  BY Zenon DEF OpenNewBinding, OutsideBindings, graph_vars
<1>2. k \in Contract /\ m \in Machines
  <2>1. graph \in Graph
    BY <1>0, ConstantsAssumption, Zenon DEF TypeOK
  <2> QED  BY <1>1, <2>1, Zenon DEF Graph
<1>3. ep \in Providers \X Nodes /\ k.scope \in G!Scope
  BY <1>2, Zenon DEF Contract, BindingScope, G!Scope
<1>4. /\ binding_state'[b] = "Preparing" /\ bindings'[b] = new
      /\ \A x \in Bindings : x # b => /\ binding_state'[x] = binding_state[x]
                                      /\ bindings'[x] = bindings[x]
  <2>1. bindings \in [Bindings -> Binding] /\ binding_state \in [Bindings -> BindingState]
    BY <1>0, Zenon DEF TypeOK
  <2> HIDE DEF new
  <2> QED  BY <1>1, <2>1
<1>5. new.node = n /\ new.provider = k.provider /\ new.scope = k.scope /\ new.fence = fe
  OBVIOUS
<1> HIDE DEF new
<1>6. GState' = [GState EXCEPT ![b] = "Preparing"]
  <2>1. \A x \in Bindings :
            GrantStateOf(x)' = IF x = b THEN "Preparing" ELSE GrantStateOf(x)
    BY <1>4, Zenon DEF GrantStateOf, ClosedBinding
  <2> QED  BY <2>1 DEF GState
<1>7. GGrants' = [GGrants EXCEPT ![b] = [endpoint |-> ep, scope |-> k.scope, fence |-> fe]]
  <2>1. GrantOf(b)' = [endpoint |-> ep, scope |-> k.scope, fence |-> fe]
    BY <1>4, <1>5 DEF GrantOf
  <2>2. \A x \in Bindings : x # b => GrantOf(x)' = GrantOf(x)
    BY <1>4, Zenon DEF GrantOf
  <2> QED  BY <2>1, <2>2 DEF GGrants
<1>8. GServing' = [GServing EXCEPT ![b] = m]
  <2>1. ServingOf(b)' = m
    BY <1>1, <1>4, <1>5 DEF ServingOf, Open, OpenBinding
  <2>2. ASSUME NEW x \in Bindings, x # b PROVE ServingOf(x)' = ServingOf(x)
    <3>1. graph' = graph
      BY <1>1, Zenon
    <3> QED  BY <1>4, <2>2, <3>1, Zenon DEF ServingOf, Open
  <2> HIDE DEF m
  <2> QED  BY <2>1, <2>2 DEF GServing
<1>9. GOrders' = {[kind |-> "Prepare", binding |-> b, fence |-> fe]}
  <2> DEFINE eff == [kind |-> "Prepare", binding |-> b, fence |-> fe,
                     session |-> sessions[m], epoch |-> epoch]
  <2> HIDE DEF fe, m
  <2>1. eff.kind = "Prepare" /\ eff.binding = b /\ eff.fence = fe
    OBVIOUS
  <2>2. effects' = {eff}
    BY <1>1, Zenon
  <2> HIDE DEF eff
  <2> QED  BY <2>1, <2>2, Zenon DEF GOrders, OrdersOf
<1>10. fe = G!FreshFence(b, ep, k.scope)
  BY Zenon DEF NextFence, G!FreshFence
<1>11. ~G!Conflict(ep, k.scope)
  <2> SUFFICES ASSUME NEW x \in G!OpenGrants, GGrants[x].endpoint = ep,
                      "Exclusive" \in {k.scope, GGrants[x].scope}
               PROVE  FALSE
    BY Zenon DEF G!Conflict
  <2>1. x \in Bindings /\ Open(x)
    BY OpenGrantIsOpen, Zenon DEF G!OpenGrants
  <2>2. bindings[x].provider = k.provider /\ bindings[x].node = n
    <3>1. binding_state[x] # "Absent"
      BY <2>1, Zenon DEF Open, OpenBinding
    <3>2. GrantOf(x).endpoint = <<bindings[x].provider, bindings[x].node>>
      BY <3>1 DEF GrantOf
    <3>3. GrantOf(x).endpoint = ep
      BY <2>1, MappedAt, Zenon
    <3> QED  BY <3>2, <3>3
  <2>3. GGrants[x].scope = bindings[x].scope
    BY <2>1, MappedAt, Zenon
  <2> QED  BY <1>1, <2>1, <2>2, <2>3, Zenon DEF ConflictingEndpoint
<1>12. GState[b] = "Absent"
  BY <1>1, OpenGrantIsOpen
<1> HIDE DEF k, m, fe, ep
<1>13. G!GrantEndpoint(b, ep, k.scope, m)
  BY <1>1, <1>6, <1>7, <1>8, <1>9, <1>10, <1>11, <1>12, Zenon DEF G!GrantEndpoint
<1> QED  BY <1>2, <1>3, <1>13, Zenon DEF G!GrantNext

\* Every command on bindings.
LEMMA BindingStep ==
    ASSUME Shaped, ActivePrepared, NEW b \in Bindings, BindingNext(b)
    PROVE  G!GrantNext
<1>0. TypeOK
  BY Zenon DEF Shaped
<1>1. CASE ActivateBinding(b)
  BY <1>0, <1>1, ActivateStep
<1>2. CASE FailBinding(b)
  <2>1. /\ Open(b) /\ effects' = {EffectOn("Fence", b)}
        /\ binding_state' = [binding_state EXCEPT ![b] = "Failed"]
        /\ UNCHANGED <<bindings, graph, prepared, sessions, last_fence>>
    BY <1>2, Zenon DEF FailBinding, OutsideBindings, graph_vars
  <2>2. effects' = {EffectOn("Fence", x) : x \in {b}}
    BY <2>1, Zenon
  <2>3. {b} \in SUBSET Bindings /\ b \in {b} /\ \A x \in {b} : Open(x)
    BY <2>1
  <2> QED  BY <1>0, <2>1, <2>2, <2>3, FailStep, Zenon
<1>3. ASSUME NEW s, NEW f, RecordReleased(b, s, f) \/ RecordFenced(b, s, f)
      PROVE  G!GrantNext
  <2>1. CASE RecordReleased(b, s, f)
    <3>1. "Released" \in ClosedBinding
      BY DEF ClosedBinding
    <3> QED  BY <2>1, <3>1, CloseStep, Zenon DEF RecordReleased
  <2>2. CASE RecordFenced(b, s, f)
    <3>1. "Fenced" \in ClosedBinding
      BY DEF ClosedBinding
    <3> QED  BY <2>2, <3>1, CloseStep, Zenon DEF RecordFenced
  <2> QED  BY <1>3, <2>1, <2>2
<1> QED
  BY <1>1, <1>2, <1>3, SendStep, OpeningStep, RecordStep, Zenon
  DEF BindingNext, Acknowledge

-----------------------------------------------------------------------------
(* Clock, graph, nodes, sessions and fences.                               *)

\* A graph update moves no open binding (install_resource_graph).
LEMMA GraphStep ==
    ASSUME Shaped, NEW g \in Graphs, ApplyResourceFacts(g)
    PROVE  G!GrantNext
<1>1. /\ Installable(g) /\ graph' = g /\ effects' = {}
      /\ UNCHANGED <<binding_state, bindings, prepared, sessions, last_fence>>
  BY Zenon DEF ApplyResourceFacts, binding_vars, node_vars
<1>2. ASSUME NEW b \in Bindings, Open(b)
      PROVE  g.machine_of[bindings[b].node] = graph.machine_of[bindings[b].node]
  <2>1. /\ bindings[b].lease \in Leases
        /\ bindings[b].node \in Claimed(leases[bindings[b].lease].claims)
    BY <1>2, BoundTo DEF Shaped, AuthorityShape, Open, OpenBinding
  <2>2. Occupies(bindings[b].lease)
    BY <1>2 DEF Occupies, OpenBindings
  <2> QED  BY <1>1, <2>1, <2>2, Zenon DEF Installable
<1>3. GrantsKept
  BY <1>1, <1>2, SameGrants, Zenon DEF GrantsKept
<1> QED  BY <1>1, <1>3, QuietStep

\* A new agent session, and a fence reported by an endpoint.
LEMMA NodeStep ==
    ASSUME TypeOK,
           \/ \E p \in Providers, n \in Nodes, f \in 1 .. MaxFence :
                  AdvanceEndpointFence(p, n, f)
           \/ \E m \in Machines, s \in 1 .. MaxSession : SetAgentSession(m, s)
    PROVE  G!GrantNext
<1>1. ASSUME NEW p \in Providers, NEW n \in Nodes, NEW f \in 1 .. MaxFence,
             AdvanceEndpointFence(p, n, f)
      PROVE  G!GrantNext
  <2> DEFINE k == <<p, n>>
             old == last_fence[k]
  <2>1. /\ last_fence' = [last_fence EXCEPT ![k] = IF f > old THEN f ELSE old]
        /\ effects' = {}
        /\ UNCHANGED <<binding_state, bindings, prepared, sessions, graph>>
    BY <1>1, Zenon DEF AdvanceEndpointFence, graph_vars, binding_vars
  <2>2. UNCHANGED <<GState, GGrants, GServing>>
    BY <2>1, SameGrants, Zenon
  <2>3. k \in Providers \X Nodes /\ last_fence \in [Providers \X Nodes -> Nat]
    BY DEF TypeOK
  <2> HIDE DEF k
  <2>4. CASE f > old
    <3>1. last_fence'[k] = f /\ last_fence' = [last_fence EXCEPT ![k] = last_fence'[k]]
      BY <2>1, <2>3, <2>4, Zenon
    <3>2. GOrders' = {}
      BY <2>1, OrdersOfNothing DEF GOrders
    <3>3. last_fence'[k] > last_fence[k]
      BY <2>4, <3>1
    <3>4. G!RaiseWatermark(k, last_fence'[k])
      BY <2>1, <2>2, <3>1, <3>2, <3>3, Zenon DEF G!RaiseWatermark
    <3> QED  BY <2>3, <3>4, Zenon DEF G!GrantNext
  <2>5. CASE ~(f > old)
    <3>1. last_fence' = last_fence
      BY <2>1, <2>3, <2>5
    <3> QED  BY <2>1, <2>2, <3>1, QuietStep, Zenon DEF GrantsKept
  <2> QED  BY <2>4, <2>5
<1>2. ASSUME NEW m \in Machines, NEW s \in 1 .. MaxSession, SetAgentSession(m, s)
      PROVE  G!GrantNext
  <2>1. /\ s >= sessions[m] /\ sessions' = [sessions EXCEPT ![m] = s]
        /\ UNCHANGED <<binding_state, bindings, prepared, last_fence, graph>>
    BY <1>2, Zenon DEF SetAgentSession, graph_vars, binding_vars
  <2>2. \A e \in effects' : e.kind = "Reconcile"
    BY <1>2 DEF SetAgentSession
  <2>3. GOrders' = {}
    BY <2>2, Zenon DEF GOrders, OrdersOf
  <2>4. UNCHANGED <<GState, GGrants, GServing>>
    BY <2>1, SameGrants, Zenon
  <2>5. sessions'[m] = s
    BY <2>1 DEF TypeOK
  <2>6. G!NewSession(m, sessions'[m])
    BY <2>1, <2>3, <2>4, <2>5, Zenon DEF G!NewSession
  <2> QED  BY <2>6, Zenon DEF G!GrantNext
<1> QED  BY <1>1, <1>2

\* Every step of the kernel.
LEMMA KernelStep ==
    ASSUME Shaped, ActivePrepared, Next
    PROVE  G!GrantNext
<1>0. TypeOK
  BY Zenon DEF Shaped
<1>1. CASE \/ \E t \in 0 .. MaxTime : SetNow(t)
           \/ \E a \in AgreementInputs : SetAgreement(a)
           \/ AdvanceEpoch
           \/ \E n \in ControlledNodes : NodeNext(n)
  <2>1. /\ UNCHANGED <<binding_state, bindings, prepared, sessions, last_fence, graph>>
        /\ effects' = {}
    BY <1>1, Zenon
    DEF SetNow, SetAgreement, AdvanceEpoch, NodeNext, QuarantineNode,
        UnquarantineNode, SetNodeState, graph_vars, binding_vars, node_vars
  <2> QED  BY <2>1, SameGrants, QuietStep, Zenon DEF GrantsKept
<1> QED
  BY <1>0, <1>1, LeaseStep, BindingStep, GraphStep, NodeStep, Zenon DEF Next

-----------------------------------------------------------------------------
(* Active leases have prepared bindings.                                   *)

\* No lease becomes Active without its bindings being prepared.
LEMMA LeaseKeepsPrepared ==
    ASSUME Shaped, ActivePrepared, NEW l \in Leases, LeaseNext(l)
    PROVE  ActivePrepared'
<1>0. TypeOK /\ BindingsEnforceRoots
  BY Zenon DEF Shaped, AuthorityShape
<1> DEFINE NoneNewlyActive ==
        \A x \in Leases : lease_state'[x] = "Active" => lease_state[x] = "Active"
<1>1. ASSUME OutsideLeases, NoneNewlyActive PROVE ActivePrepared'
  <2>1. UNCHANGED <<binding_state, bindings, prepared>>
    BY <1>1, Zenon DEF OutsideLeases, binding_vars
  <2> SUFFICES ASSUME NEW b \in Bindings, binding_state[b] \in {"Preparing", "Active"},
                      lease_state'[bindings[b].lease] = "Active"
               PROVE  b \in prepared
    BY <2>1, Zenon DEF ActivePrepared
  <2>2. bindings[b].lease \in Leases
    BY <1>0, BoundTo
  <2> QED  BY <1>1, <2>2, Zenon DEF ActivePrepared
<1>2. ASSUME NEW keep, NEW st, st # "Active", EndTree(l, keep, st) PROVE NoneNewlyActive
  BY <1>2, Zenon DEF EndTree, SetStates
<1>3. ASSUME NEW st, st # "Active", lease_state' = [lease_state EXCEPT ![l] = st]
      PROVE  NoneNewlyActive
  BY <1>0, <1>3 DEF TypeOK
<1>4. ASSUME UNCHANGED lease_state PROVE NoneNewlyActive
  BY <1>4, Zenon
<1> HIDE DEF NoneNewlyActive
<1>5. CASE ActivateLease(l)
  <2>1. /\ BindingsPrepared(l) /\ lease_state' = [lease_state EXCEPT ![l] = "Active"]
        /\ UNCHANGED <<binding_state, bindings, prepared>>
    BY <1>5, Zenon DEF ActivateLease, OutsideLeases, binding_vars
  <2> SUFFICES ASSUME NEW b \in Bindings, binding_state[b] \in {"Preparing", "Active"},
                      lease_state'[bindings[b].lease] = "Active"
               PROVE  b \in prepared
    BY <2>1, Zenon DEF ActivePrepared
  <2>2. CASE bindings[b].lease = l
    BY <2>1, <2>2, Zenon DEF BindingsPrepared
  <2>3. CASE bindings[b].lease # l
    <3>1. bindings[b].lease \in Leases
      BY <1>0, BoundTo
    <3>2. lease_state[bindings[b].lease] = "Active"
      BY <1>0, <2>1, <2>3, <3>1 DEF TypeOK
    <3> QED  BY <3>2, Zenon DEF ActivePrepared
  <2> QED  BY <2>2, <2>3
<1>6. ASSUME NEW c \in ClaimSets, NEW exp \in Expiries, ReserveLease(l, c, exp)
      PROVE  ActivePrepared'
  BY <1>1, <1>3, <1>6, Zenon DEF ReserveLease, NewLease
<1>7. ASSUME NEW c \in ClaimSets, NEW exp \in Expiries,
             NEW p \in Leases \cup {None}, NEW dl \in Deadlines,
             OpenLease(l, c, p, exp, dl)
      PROVE  ActivePrepared'
  BY <1>1, <1>3, <1>7, Zenon DEF OpenLease, NewLease
<1>8. ASSUME NEW dl \in Deadlines, PromoteLease(l, dl) PROVE ActivePrepared'
  BY <1>1, <1>3, <1>8, Zenon DEF PromoteLease
<1>9. ASSUME NEW exp \in Expiries, RenewLease(l, exp) PROVE ActivePrepared'
  BY <1>1, <1>4, <1>9, Zenon DEF RenewLease
<1>10. ASSUME NEW final \in {"Completed", "Failed"}, CompleteLease(l, final)
       PROVE  ActivePrepared'
  BY <1>1, <1>2, <1>4, <1>10, Zenon DEF CompleteLease, lease_vars
<1>11. CASE FailLease(l) \/ RevokeLease(l)
  BY <1>1, <1>2, <1>11, Zenon DEF FailLease, RevokeLease
<1>12. CASE ReleaseLease(l)
  BY <1>1, <1>3, <1>12, Zenon DEF ReleaseLease
<1>13. CASE ExpireLease(l)
  BY <1>1, <1>2, <1>4, <1>13, Zenon DEF ExpireLease, lease_vars
<1> QED
  BY <1>5, <1>6, <1>7, <1>8, <1>9, <1>10, <1>11, <1>12, <1>13, Zenon DEF LeaseNext

\* Commands on bindings keep them prepared.
LEMMA BindingKeepsPrepared ==
    ASSUME Shaped, ActivePrepared, NEW b \in Bindings, BindingNext(b)
    PROVE  ActivePrepared'
<1>0. TypeOK /\ BindingsEnforceRoots
  BY Zenon DEF Shaped, AuthorityShape
<1>1. ASSUME UNCHANGED bindings, prepared \subseteq prepared', NEW st,
             binding_state' = [binding_state EXCEPT ![b] = st],
             st \in {"Preparing", "Active"}
                 => binding_state[b] \in {"Preparing", "Active"},
             \A x \in Leases : lease_state'[x] = "Active" => lease_state[x] = "Active",
             binding_state[b] # "Absent"
      PROVE  ActivePrepared'
  <2> SUFFICES ASSUME NEW x \in Bindings, binding_state'[x] \in {"Preparing", "Active"},
                      lease_state'[bindings[x].lease] = "Active"
               PROVE  x \in prepared
    BY <1>1, Zenon DEF ActivePrepared
  <2>1. binding_state[x] \in {"Preparing", "Active"}
    BY <1>0, <1>1, Zenon DEF TypeOK
  <2>2. bindings[x].lease \in Leases
    BY <1>0, <2>1, BoundTo, Zenon
  <2> QED  BY <1>1, <2>1, <2>2, Zenon DEF ActivePrepared
<1>2. ASSUME NEW l \in Leases, NEW n \in Nodes, OpenNewBinding(b, l, n)
      PROVE  ActivePrepared'
  <2>1. lease_state[l] = "Preparing" /\ UNCHANGED <<lease_state, prepared>>
    BY <1>2, Zenon DEF OpenNewBinding, Bindable, OutsideBindings, lease_vars
  <2>2. PICK new : bindings' = [bindings EXCEPT ![b] = new] /\ new.lease = l
    <3> DEFINE k == graph.contract[n]
               new == [lease |-> l, node |-> n, provider |-> k.provider,
                       scope |-> k.scope, fence |-> NextFence(b, n, k)]
    <3>1. bindings' = [bindings EXCEPT ![b] = new]
      BY <1>2, Zenon DEF OpenNewBinding
    <3>2. new.lease = l
      OBVIOUS
    <3> HIDE DEF new
    <3> QED  BY <3>1, <3>2, Zenon
  <2>3. \A x \in Bindings : x # b => binding_state'[x] = binding_state[x]
    <3>1. binding_state' = [binding_state EXCEPT ![b] = "Preparing"]
      BY <1>2, Zenon DEF OpenNewBinding
    <3> QED  BY <1>0, <3>1 DEF TypeOK
  <2>4. bindings'[b].lease = l /\ \A x \in Bindings : x # b => bindings'[x] = bindings[x]
    BY <1>0, <2>2 DEF TypeOK
  <2> QED  BY <2>1, <2>3, <2>4 DEF ActivePrepared
<1>3. ASSUME NEW kind, Send(kind, b) PROVE ActivePrepared'
  BY <1>3, Zenon DEF Send, OutsideBindings, lease_vars, binding_vars, ActivePrepared
<1>4. CASE RetryOpenBinding(b) \/ FenceBinding(b) \/ ReleaseBinding(b)
  BY <1>3, <1>4, Zenon DEF RetryOpenBinding, FenceBinding, ReleaseBinding
<1>5. CASE ActivateBinding(b) \/ FailBinding(b)
  <2>1. /\ UNCHANGED <<bindings, prepared, lease_state>> /\ binding_state[b] # "Absent"
        /\ \/ /\ binding_state' = [binding_state EXCEPT ![b] = "Active"]
              /\ binding_state[b] \in {"Preparing", "Active"}
           \/ binding_state' = [binding_state EXCEPT ![b] = "Failed"]
    BY <1>5, Zenon
    DEF ActivateBinding, FailBinding, Open, OpenBinding, OutsideBindings, lease_vars
  <2> QED  BY <1>1, <2>1, Zenon
<1>6. ASSUME NEW s, NEW f, Acknowledge(b, s, f) \/ RebindSession(b, s)
      PROVE  ActivePrepared'
  <2>1. /\ binding_state[b] # "Absent" /\ prepared \subseteq prepared'
        /\ \A x \in Leases : lease_state'[x] = "Active" => lease_state[x] = "Active"
    <3>1. CASE RecordFailed(b, s, f)
      BY <3>1, Zenon DEF RecordFailed, Acknowledged, SetStates
    <3>2. CASE RecordPrepared(b, s, f)
      BY <3>2 DEF RecordPrepared, Acknowledged, OutsideBindings, lease_vars
    <3>3. CASE \/ RecordActive(b, s, f) \/ RecordReleased(b, s, f)
               \/ RecordFenced(b, s, f) \/ RebindSession(b, s)
      BY <3>3, Zenon
      DEF RecordActive, RecordReleased, RecordFenced, RebindSession, Acknowledged,
          OutsideBindings, lease_vars
    <3> QED  BY <1>6, <3>1, <3>2, <3>3, Zenon DEF Acknowledge
  <2>2. PICK st : /\ Record(b, s, st)
                  /\ st \in {"Preparing", "Active"} => st = binding_state[b]
    <3>1. CASE RecordReleased(b, s, f) \/ RecordFenced(b, s, f)
      BY <3>1 DEF RecordReleased, RecordFenced
    <3>2. CASE RecordFailed(b, s, f)
      <4>1. Record(b, s, FailedState(b))
        BY <3>2, Zenon DEF RecordFailed
      <4>2. FailedState(b) \in {"Preparing", "Active"} => FailedState(b) = binding_state[b]
        BY DEF FailedState
      <4> QED  BY <4>1, <4>2, Zenon
    <3>3. CASE RecordPrepared(b, s, f) \/ RecordActive(b, s, f) \/ RebindSession(b, s)
      BY <3>3, Zenon DEF RecordPrepared, RecordActive, RebindSession
    <3> QED  BY <1>6, <3>1, <3>2, <3>3, Zenon DEF Acknowledge
  <2>3. binding_state' = [binding_state EXCEPT ![b] = st] /\ UNCHANGED bindings
    BY <2>2, Zenon DEF Record
  <2> QED  BY <1>1, <2>1, <2>2, <2>3
<1> QED
  BY <1>2, <1>4, <1>5, <1>6, Zenon DEF BindingNext

\* Every step keeps the invariant behind the refinement.
LEMMA NextPrepared == Shaped /\ ActivePrepared /\ [Next]_vars => ActivePrepared'
<1> SUFFICES ASSUME Shaped, ActivePrepared, [Next]_vars PROVE ActivePrepared'
  OBVIOUS
<1>1. ASSUME UNCHANGED <<lease_state, binding_state, bindings, prepared>>
      PROVE  ActivePrepared'
  BY <1>1, Zenon DEF ActivePrepared
<1>2. CASE UNCHANGED vars
  BY <1>1, <1>2, Zenon DEF vars, lease_vars, binding_vars
<1>3. CASE \/ \E t \in 0 .. MaxTime : SetNow(t)
           \/ \E a \in AgreementInputs : SetAgreement(a)
           \/ AdvanceEpoch
           \/ \E g \in Graphs : ApplyResourceFacts(g)
           \/ \E n \in ControlledNodes : NodeNext(n)
           \/ \E p \in Providers, n \in Nodes, f \in 1 .. MaxFence :
                  AdvanceEndpointFence(p, n, f)
           \/ \E m \in Machines, s \in 1 .. MaxSession : SetAgentSession(m, s)
  BY <1>1, <1>3, Zenon
  DEF SetNow, SetAgreement, AdvanceEpoch, ApplyResourceFacts, NodeNext,
      QuarantineNode, UnquarantineNode, SetNodeState, AdvanceEndpointFence,
      SetAgentSession, lease_vars, binding_vars
<1> QED
  BY <1>2, <1>3, LeaseKeepsPrepared, BindingKeepsPrepared, Zenon DEF Next

\* The kernel starts with no grants.
LEMMA InitGrants == Init => ActivePrepared /\ G!GrantInit
<1> SUFFICES ASSUME Init PROVE ActivePrepared /\ G!GrantInit
  OBVIOUS
<1>1. /\ binding_state = [b \in Bindings |-> "Absent"]
      /\ bindings = [b \in Bindings |-> NoBinding] /\ prepared = {} /\ effects = {}
      /\ sessions = [m \in Machines |-> 0]
      /\ last_fence = [k \in Providers \X Nodes |-> 0]
  BY Zenon DEF Init
<1>2. \A b \in Bindings : binding_state[b] = "Absent" /\ bindings[b] = NoBinding
  BY <1>1, Zenon
<1>3. \A b \in Bindings : /\ GrantStateOf(b) = "Absent" /\ GrantOf(b) = G!NoGrant
                          /\ ServingOf(b) = None
  BY <1>2
  DEF GrantStateOf, GrantOf, ServingOf, Open, OpenBinding, ClosedBinding, NoBinding,
      G!NoGrant
<1>4. GOrders = {}
  BY <1>1, OrdersOfNothing DEF GOrders
<1>5. ActivePrepared
  BY <1>2 DEF ActivePrepared
<1>6. /\ GState = [b \in Bindings |-> "Absent"] /\ GGrants = [b \in Bindings |-> G!NoGrant]
      /\ GServing = [b \in Bindings |-> None]
  BY <1>3 DEF GState, GGrants, GServing
<1> QED  BY <1>1, <1>4, <1>5, <1>6, Zenon DEF G!GrantInit

\* The kernel (cluster.rs apply) keeps the promise of Grants: every command it
\* accepts is, for the agents, a grant, an order, a confirmation or a closing
\* that Grants allows, or nothing.
THEOREM KernelImplementsGrants == Spec => ImplementsGrants
<1>1. Shaped /\ ActivePrepared /\ [Next]_vars => [G!GrantNext]_(G!grant_vars)
  <2> SUFFICES ASSUME Shaped, ActivePrepared, [Next]_vars
               PROVE  [G!GrantNext]_(G!grant_vars)
    OBVIOUS
  <2>1. CASE UNCHANGED vars
    <3>1. UNCHANGED <<binding_state, bindings, prepared, sessions, last_fence, graph, effects>>
      BY <2>1, Zenon DEF vars, graph_vars, binding_vars, node_vars
    <3>2. UNCHANGED <<GState, GGrants, GServing>> /\ GOrders' = GOrders
      BY <3>1, SameGrants, Zenon DEF GOrders
    <3> QED  BY <3>1, <3>2, Zenon DEF G!grant_vars
  <2> QED  BY <2>1, KernelStep, Zenon
<1> QED
  BY <1>1, InitShaped, NextShaped, InitGrants, NextPrepared, PTL
  DEF Spec, ImplementsGrants, G!GrantSpec
-----------------------------------------------------------------------------
(* The replay: the kernel of ClusterReplay, beside its second instance,    *)
(* which starts from a snapshot with this clock.                           *)

VARIABLE clock

R == INSTANCE ClusterReplay

\* The replaying kernel reads leases, bindings and the graph as the kernel does.
LEMMA SameQueries ==
    /\ \A l : R!Replayed!Exists(l) <=> R!Exists(l)
    /\ \A b : R!Replayed!Open(b) <=> R!Open(b)
    /\ \A l : R!Replayed!Occupies(l) <=> R!Occupies(l)
    /\ \A l : R!Replayed!Descendants(l) = R!Descendants(l)
    /\ \A c : R!Replayed!Claimed(c) = R!Claimed(c)
    /\ \A c : R!Replayed!ResolveClaim(c) = R!ResolveClaim(c)
    /\ \A n : R!Replayed!NodeQuarantined(n) <=> R!NodeQuarantined(n)
    /\ \A n : R!Replayed!OpenInScope(n) <=> R!OpenInScope(n)
    /\ \A b, s : R!Replayed!RequireSession(b, s) <=> R!RequireSession(b, s)
    /\ \A k, b : R!Replayed!EffectOn(k, b) = R!EffectOn(k, b)
<1>1. /\ \A l : R!Replayed!Exists(l) <=> R!Exists(l)
      /\ \A b : R!Replayed!Open(b) <=> R!Open(b)
  BY Zenon DEF R!Replayed!Exists, R!Exists, R!Replayed!Open, R!Open, R!Replayed!OpenBinding,
      R!OpenBinding
<1>2. \A l : R!Replayed!Occupies(l) <=> R!Occupies(l)
  BY Zenon DEF R!Replayed!Occupies, R!Occupies, R!Replayed!LiveLease, R!LiveLease,
      R!Replayed!OpenBindings, R!OpenBindings, R!Replayed!Open, R!Open, R!Replayed!OpenBinding,
      R!OpenBinding
<1>3. \A l : R!Replayed!Descendants(l) = R!Descendants(l)
  BY Zenon DEF R!Replayed!Descendants, R!Descendants, R!Replayed!DescendantClosed,
      R!DescendantClosed, R!Replayed!Children, R!Children
<1>4. /\ \A c : R!Replayed!Claimed(c) = R!Claimed(c)
      /\ \A c : R!Replayed!ResolveClaim(c) = R!ResolveClaim(c)
  BY Zenon DEF R!Replayed!Claimed, R!Claimed, R!Replayed!ResolveClaim, R!ResolveClaim
<1>5. \A n : R!Replayed!NodeQuarantined(n) <=> R!NodeQuarantined(n)
  BY Zenon DEF R!Replayed!NodeQuarantined, R!NodeQuarantined
<1>6. \A n : R!Replayed!OpenInScope(n) <=> R!OpenInScope(n)
  BY Zenon DEF R!Replayed!OpenInScope, R!OpenInScope, R!Replayed!InScope, R!InScope,
      R!Replayed!Open, R!Open, R!Replayed!OpenBinding, R!OpenBinding
<1>7. \A b, s : R!Replayed!RequireSession(b, s) <=> R!RequireSession(b, s)
  BY Zenon DEF R!Replayed!RequireSession, R!RequireSession
<1>8. \A k, b : R!Replayed!EffectOn(k, b) = R!EffectOn(k, b)
  BY Zenon DEF R!Replayed!EffectOn, R!EffectOn, R!Replayed!EffectSession, R!EffectSession
<1> QED  BY <1>1, <1>2, <1>3, <1>4, <1>5, <1>6, <1>7, <1>8, Zenon

\* What the replaying kernel makes of effects and of room, likewise.
LEMMA SameRoom ==
    /\ \A l, c : R!Replayed!CanCover(l, c) <=> R!CanCover(l, c)
    /\ \A p, c : R!Replayed!Delegable(p, c) <=> R!Delegable(p, c)
    /\ \A c : R!Replayed!Claimable(c) <=> R!Claimable(c)
    /\ \A c : R!Replayed!Placeable(c) <=> R!Placeable(c)
    /\ \A S : R!Replayed!FenceEffects(S) = R!FenceEffects(S)
    /\ \A S : R!Replayed!ReleaseEffects(S) = R!ReleaseEffects(S)
    /\ \A S, keep, st : R!Replayed!SetStates(S, keep, st) = R!SetStates(S, keep, st)
    /\ \A g : R!Replayed!Installable(g) <=> R!Installable(g)
    /\ \A n : R!Replayed!NodeHasLiveAuthority(n) <=> R!NodeHasLiveAuthority(n)
    /\ \A n, k : R!Replayed!ConflictingEndpoint(n, k) <=> R!ConflictingEndpoint(n, k)
<1>1. \A S : R!Replayed!Cardinality(S) = R!Cardinality(S)
  BY Zenon DEF R!Replayed!Cardinality, R!Cardinality
<1>2. /\ \A S, n : R!Replayed!Units(S, n) = R!Units(S, n)
      /\ \A p : R!Replayed!Children(p) = R!Children(p)
  BY Zenon DEF R!Replayed!Units, R!Units, R!Replayed!Children, R!Children
<1>3. \A X : R!Replayed!Roots(X) = R!Roots(X)
  BY Zenon DEF R!Replayed!Roots, R!Roots, R!Replayed!Occupies, R!Occupies, R!Replayed!LiveLease,
      R!LiveLease, R!Replayed!OpenBindings, R!OpenBindings, R!Replayed!Open, R!Open,
      R!Replayed!OpenBinding, R!OpenBinding
<1>4. \A X, n : R!Replayed!OccupancyExcept(X, n) = R!OccupancyExcept(X, n)
  BY <1>1, <1>2, <1>3, Zenon DEF R!Replayed!OccupancyExcept, R!OccupancyExcept
<1>5. \A p, n : R!Replayed!SubtreeUsed(p, n) = R!SubtreeUsed(p, n)
  BY <1>1, <1>2, SameQueries, Zenon DEF R!Replayed!SubtreeUsed, R!SubtreeUsed
<1>6. \A l, c : R!Replayed!CanCover(l, c) <=> R!CanCover(l, c)
  BY <1>4, SameQueries, Zenon DEF R!Replayed!CanCover, R!CanCover
<1>7. \A p, c : R!Replayed!Delegable(p, c) <=> R!Delegable(p, c)
  BY <1>4, <1>5, SameQueries, Zenon DEF R!Replayed!Delegable, R!Delegable,
      R!Replayed!Covers, R!Covers, R!Replayed!FitsParent, R!FitsParent
<1>8. /\ \A c : R!Replayed!Claimable(c) <=> R!Claimable(c)
      /\ \A c : R!Replayed!Placeable(c) <=> R!Placeable(c)
  BY Zenon DEF R!Replayed!Claimable, R!Claimable, R!Replayed!Placeable, R!Placeable,
      R!Replayed!Claimed, R!Claimed, R!Replayed!ResolveClaim, R!ResolveClaim,
      R!Replayed!NodeQuarantined, R!NodeQuarantined
<1>9. /\ \A S : R!Replayed!FenceEffects(S) = R!FenceEffects(S)
      /\ \A S : R!Replayed!ReleaseEffects(S) = R!ReleaseEffects(S)
  BY Zenon DEF R!Replayed!FenceEffects, R!FenceEffects, R!Replayed!ReleaseEffects,
      R!ReleaseEffects, R!Replayed!BindingEffects, R!BindingEffects, R!Replayed!EffectOn,
      R!EffectOn, R!Replayed!EffectSession, R!EffectSession, R!Replayed!Open, R!Open,
      R!Replayed!OpenBinding, R!OpenBinding
<1>10. \A S, keep, st : R!Replayed!SetStates(S, keep, st) = R!SetStates(S, keep, st)
  BY Zenon DEF R!Replayed!SetStates, R!SetStates
<1>11. \A g : R!Replayed!Installable(g) <=> R!Installable(g)
  BY <1>4, SameQueries, Zenon DEF R!Replayed!Installable, R!Installable
<1>12. \A n : R!Replayed!NodeHasLiveAuthority(n) <=> R!NodeHasLiveAuthority(n)
  BY Zenon DEF R!Replayed!NodeHasLiveAuthority, R!NodeHasLiveAuthority,
      R!Replayed!OpenInScope, R!OpenInScope, R!Replayed!InScope, R!InScope, R!Replayed!Claimed,
      R!Claimed, R!Replayed!Occupies, R!Occupies, R!Replayed!LiveLease, R!LiveLease,
      R!Replayed!OpenBindings, R!OpenBindings, R!Replayed!Open, R!Open, R!Replayed!OpenBinding,
      R!OpenBinding
<1>13. \A n, k : R!Replayed!ConflictingEndpoint(n, k) <=> R!ConflictingEndpoint(n, k)
  BY Zenon DEF R!Replayed!ConflictingEndpoint, R!ConflictingEndpoint, R!Replayed!Open, R!Open,
      R!Replayed!OpenBinding, R!OpenBinding
<1> QED  BY <1>6, <1>7, <1>8, <1>9, <1>10, <1>11, <1>12, <1>13, Zenon

\* Replay accepts every command on a lease that the kernel accepted, whatever
\* the clocks say.
LEMMA LeaseReplayed ==
    ASSUME clock' = clock, NEW l \in Leases, R!LeaseNext(l)
    PROVE  R!Replayed!LeaseNext(l)
<1> USE SameQueries, SameRoom
<1> USE DEF R!Replayed!OutsideLeases, R!OutsideLeases, R!Replayed!clock_vars, R!clock_vars,
            R!Replayed!graph_vars, R!graph_vars, R!Replayed!binding_vars, R!binding_vars,
            R!Replayed!node_vars, R!node_vars
<1>1. ASSUME NEW c \in ClaimSets, NEW exp \in Expiries, R!ReserveLease(l, c, exp)
      PROVE  R!Replayed!ReserveLease(l, c, exp)
  BY <1>1, Zenon DEF R!Replayed!ReserveLease, R!ReserveLease, R!Replayed!NewLease, R!NewLease
<1>2. ASSUME NEW c \in ClaimSets, NEW exp \in Expiries, NEW p \in Leases \cup {None},
             NEW dl \in Deadlines, R!OpenLease(l, c, p, exp, dl)
      PROVE  R!Replayed!OpenLease(l, c, p, exp, dl)
  BY <1>2, Zenon DEF R!Replayed!OpenLease, R!OpenLease, R!Replayed!NewLease, R!NewLease
<1>3. ASSUME NEW dl \in Deadlines, R!PromoteLease(l, dl)
      PROVE  R!Replayed!PromoteLease(l, dl)
  BY <1>3, Zenon DEF R!Replayed!PromoteLease, R!PromoteLease, R!Replayed!Unexpired
<1>4. ASSUME NEW exp \in Expiries, R!RenewLease(l, exp)
      PROVE  R!Replayed!RenewLease(l, exp)
  BY <1>4, Zenon DEF R!Replayed!RenewLease, R!RenewLease, R!Replayed!Later
<1>5. ASSUME NEW final \in {"Completed", "Failed"}, R!CompleteLease(l, final)
      PROVE  R!Replayed!CompleteLease(l, final)
  BY <1>5, Zenon DEF R!Replayed!CompleteLease, R!CompleteLease, R!Replayed!EndTree, R!EndTree,
      R!Replayed!LiveLease, R!LiveLease, R!Replayed!EndedLease, R!EndedLease,
      R!Replayed!lease_vars, R!lease_vars
<1>6. ASSUME R!ActivateLease(l)
      PROVE  R!Replayed!ActivateLease(l)
  BY <1>6, Zenon DEF R!Replayed!ActivateLease, R!ActivateLease, R!Replayed!BindingsPrepared,
      R!BindingsPrepared, R!Replayed!Unexpired, R!Replayed!WithinDeadline
<1>7. ASSUME R!FailLease(l)
      PROVE  R!Replayed!FailLease(l)
  BY <1>7, Zenon DEF R!Replayed!FailLease, R!FailLease, R!Replayed!EndTree, R!EndTree,
      R!Replayed!EndedLease, R!EndedLease
<1>8. ASSUME R!ReleaseLease(l)
      PROVE  R!Replayed!ReleaseLease(l)
  BY <1>8, Zenon DEF R!Replayed!ReleaseLease, R!ReleaseLease
<1>9. ASSUME R!RevokeLease(l)
      PROVE  R!Replayed!RevokeLease(l)
  BY <1>9, Zenon DEF R!Replayed!RevokeLease, R!RevokeLease, R!Replayed!EndTree, R!EndTree,
      R!Replayed!EndedLease, R!EndedLease
<1>10. ASSUME R!ExpireLease(l)
      PROVE  R!Replayed!ExpireLease(l)
  BY <1>10, Zenon DEF R!Replayed!ExpireLease, R!ExpireLease, R!Replayed!EndTree, R!EndTree,
      R!Replayed!LiveLease, R!LiveLease, R!Replayed!EndedLease, R!EndedLease,
      R!Replayed!lease_vars, R!lease_vars, R!Replayed!Expired
<1> QED
  BY <1>1, <1>2, <1>3, <1>4, <1>5, <1>6, <1>7, <1>8, <1>9, <1>10, Zenon
  DEF R!LeaseNext, R!Replayed!LeaseNext

\* Replay accepts every command on a binding that the kernel accepted.
LEMMA BindingReplayed ==
    ASSUME clock' = clock, NEW b \in Bindings, R!BindingNext(b)
    PROVE  R!Replayed!BindingNext(b)
<1> USE SameQueries, SameRoom
<1> USE DEF R!Replayed!OutsideBindings, R!OutsideBindings, R!Replayed!clock_vars, R!clock_vars,
            R!Replayed!graph_vars, R!graph_vars, R!Replayed!lease_vars, R!lease_vars,
            R!Replayed!binding_vars, R!binding_vars
<1>1. ASSUME NEW l \in Leases, NEW n \in Nodes, R!OpenNewBinding(b, l, n)
      PROVE  R!Replayed!OpenNewBinding(b, l, n)
  BY <1>1, Zenon DEF R!Replayed!OpenNewBinding, R!OpenNewBinding, R!Replayed!Bindable,
      R!Bindable, R!Replayed!NextFence, R!NextFence
<1>2. ASSUME R!RetryOpenBinding(b)
      PROVE  R!Replayed!RetryOpenBinding(b)
  BY <1>2, Zenon DEF R!Replayed!RetryOpenBinding, R!RetryOpenBinding, R!Replayed!Send, R!Send
<1>3. ASSUME R!ActivateBinding(b)
      PROVE  R!Replayed!ActivateBinding(b)
  BY <1>3, Zenon DEF R!Replayed!ActivateBinding, R!ActivateBinding
<1>4. ASSUME R!FenceBinding(b)
      PROVE  R!Replayed!FenceBinding(b)
  BY <1>4, Zenon DEF R!Replayed!FenceBinding, R!FenceBinding, R!Replayed!OpenBinding,
      R!OpenBinding, R!Replayed!Send, R!Send
<1>5. ASSUME R!FailBinding(b)
      PROVE  R!Replayed!FailBinding(b)
  BY <1>5, Zenon DEF R!Replayed!FailBinding, R!FailBinding
<1>6. ASSUME R!ReleaseBinding(b)
      PROVE  R!Replayed!ReleaseBinding(b)
  BY <1>6, Zenon DEF R!Replayed!ReleaseBinding, R!ReleaseBinding, R!Replayed!OpenBinding,
      R!OpenBinding, R!Replayed!Send, R!Send
<1>7. ASSUME NEW s \in 1 .. MaxSession, R!RebindSession(b, s)
      PROVE  R!Replayed!RebindSession(b, s)
  BY <1>7, Zenon DEF R!Replayed!RebindSession, R!RebindSession, R!Replayed!Record, R!Record
<1>8. ASSUME NEW s \in 1 .. MaxSession, NEW x \in Bindings,
             R!Acknowledge(b, s, bindings[x].fence)
      PROVE  R!Replayed!Acknowledge(b, s, bindings[x].fence)
  BY <1>8, Zenon DEF R!Replayed!Acknowledge, R!Acknowledge, R!Replayed!Acknowledged,
      R!Acknowledged, R!Replayed!Record, R!Record, R!Replayed!RecordPrepared, R!RecordPrepared,
      R!Replayed!RecordActive, R!RecordActive, R!Replayed!RecordReleased, R!RecordReleased,
      R!Replayed!RecordFenced, R!RecordFenced, R!Replayed!RecordFailed, R!RecordFailed,
      R!Replayed!FailedState, R!FailedState, R!Replayed!EndedLease, R!EndedLease
<1> QED  BY <1>1, <1>2, <1>3, <1>4, <1>5, <1>6, <1>7, <1>8,
             Zenon DEF R!BindingNext, R!Replayed!BindingNext

\* Replay accepts every command on nodes, fences, sessions and the graph that
\* the kernel accepted.
LEMMA OtherReplayed ==
    ASSUME clock' = clock
    PROVE  /\ \A g \in Graphs : R!ApplyResourceFacts(g) => R!Replayed!ApplyResourceFacts(g)
           /\ \A n \in ControlledNodes : R!NodeNext(n) => R!Replayed!NodeNext(n)
           /\ \A p \in Providers, n \in Nodes, f \in 1 .. MaxFence :
                  R!AdvanceEndpointFence(p, n, f) => R!Replayed!AdvanceEndpointFence(p, n, f)
           /\ \A m \in Machines, s \in 1 .. MaxSession :
                  R!SetAgentSession(m, s) => R!Replayed!SetAgentSession(m, s)
<1> USE SameQueries, SameRoom
<1> USE DEF R!Replayed!clock_vars, R!clock_vars, R!Replayed!graph_vars, R!graph_vars,
            R!Replayed!lease_vars, R!lease_vars, R!Replayed!binding_vars, R!binding_vars,
            R!Replayed!node_vars, R!node_vars
<1>1. ASSUME NEW g \in Graphs, R!ApplyResourceFacts(g)
      PROVE  R!Replayed!ApplyResourceFacts(g)
  BY <1>1, Zenon DEF R!Replayed!ApplyResourceFacts, R!ApplyResourceFacts
<1>2. ASSUME NEW n \in ControlledNodes, R!NodeNext(n)
      PROVE  R!Replayed!NodeNext(n)
  BY <1>2, Zenon DEF R!Replayed!NodeNext, R!NodeNext, R!Replayed!NodeState, R!NodeState,
      R!Replayed!SetNodeState, R!SetNodeState, R!Replayed!QuarantineNode, R!QuarantineNode,
      R!Replayed!UnquarantineNode, R!UnquarantineNode, R!Replayed!NodeStateAllowed,
      R!NodeStateAllowed
<1>3. ASSUME NEW p \in Providers, NEW n \in Nodes, NEW f \in 1 .. MaxFence,
             R!AdvanceEndpointFence(p, n, f)
      PROVE  R!Replayed!AdvanceEndpointFence(p, n, f)
  BY <1>3, Zenon DEF R!Replayed!AdvanceEndpointFence, R!AdvanceEndpointFence
<1>4. ASSUME NEW m \in Machines, NEW s \in 1 .. MaxSession, R!SetAgentSession(m, s)
      PROVE  R!Replayed!SetAgentSession(m, s)
  BY <1>4, Zenon DEF R!Replayed!SetAgentSession, R!SetAgentSession,
      R!Replayed!LiveMachineBindings, R!LiveMachineBindings
<1> QED  BY <1>1, <1>2, <1>3, <1>4, Zenon

\* The clocks of the kernel and of its snapshots stay within their bound.
ClocksBounded == now \in 0 .. MaxTime /\ clock \in 0 .. MaxTime

\* Only SetNow moves the clock.
LEMMA NextClock == R!Next => now' = now \/ now' \in 0 .. MaxTime
<1> SUFFICES ASSUME R!Next PROVE now' = now \/ now' \in 0 .. MaxTime
  OBVIOUS
<1> USE DEF R!clock_vars
<1>1. ASSUME NEW l \in Leases, R!LeaseNext(l) PROVE now' = now
  BY <1>1 DEF R!LeaseNext, R!ReserveLease, R!OpenLease, R!NewLease, R!PromoteLease, R!RenewLease,
      R!CompleteLease, R!ActivateLease, R!FailLease, R!ReleaseLease, R!RevokeLease, R!ExpireLease,
      R!OutsideLeases
<1>2. ASSUME NEW b \in Bindings, R!BindingNext(b) PROVE now' = now
  BY <1>2 DEF R!BindingNext, R!OpenNewBinding, R!RetryOpenBinding, R!ActivateBinding,
      R!FenceBinding, R!FailBinding, R!ReleaseBinding, R!RebindSession, R!Acknowledge,
      R!RecordPrepared, R!RecordActive, R!RecordReleased, R!RecordFenced, R!RecordFailed, R!Send,
      R!OutsideBindings
<1>3. ASSUME NEW n \in ControlledNodes, R!NodeNext(n) PROVE now' = now
  BY <1>3 DEF R!NodeNext, R!SetNodeState, R!QuarantineNode, R!UnquarantineNode
<1> QED
  BY <1>1, <1>2, <1>3 DEF R!Next, R!SetNow, R!SetAgreement, R!AdvanceEpoch,
      R!ApplyResourceFacts, R!AdvanceEndpointFence, R!SetAgentSession

\* Every command that the kernel accepted is accepted again by the replay, at
\* the clock of whichever snapshot it starts from, and does the same
\* (ReplayAgrees): replay skips every guard that reads the clock.
THEOREM ReplayAccepts == R!ReplaySpec => R!ReplayAgrees
<1>1. R!ReplayInit => ClocksBounded
  BY ConstantsAssumption DEF R!ReplayInit, R!Init, ClocksBounded
<1>2. ClocksBounded /\ [R!ReplayNext]_<<R!vars, clock>> => ClocksBounded'
  BY NextClock, Zenon DEF R!ReplayNext, R!Snapshot, R!vars, R!clock_vars, ClocksBounded
<1>3. ClocksBounded /\ [R!ReplayNext]_<<R!vars, clock>> => [R!ReplayStep]_(R!vars)
  <2> SUFFICES ASSUME ClocksBounded, R!Next, clock' = clock, UNCHANGED R!clock_vars
               PROVE  R!Replayed!Next
    BY Zenon DEF R!ReplayNext, R!Snapshot, R!ReplayStep
  <2>1. ASSUME NEW t \in 0 .. MaxTime, R!SetNow(t)
        PROVE  R!Replayed!SetNow(clock) /\ clock \in 0 .. MaxTime
    BY <2>1, Zenon DEF R!SetNow, R!Replayed!SetNow, ClocksBounded, R!clock_vars,
        R!Replayed!graph_vars, R!Replayed!lease_vars, R!Replayed!binding_vars,
        R!Replayed!node_vars, R!graph_vars, R!lease_vars, R!binding_vars, R!node_vars
  <2>2. ASSUME NEW a \in AgreementInputs, R!SetAgreement(a) PROVE R!Replayed!SetAgreement(a)
    BY <2>2, Zenon DEF R!SetAgreement, R!Replayed!SetAgreement, R!Replayed!graph_vars,
        R!Replayed!lease_vars, R!Replayed!binding_vars, R!Replayed!node_vars, R!graph_vars,
        R!lease_vars, R!binding_vars, R!node_vars
  <2>3. CASE R!AdvanceEpoch
    BY <2>3, Zenon DEF R!AdvanceEpoch, R!Replayed!AdvanceEpoch, R!Replayed!Next,
        R!Replayed!graph_vars, R!Replayed!lease_vars, R!Replayed!binding_vars,
        R!Replayed!node_vars, R!graph_vars, R!lease_vars, R!binding_vars, R!node_vars
  <2> QED
    BY <2>1, <2>2, <2>3, LeaseReplayed, BindingReplayed, OtherReplayed, Zenon
    DEF R!Next, R!Replayed!Next
<1> QED
  BY <1>1, <1>2, <1>3, PTL DEF R!ReplaySpec, R!ReplayAgrees
=============================================================================
