--------------------------- MODULE ProviderProofs ---------------------------
(***************************************************************************)
(* Proofs about Provider, for any set of generations that satisfies        *)
(* GenerationsAssumption, any number of endpoints, sessions and epochs.    *)
(*                                                                         *)
(* A request changes one endpoint; every other one only learns the         *)
(* session.  OutcomeCases says what the one endpoint may become, and the   *)
(* theorems follow from it and from the uniqueness of generations.         *)
(***************************************************************************)
EXTENDS Provider, TLAPS

\* Two endpoint records that differ at most in their session.
Same(x, y) ==
    /\ y.accepted_fence = x.accepted_fence /\ y.open = x.open
    /\ y.binding = x.binding /\ y.phase = x.phase

-----------------------------------------------------------------------------
(* The endpoint a request meets.                                           *)

\* endpoint_key: the key of a generation is a key of the provider.
LEMMA KeyTyped ==
    ASSUME NEW g \in Generation
    PROVE  EndpointKey(g) \in Keys /\ g.binding \in Bindings /\ g.fence \in Nat
BY SMT DEF EndpointKey, Keys, Generation

\* The same of an issued generation, whose fence is not zero.
LEMMA KeyOfGeneration ==
    ASSUME NEW g \in Generations
    PROVE  /\ g \in Generation /\ EndpointKey(g) \in Keys
           /\ g.binding \in Bindings /\ g.fence \in Nat /\ g.fence > 0
BY GenerationsAssumption, KeyTyped

\* handshake: only the session of an endpoint changes.
LEMMA HandshakeFacts ==
    ASSUME NEW ep \in Endpoint, NEW s \in Nat
    PROVE  /\ Handshake(ep, s) \in Endpoint
           /\ Same(ep, Handshake(ep, s))
           /\ ep.session <= s => Handshake(ep, s).session = s
BY SMT DEF Handshake, Endpoint, Same

\* check_control_generation keeps what every endpoint holds.
LEMMA AcceptedFacts ==
    ASSUME ProviderTypeOK, NEW s \in Nat, NEW k \in Keys
    PROVE  /\ AcceptedEndpoints(s)[k] = None <=> endpoints[k] = None
           /\ endpoints[k] # None =>
                  /\ AcceptedEndpoints(s)[k] \in Endpoint
                  /\ Same(endpoints[k], AcceptedEndpoints(s)[k])
                  /\ endpoints[k].session = session /\ s >= session =>
                         AcceptedEndpoints(s)[k].session = s
<1>1. endpoints[k] \in Endpoint \cup {None} /\ session \in Nat
  BY SMT DEF ProviderTypeOK
<1>2. AcceptedEndpoints(s)[k] = IF endpoints[k] # None /\ s > session
                                THEN Handshake(endpoints[k], s) ELSE endpoints[k]
  BY Zenon DEF AcceptedEndpoints
<1>3. None \notin Endpoint
  BY GenerationsAssumption
<1>4. CASE endpoints[k] = None
  BY <1>2, <1>4, Zenon
<1>5. CASE endpoints[k] # None
  <2>1. endpoints[k] \in Endpoint
    BY <1>1, <1>5
  <2>2. /\ Handshake(endpoints[k], s) \in Endpoint
        /\ Same(endpoints[k], Handshake(endpoints[k], s))
        /\ endpoints[k].session <= s => Handshake(endpoints[k], s).session = s
    BY <2>1, HandshakeFacts
  <2>3. CASE s > session
    BY <1>1, <1>2, <1>3, <1>5, <2>1, <2>2, <2>3, SMT
  <2>4. CASE ~(s > session)
    BY <1>1, <1>2, <1>3, <1>5, <2>1, <2>4, SMT DEF Same
  <2> QED
    BY <2>3, <2>4
<1> QED
  BY <1>4, <1>5

\* apply: an absent endpoint is created, a present one met as it is.
LEMMA MetFacts ==
    ASSUME ProviderTypeOK, NEW g \in Generation, NEW s \in Nat
    PROVE  /\ Met(g, s) \in Endpoint
           /\ endpoints[EndpointKey(g)] = None => Met(g, s) = NewEndpoint(s)
           /\ endpoints[EndpointKey(g)] # None => Same(endpoints[EndpointKey(g)], Met(g, s))
           /\ SessionsAgree /\ s >= session => Met(g, s).session = s
<1> DEFINE k == EndpointKey(g)
           old == AcceptedEndpoints(s)[k]
           made == IF old = None THEN NewEndpoint(s) ELSE old
<1>1. k \in Keys
  BY KeyTyped
<1>2. Met(g, s) = Handshake(made, s)
  BY Zenon DEF Met
<1>3. NewEndpoint(s) \in Endpoint /\ NewEndpoint(s).session = s
  BY SMT DEF NewEndpoint, Endpoint, EndpointPhase
<1>4. /\ old = None <=> endpoints[k] = None
      /\ endpoints[k] # None =>
             /\ old \in Endpoint
             /\ Same(endpoints[k], old)
             /\ endpoints[k].session = session /\ s >= session => old.session = s
  BY <1>1, AcceptedFacts
<1>5. made \in Endpoint
  BY <1>3, <1>4
<1>6. /\ Handshake(made, s) \in Endpoint
      /\ Same(made, Handshake(made, s))
      /\ made.session <= s => Handshake(made, s).session = s
  BY <1>5, HandshakeFacts
<1>7. endpoints[k] = None => Handshake(made, s) = NewEndpoint(s)
  BY <1>3, <1>4, SMT DEF Handshake
<1>8. endpoints[k] # None => Same(endpoints[k], Handshake(made, s))
  BY <1>4, <1>6 DEF Same
<1>9. SessionsAgree /\ s >= session => Handshake(made, s).session = s
  <2> SUFFICES ASSUME SessionsAgree, s >= session
               PROVE  Handshake(made, s).session = s
    OBVIOUS
  <2>1. endpoints[k] # None => endpoints[k].session = session
    BY <1>1 DEF SessionsAgree
  <2>2. made.session = s
    BY <1>3, <1>4, <2>1
  <2> QED
    BY <1>6, <2>2, SMT
<1> QED
  BY <1>2, <1>6, <1>7, <1>8, <1>9

-----------------------------------------------------------------------------
(* What a request makes of the endpoint.                                   *)

\* Endpoint::apply under the provider, adoption on activate included.
LEMMA OutcomeCases ==
    ASSUME ProviderTypeOK, NEW op \in EndpointOp, NEW g \in Generation, NEW s \in Nat,
           NEW x, x = Met(g, s), NEW out, out = Outcome(op, g, s)
    PROVE  /\ ~out.ok => out.endpoint = x
           /\ out.ok /\ op = "Prepare" =>
                  /\ CanPrepare(x, g.binding, g.fence)
                  /\ out.endpoint = Prepare(x, g.binding, g.fence)
           /\ out.ok /\ op = "Activate" =>
                  \/ /\ CanPrepare(x, g.binding, g.fence)
                     /\ out.endpoint = Activate(Prepare(x, g.binding, g.fence))
                  \/ /\ CanActivate(x, g.binding, g.fence)
                     /\ out.endpoint = Activate(x)
           /\ out.ok /\ op \in {"Release", "Fence"} => out.endpoint = Close(x, g.fence)
<1> DEFINE b == g.binding
           f == g.fence
           adopted == Adopts(op, g) /\ Accepts(x, "Prepare", b, f, s)
           ep == IF adopted THEN Prepare(x, b, f) ELSE x
           ok == /\ Adopts(op, g) => Accepts(x, "Prepare", b, f, s)
                 /\ Accepts(ep, op, b, f, s)
<1>1. out = [ok |-> ok, endpoint |-> IF ok THEN Applied(ep, op, b, f) ELSE ep]
  BY Zenon DEF Outcome
<1>2. out.ok = ok /\ out.endpoint = IF ok THEN Applied(ep, op, b, f) ELSE ep
  BY <1>1
<1>3. x \in Endpoint /\ b \in Bindings /\ f \in Nat
  BY MetFacts, KeyTyped
<1>4. adopted => op = "Activate" /\ CanPrepare(x, b, f) /\ x.session = s
  BY Zenon DEF Adopts, Accepts
<1>5. adopted => ok
  <2>1. ASSUME adopted PROVE Accepts(Prepare(x, b, f), "Activate", b, f, s)
    <3>1. x.session = s
      BY <1>4, <2>1
    <3>2. Prepare(x, b, f).session = s /\ CanActivate(Prepare(x, b, f), b, f)
      BY <1>3, <3>1, SMT DEF Prepare, CanActivate, Endpoint
    <3> QED
      BY <3>2, SMT DEF Accepts
  <2> QED
    BY <1>4, <2>1
<1>6. ~ok => ep = x
  BY <1>5
<1>7. ok /\ op = "Prepare" => CanPrepare(x, b, f) /\ Applied(ep, op, b, f) = Prepare(x, b, f)
  BY <1>4, SMT DEF Applied, Accepts
<1>8. ok /\ op = "Activate" =>
          \/ CanPrepare(x, b, f) /\ Applied(ep, op, b, f) = Activate(Prepare(x, b, f))
          \/ CanActivate(x, b, f) /\ Applied(ep, op, b, f) = Activate(x)
  <2>1. op = "Activate" => Applied(ep, op, b, f) = Activate(ep)
    BY SMT DEF Applied
  <2>2. ok /\ op = "Activate" => CanActivate(ep, b, f)
    BY Zenon DEF Accepts
  <2> QED
    BY <1>4, <2>1, <2>2
<1>9. ok /\ op \in {"Release", "Fence"} => Applied(ep, op, b, f) = Close(x, f)
  BY <1>4, SMT DEF Applied
<1> HIDE DEF ok, ep
<1> QED
  BY <1>2, <1>6, <1>7, <1>8, <1>9, Zenon

\* y holds the generation of binding b under fence f.
HoldsAt(y, b, f) == y.open /\ y.binding = b /\ y.accepted_fence = f

\* prepare: a typed endpoint that holds the generation.
LEMMA PrepareFacts ==
    ASSUME NEW x \in Endpoint, NEW b \in Bindings, NEW f \in Nat
    PROVE  /\ Prepare(x, b, f) \in Endpoint /\ Prepare(x, b, f).session = x.session
           /\ HoldsAt(Prepare(x, b, f), b, f) /\ Prepare(x, b, f).phase = "Prepared"
<1>1. Prepare(x, b, f) \in Endpoint
  BY Zenon DEF Prepare, Endpoint, EndpointPhase
<1>2. Prepare(x, b, f).session = x.session /\ Prepare(x, b, f).phase = "Prepared"
  BY SMT DEF Prepare, Endpoint
<1>3. HoldsAt(Prepare(x, b, f), b, f)
  BY SMT DEF HoldsAt, Prepare, Endpoint
<1> QED
  BY <1>1, <1>2, <1>3

\* activate: only the phase changes.
LEMMA ActivateFacts ==
    ASSUME NEW x \in Endpoint
    PROVE  /\ Activate(x) \in Endpoint /\ Activate(x).session = x.session
           /\ Activate(x).open = x.open /\ Activate(x).binding = x.binding
           /\ Activate(x).accepted_fence = x.accepted_fence
           /\ Activate(x).phase = "Active"
BY SMT DEF Activate, Endpoint, EndpointPhase

\* close: the endpoint of a newer generation is left alone.
LEMMA CloseFacts ==
    ASSUME NEW x \in Endpoint, NEW f \in Nat
    PROVE  \/ Close(x, f) = x /\ f < x.accepted_fence
           \/ /\ Close(x, f) \in Endpoint /\ Close(x, f).session = x.session
              /\ Close(x, f).accepted_fence = f /\ f >= x.accepted_fence
              /\ ~Close(x, f).open
              /\ Close(x, f).binding = None /\ Close(x, f).phase = "Idle"
<1>1. x.accepted_fence \in Nat
  BY SMT DEF Endpoint
<1>2. CASE f < x.accepted_fence
  BY <1>2, SMT DEF Close
<1>3. CASE ~(f < x.accepted_fence)
  <2>1. Close(x, f) = [x EXCEPT !.accepted_fence = f, !.open = FALSE,
                                !.binding = None, !.phase = "Idle"]
    BY <1>3, Zenon DEF Close
  <2>2. Close(x, f) \in Endpoint
    BY <2>1, Zenon DEF Endpoint, EndpointPhase
  <2>3. Close(x, f).session = x.session /\ Close(x, f).accepted_fence = f
    BY <2>1, SMT DEF Endpoint
  <2>4. ~Close(x, f).open /\ Close(x, f).binding = None /\ Close(x, f).phase = "Idle"
    BY <2>1, SMT DEF Endpoint
  <2> QED
    BY <1>1, <1>3, <2>2, <2>3, <2>4, SMT
<1> QED
  BY <1>2, <1>3

\* What the four operations share (prepare, activate, close): fences grow, a
\* fresh generation has a fresh fence, and only a newer one ends the holder.
LEMMA OutcomeFacts ==
    ASSUME ProviderTypeOK, NEW op \in EndpointOp, NEW g \in Generation, NEW s \in Nat,
           NEW x, x = Met(g, s), NEW out, out = Outcome(op, g, s),
           NEW y, y = out.endpoint
    PROVE  /\ y \in Endpoint /\ y.session = x.session
           /\ y.accepted_fence >= x.accepted_fence
           /\ \/ y = x
              \/ ~y.open /\ y.binding = None /\ y.phase = "Idle"
              \/ /\ HoldsAt(y, g.binding, g.fence) /\ y.phase # "Idle"
                 /\ op \in {"Prepare", "Activate"} /\ (y.phase = "Active" => op = "Activate")
           /\ HoldsAt(y, g.binding, g.fence) =>
                  x.accepted_fence < g.fence \/ HoldsAt(x, g.binding, g.fence)
           /\ y = x \/ HoldsAt(y, x.binding, x.accepted_fence) \/ g.fence >= x.accepted_fence
           /\ out.ok /\ op \in {"Prepare", "Activate"} => HoldsAt(y, g.binding, g.fence)
           /\ out.ok /\ op \in {"Release", "Fence"} =>
                  \/ ~y.open /\ y.accepted_fence = g.fence
                  \/ y.accepted_fence > g.fence
<1> DEFINE b == g.binding
           f == g.fence
<1>1. x \in Endpoint /\ b \in Bindings /\ f \in Nat
  BY MetFacts, KeyTyped
<1>2. /\ ~out.ok => y = x
      /\ out.ok /\ op = "Prepare" => CanPrepare(x, b, f) /\ y = Prepare(x, b, f)
      /\ out.ok /\ op = "Activate" =>
             \/ CanPrepare(x, b, f) /\ y = Activate(Prepare(x, b, f))
             \/ CanActivate(x, b, f) /\ y = Activate(x)
      /\ out.ok /\ op \in {"Release", "Fence"} => y = Close(x, f)
  BY OutcomeCases
<1> HIDE DEF b, f
<1>3. out.ok \in BOOLEAN
  BY Zenon DEF Outcome
<1>4. CASE ~out.ok
  BY <1>1, <1>2, <1>4, SMT DEF HoldsAt, b, f, Endpoint
<1>5. Prepare(x, b, f) \in Endpoint /\ Activate(Prepare(x, b, f)) \in Endpoint
  BY <1>1, PrepareFacts, ActivateFacts
<1>6. /\ HoldsAt(Prepare(x, b, f), b, f) /\ Prepare(x, b, f).phase # "Idle"
      /\ HoldsAt(Activate(Prepare(x, b, f)), b, f) /\ Activate(Prepare(x, b, f)).phase # "Idle"
      /\ Prepare(x, b, f).session = x.session
      /\ Activate(Prepare(x, b, f)).session = x.session
  BY <1>1, <1>5, PrepareFacts, ActivateFacts DEF HoldsAt
<1>7. ASSUME CanPrepare(x, b, f),
             y = Prepare(x, b, f) \/ y = Activate(Prepare(x, b, f))
      PROVE  /\ y \in Endpoint /\ y.session = x.session
             /\ HoldsAt(y, b, f) /\ y.phase # "Idle"
             /\ f >= x.accepted_fence
             /\ x.accepted_fence < f \/ HoldsAt(x, b, f)
  <2>1. x.accepted_fence \in Nat
    BY <1>1, SMT DEF Endpoint
  <2>2. f >= x.accepted_fence /\ (x.accepted_fence < f \/ HoldsAt(x, b, f))
    BY <1>1, <1>7, <2>1, SMT DEF CanPrepare, HoldsAt
  <2> QED
    BY <1>5, <1>6, <1>7, <2>2, Zenon
<1>8. ASSUME CanActivate(x, b, f), y = Activate(x)
      PROVE  /\ y \in Endpoint /\ y.session = x.session
             /\ HoldsAt(y, b, f) /\ y.phase # "Idle"
             /\ HoldsAt(x, b, f)
             /\ f >= x.accepted_fence
  <2>1. HoldsAt(x, b, f)
    BY <1>8, Zenon DEF CanActivate, HoldsAt
  <2>2. f >= x.accepted_fence
    BY <1>1, <2>1, SMT DEF HoldsAt
  <2> QED
    BY <1>1, <1>8, <2>1, <2>2, ActivateFacts, SMT DEF HoldsAt
<1>9. CASE out.ok /\ op \in {"Prepare", "Activate"}
  <2>0. y.phase = "Active" => op = "Activate"
    BY <1>1, <1>2, <1>9, PrepareFacts
  <2>1. /\ y \in Endpoint /\ y.session = x.session
        /\ HoldsAt(y, b, f) /\ y.phase # "Idle"
        /\ f >= x.accepted_fence
        /\ x.accepted_fence < f \/ HoldsAt(x, b, f)
    BY <1>2, <1>7, <1>8, <1>9, Zenon
  <2>2. y.accepted_fence >= x.accepted_fence
    BY <2>1 DEF HoldsAt
  <2>3. ~(op \in {"Release", "Fence"})
    BY <1>9
  <2> QED
    BY <1>9, <2>0, <2>1, <2>2, <2>3, Zenon DEF b, f
<1>10. CASE out.ok /\ op \in {"Release", "Fence"}
  <2>1. y = Close(x, f) /\ ~(op \in {"Prepare", "Activate"})
    BY <1>2, <1>10
  <2>2. x.accepted_fence \in Nat
    BY <1>1, SMT DEF Endpoint
  <2>3. CASE y = x /\ f < x.accepted_fence
    BY <1>1, <1>10, <2>1, <2>2, <2>3, SMT DEF HoldsAt, b, f
  <2>4. CASE /\ y \in Endpoint /\ y.session = x.session
             /\ y.accepted_fence = f /\ f >= x.accepted_fence /\ ~y.open
             /\ y.binding = None /\ y.phase = "Idle"
    BY <1>10, <2>1, <2>4, SMT DEF HoldsAt, b, f
  <2> QED
    BY <1>1, <2>1, <2>3, <2>4, CloseFacts
<1> QED
  BY <1>3, <1>4, <1>9, <1>10 DEF EndpointOp

-----------------------------------------------------------------------------
(* Steps of the provider.                                                  *)

\* Holds and Passed, now and after a step, by the endpoint of the generation.
LEMMA HoldsByEndpoint ==
    ASSUME NEW g \in Generations
    PROVE  /\ Holds(g) <=> /\ endpoints[EndpointKey(g)] # None
                           /\ HoldsAt(endpoints[EndpointKey(g)], g.binding, g.fence)
           /\ Holds(g)' <=> /\ endpoints'[EndpointKey(g)] # None
                            /\ HoldsAt(endpoints'[EndpointKey(g)], g.binding, g.fence)
           /\ Passed(g) <=> /\ endpoints[EndpointKey(g)] # None
                            /\ endpoints[EndpointKey(g)].accepted_fence >= g.fence
                            /\ ~Holds(g)
           /\ Passed(g)' <=> /\ endpoints'[EndpointKey(g)] # None
                             /\ endpoints'[EndpointKey(g)].accepted_fence >= g.fence
                             /\ ~Holds(g)'
BY Zenon DEF Holds, Passed, HoldsAt

\* An endpoint keeps what it holds: it is absent before and after, or only
\* its session moves.
Kept(k) ==
    /\ endpoints'[k] = None <=> endpoints[k] = None
    /\ endpoints[k] # None => endpoints'[k] \in Endpoint /\ Same(endpoints[k], endpoints'[k])

\* An endpoint that keeps what it holds keeps its generations.
LEMMA KeptGeneration ==
    ASSUME NEW g \in Generations, Kept(EndpointKey(g))
    PROVE  (Holds(g)' <=> Holds(g)) /\ (Passed(g)' <=> Passed(g))
<1> DEFINE k == EndpointKey(g)
<1>1. endpoints[k] # None => Same(endpoints[k], endpoints'[k])
  BY Zenon DEF Kept
<1>2. endpoints'[k] = None <=> endpoints[k] = None
  BY Zenon DEF Kept
<1>3. Holds(g)' <=> Holds(g)
  BY <1>1, <1>2, HoldsByEndpoint, Zenon DEF HoldsAt, Same
<1> QED
  BY <1>1, <1>2, <1>3, HoldsByEndpoint, Zenon DEF Same

\* check_control_generation: all endpoints follow the new session.
LEMMA AcceptedKept ==
    ASSUME ProviderTypeOK, NEW s \in Nat, NEW k \in Keys, s >= session,
           endpoints'[k] = AcceptedEndpoints(s)[k]
    PROVE  /\ Kept(k)
           /\ SessionsAgree /\ endpoints'[k] # None => endpoints'[k].session = s
<1>1. /\ endpoints'[k] = None <=> endpoints[k] = None
      /\ endpoints[k] # None =>
             /\ endpoints'[k] \in Endpoint
             /\ Same(endpoints[k], endpoints'[k])
             /\ endpoints[k].session = session => endpoints'[k].session = s
  BY AcceptedFacts
<1>2. SessionsAgree /\ endpoints[k] # None => endpoints[k].session = session
  BY DEF SessionsAgree
<1> QED
  BY <1>1, <1>2, Zenon DEF Kept

\* apply: the endpoint of the generation becomes the outcome, the others are
\* kept.
LEMMA ApplyStep ==
    ASSUME ProviderTypeOK, NEW op \in EndpointOp, NEW g \in Generation,
           NEW s \in Nat, NEW e \in Nat, Apply(op, g, s, e)
    PROVE  /\ s >= session /\ session' = s /\ epoch' = e
           /\ answer' = [kind |-> IF Outcome(op, g, s).ok THEN Reply(op) ELSE "Failed",
                         binding |-> g.binding]
           /\ DOMAIN endpoints' = Keys
           /\ endpoints'[EndpointKey(g)] = Outcome(op, g, s).endpoint
           /\ \A k \in Keys \ {EndpointKey(g)} : endpoints'[k] = AcceptedEndpoints(s)[k]
           /\ \A k \in Keys \ {EndpointKey(g)} : Kept(k)
<1> DEFINE y == Outcome(op, g, s).endpoint
<1>1. /\ s >= session /\ session' = s /\ epoch' = e
      /\ answer' = [kind |-> IF Outcome(op, g, s).ok THEN Reply(op) ELSE "Failed",
                    binding |-> g.binding]
      /\ endpoints' = [AcceptedEndpoints(s) EXCEPT ![EndpointKey(g)] = y]
  BY Zenon DEF Apply, Current
<1>2. DOMAIN AcceptedEndpoints(s) = Keys
  BY Zenon DEF AcceptedEndpoints
<1>3. EndpointKey(g) \in Keys
  BY KeyTyped
<1> HIDE DEF y
<1>4. /\ DOMAIN endpoints' = Keys
      /\ endpoints'[EndpointKey(g)] = y
      /\ \A k \in Keys \ {EndpointKey(g)} : endpoints'[k] = AcceptedEndpoints(s)[k]
  BY <1>1, <1>2, <1>3, Zenon
<1>5. \A k \in Keys \ {EndpointKey(g)} : Kept(k)
  BY <1>1, <1>4, AcceptedKept
<1> QED
  BY <1>1, <1>4, <1>5 DEF y

\* The endpoint of the request after the step: what OutcomeFacts says, in
\* terms of the endpoint before it.
LEMMA ApplyEndpoint ==
    ASSUME ProviderTypeOK, NEW op \in EndpointOp, NEW g \in Generation,
           NEW s \in Nat, NEW e \in Nat, Apply(op, g, s, e),
           NEW k, k = EndpointKey(g)
    PROVE  /\ endpoints'[k] \in Endpoint
           /\ SessionsAgree => endpoints'[k].session = s
           /\ endpoints[k] # None => endpoints'[k].accepted_fence >= endpoints[k].accepted_fence
           /\ \/ endpoints[k] # None /\ Kept(k)
              \/ /\ ~endpoints'[k].open
                 /\ endpoints'[k].binding = None /\ endpoints'[k].phase = "Idle"
              \/ /\ HoldsAt(endpoints'[k], g.binding, g.fence) /\ endpoints'[k].phase # "Idle"
                 /\ op \in {"Prepare", "Activate"}
                 /\ endpoints'[k].phase = "Active" => op = "Activate"
           /\ endpoints[k] # None /\ HoldsAt(endpoints'[k], g.binding, g.fence) =>
                  \/ endpoints[k].accepted_fence < g.fence
                  \/ HoldsAt(endpoints[k], g.binding, g.fence)
           /\ endpoints[k] # None =>
                  \/ Kept(k)
                  \/ HoldsAt(endpoints'[k], endpoints[k].binding, endpoints[k].accepted_fence)
                  \/ g.fence >= endpoints[k].accepted_fence
           /\ answer'.kind \in {"Prepared", "Activated"} =>
                  HoldsAt(endpoints'[k], g.binding, g.fence)
           /\ answer'.kind \in {"Released", "Fenced"} =>
                  \/ ~endpoints'[k].open /\ endpoints'[k].accepted_fence = g.fence
                  \/ endpoints'[k].accepted_fence > g.fence
           /\ answer' \in [kind : Answer, binding : Bindings] /\ answer'.binding = g.binding
<1> DEFINE x == Met(g, s)
           out == Outcome(op, g, s)
           y == out.endpoint
<1>1. /\ s >= session
      /\ answer' = [kind |-> IF out.ok THEN Reply(op) ELSE "Failed", binding |-> g.binding]
      /\ endpoints'[k] = y
  BY ApplyStep
<1>2. /\ x \in Endpoint
      /\ endpoints[k] = None => x = NewEndpoint(s)
      /\ endpoints[k] # None => Same(endpoints[k], x)
      /\ SessionsAgree => x.session = s
  BY <1>1, MetFacts
<1>3. /\ y \in Endpoint /\ y.session = x.session
      /\ y.accepted_fence >= x.accepted_fence
      /\ \/ y = x
         \/ ~y.open /\ y.binding = None /\ y.phase = "Idle"
         \/ /\ HoldsAt(y, g.binding, g.fence) /\ y.phase # "Idle"
            /\ op \in {"Prepare", "Activate"} /\ (y.phase = "Active" => op = "Activate")
      /\ HoldsAt(y, g.binding, g.fence) =>
             x.accepted_fence < g.fence \/ HoldsAt(x, g.binding, g.fence)
      /\ y = x \/ HoldsAt(y, x.binding, x.accepted_fence) \/ g.fence >= x.accepted_fence
      /\ out.ok /\ op \in {"Prepare", "Activate"} => HoldsAt(y, g.binding, g.fence)
      /\ out.ok /\ op \in {"Release", "Fence"} =>
             \/ ~y.open /\ y.accepted_fence = g.fence
             \/ y.accepted_fence > g.fence
  BY OutcomeFacts
<1>4. NewEndpoint(s).open = FALSE /\ NewEndpoint(s).binding = None /\ NewEndpoint(s).phase = "Idle"
  BY SMT DEF NewEndpoint
<1>5. None \notin Endpoint
  BY GenerationsAssumption
<1>6. g.binding \in Bindings
  BY KeyTyped
<1>7. answer'.binding = g.binding /\ answer'.kind = IF out.ok THEN Reply(op) ELSE "Failed"
  BY <1>1
<1>8. /\ answer'.kind \in {"Prepared", "Activated"} => out.ok /\ op \in {"Prepare", "Activate"}
      /\ answer'.kind \in {"Released", "Fenced"} => out.ok /\ op \in {"Release", "Fence"}
      /\ answer'.kind \in Answer
  BY <1>7, SMT DEF Reply, EndpointOp, Answer
<1>9. answer' \in [kind : Answer, binding : Bindings]
  BY <1>1, <1>6, <1>7, <1>8
<1> HIDE DEF x, out, y
<1>10. endpoints[k] # None /\ y = x => Kept(k)
  BY <1>1, <1>2, <1>3, <1>5, Zenon DEF Kept
<1>11. endpoints[k] = None /\ y = x =>
           ~endpoints'[k].open /\ endpoints'[k].binding = None /\ endpoints'[k].phase = "Idle"
  BY <1>1, <1>2, <1>4
<1>12. endpoints[k] # None =>
           /\ x.accepted_fence = endpoints[k].accepted_fence
           /\ x.binding = endpoints[k].binding
           /\ HoldsAt(x, g.binding, g.fence) <=> HoldsAt(endpoints[k], g.binding, g.fence)
  BY <1>2, Zenon DEF Same, HoldsAt
<1> QED
  BY <1>1, <1>2, <1>3, <1>7, <1>8, <1>9, <1>10, <1>11, <1>12, Zenon

-----------------------------------------------------------------------------
(* The theorems.                                                           *)

\* The inductive invariant.  SessionsAgree and OpenHoldsIssued need the
\* types; the answers are inductive because a start or stop of a workload
\* keeps every endpoint.
ProviderInv == ProviderTypeOK /\ SessionsAgree /\ OpenHoldsIssued /\ AnswersAreTrue

\* A new provider satisfies the invariant (new).
LEMMA InitInv == ProviderInit => ProviderInv
<1> SUFFICES ASSUME ProviderInit PROVE ProviderInv
  OBVIOUS
<1>1. \A k \in Keys : endpoints[k] = None
  BY DEF ProviderInit
<1>2. ProviderTypeOK
  BY DEF ProviderInit, ProviderTypeOK
<1>3. SessionsAgree /\ OpenHoldsIssued
  BY <1>1, Zenon DEF SessionsAgree, OpenHoldsIssued
<1>4. AnswersAreTrue
  BY Zenon DEF ProviderInit, AnswersAreTrue
<1> QED
  BY <1>2, <1>3, <1>4 DEF ProviderInv

\* What is open under a key is kept or becomes a generation of that key.
LEMMA OpenKept ==
    ASSUME OpenHoldsIssued, NEW k \in Keys, Kept(k), endpoints[k] # None
    PROVE  IF endpoints'[k].open
           THEN /\ endpoints'[k].phase # "Idle"
                /\ \E h \in Generations : EndpointKey(h) = k /\ Holds(h)'
           ELSE endpoints'[k].binding = None /\ endpoints'[k].phase = "Idle"
<1>1. Same(endpoints[k], endpoints'[k])
  BY DEF Kept
<1>2. IF endpoints[k].open
      THEN /\ endpoints[k].phase # "Idle"
           /\ \E h \in Generations : EndpointKey(h) = k /\ Holds(h)
      ELSE endpoints[k].binding = None /\ endpoints[k].phase = "Idle"
  BY Zenon DEF OpenHoldsIssued
<1>3. \A h \in Generations : EndpointKey(h) = k /\ Holds(h) => Holds(h)'
  BY KeptGeneration, Zenon
<1> QED
  BY <1>1, <1>2, <1>3, Zenon DEF Same

\* A step that accepts a session and keeps every endpoint keeps the invariant.
LEMMA KeptInv ==
    ASSUME ProviderInv, \A k \in Keys : Kept(k), DOMAIN endpoints' = Keys,
           endpoints' = [k \in Keys |-> endpoints'[k]],
           session' \in Nat, epoch' \in Nat,
           \A k \in Keys : endpoints'[k] # None => endpoints'[k].session = session',
           answer' \in [kind : Answer, binding : Bindings] \cup {None},
           answer' = answer \/ answer'.kind = "Failed"
    PROVE  ProviderInv'
<1>1. \A k \in Keys : endpoints'[k] \in Endpoint \cup {None}
  BY Zenon DEF Kept
<1>2. ProviderTypeOK'
  BY <1>1, Zenon DEF ProviderTypeOK
<1>3. SessionsAgree'
  BY Zenon DEF SessionsAgree
<1>4. OpenHoldsIssued'
  <2>1. \A k \in Keys : endpoints'[k] # None => endpoints[k] # None
    BY Zenon DEF Kept
  <2>2. OpenHoldsIssued
    BY DEF ProviderInv
  <2> SUFFICES ASSUME NEW k \in Keys, endpoints'[k] # None
               PROVE  IF endpoints'[k].open
                      THEN /\ endpoints'[k].phase # "Idle"
                           /\ \E h \in Generations : EndpointKey(h) = k /\ Holds(h)'
                      ELSE endpoints'[k].binding = None /\ endpoints'[k].phase = "Idle"
    BY Zenon DEF OpenHoldsIssued
  <2> QED
    BY <2>1, <2>2, OpenKept, Zenon
<1>5. AnswersAreTrue'
  <2>1. \A g \in Generations : EndpointKey(g) \in Keys
    BY KeyOfGeneration
  <2>2. \A g \in Generations : (Holds(g)' <=> Holds(g)) /\ (Passed(g)' <=> Passed(g))
    BY <2>1, KeptGeneration, Zenon
  <2>3. CASE answer' = answer
    BY <2>2, <2>3, Zenon DEF ProviderInv, AnswersAreTrue
  <2>4. CASE answer'.kind = "Failed"
    BY <2>4 DEF AnswersAreTrue
  <2> QED
    BY <2>3, <2>4
<1> QED
  BY <1>2, <1>3, <1>4, <1>5 DEF ProviderInv

\* apply keeps the invariant.
LEMMA ApplyInv ==
    ASSUME ProviderInv, NEW op \in EndpointOp, NEW g \in Generations,
           NEW s \in Nat, NEW e \in Nat, Apply(op, g, s, e)
    PROVE  ProviderInv'
<1> DEFINE k == EndpointKey(g)
<1>0. ProviderTypeOK /\ SessionsAgree /\ OpenHoldsIssued
  BY DEF ProviderInv
<1>1. k \in Keys /\ None \notin Endpoint
  BY KeyOfGeneration, GenerationsAssumption
<1>2. /\ s >= session /\ session' = s /\ epoch' = e
      /\ DOMAIN endpoints' = Keys
      /\ \A j \in Keys \ {k} : endpoints'[j] = AcceptedEndpoints(s)[j]
      /\ \A j \in Keys \ {k} : Kept(j)
  BY <1>0, KeyOfGeneration, ApplyStep
<1>3. /\ endpoints'[k] \in Endpoint
      /\ endpoints'[k].session = s
      /\ \/ endpoints[k] # None /\ Kept(k)
         \/ /\ ~endpoints'[k].open
            /\ endpoints'[k].binding = None /\ endpoints'[k].phase = "Idle"
         \/ HoldsAt(endpoints'[k], g.binding, g.fence) /\ endpoints'[k].phase # "Idle"
      /\ answer'.kind \in {"Prepared", "Activated"} =>
             HoldsAt(endpoints'[k], g.binding, g.fence)
      /\ answer'.kind \in {"Released", "Fenced"} =>
             \/ ~endpoints'[k].open /\ endpoints'[k].accepted_fence = g.fence
             \/ endpoints'[k].accepted_fence > g.fence
      /\ answer' \in [kind : Answer, binding : Bindings] /\ answer'.binding = g.binding
  BY <1>0, KeyOfGeneration, ApplyEndpoint
<1>4. endpoints' = [j \in Keys |-> endpoints'[j]]
  BY Zenon DEF Apply, AcceptedEndpoints
<1> HIDE DEF k
<1>5. \A j \in Keys : endpoints'[j] \in Endpoint \cup {None}
  BY <1>2, <1>3, Zenon DEF Kept
<1>6. ProviderTypeOK'
  BY <1>2, <1>3, <1>4, <1>5, Zenon DEF ProviderTypeOK
<1>7. SessionsAgree'
  <2>1. \A j \in Keys \ {k} : endpoints'[j] # None => endpoints'[j].session = s
    BY <1>0, <1>2, AcceptedKept, Zenon
  <2> QED
    BY <1>2, <1>3, <2>1, Zenon DEF SessionsAgree
<1>8. Holds(g)' <=> HoldsAt(endpoints'[k], g.binding, g.fence)
  BY <1>1, <1>3, HoldsByEndpoint, Zenon DEF k
<1>9. OpenHoldsIssued'
  <2> SUFFICES ASSUME NEW j \in Keys, endpoints'[j] # None
               PROVE  IF endpoints'[j].open
                      THEN /\ endpoints'[j].phase # "Idle"
                           /\ \E h \in Generations : EndpointKey(h) = j /\ Holds(h)'
                      ELSE endpoints'[j].binding = None /\ endpoints'[j].phase = "Idle"
    BY Zenon DEF OpenHoldsIssued
  <2>1. CASE Kept(j) /\ endpoints[j] # None
    BY <1>0, <2>1, OpenKept, Zenon
  <2>2. CASE j = k /\ ~endpoints'[k].open /\ endpoints'[k].binding = None /\ endpoints'[k].phase = "Idle"
    BY <2>2, Zenon
  <2>3. CASE j = k /\ HoldsAt(endpoints'[k], g.binding, g.fence) /\ endpoints'[k].phase # "Idle"
    <3>1. endpoints'[k].open
      BY <2>3, Zenon DEF HoldsAt
    <3> QED
      BY <1>8, <2>3, <3>1, Zenon DEF k
  <2>4. j # k => Kept(j) /\ endpoints[j] # None
    BY <1>2, Zenon DEF Kept
  <2> QED
    BY <1>3, <2>1, <2>2, <2>3, <2>4, Zenon
<1>10. AnswersAreTrue'
  <2> SUFFICES ASSUME NEW h \in Generations, answer'.binding = h.binding
               PROVE  /\ answer'.kind \in {"Prepared", "Activated"} => Holds(h)'
                      /\ answer'.kind \in {"Released", "Fenced"} => Passed(h)'
    BY Zenon DEF AnswersAreTrue
  <2>1. h = g
    BY <1>3, GenerationsAssumption
  <2>2. answer'.kind \in {"Released", "Fenced"} =>
            endpoints'[k].accepted_fence >= g.fence /\ ~HoldsAt(endpoints'[k], g.binding, g.fence)
    <3>1. endpoints'[k].accepted_fence \in Nat /\ g.fence \in Nat
      BY <1>3, KeyOfGeneration DEF Endpoint
    <3> QED
      BY <1>3, <3>1, SMT DEF HoldsAt
  <2>3. Passed(g)' <=> /\ endpoints'[k].accepted_fence >= g.fence
                       /\ ~HoldsAt(endpoints'[k], g.binding, g.fence)
    BY <1>1, <1>3, <1>8, HoldsByEndpoint, Zenon DEF k
  <2> QED
    BY <1>3, <1>8, <2>1, <2>2, <2>3, Zenon
<1> QED
  BY <1>6, <1>7, <1>9, <1>10 DEF ProviderInv

\* The step of the provider, by cases: a request of the current generation,
\* or a step that keeps every endpoint.
LEMMA StepCases ==
    ASSUME ProviderTypeOK, ProviderNext
    PROVE  \/ \E op \in EndpointOp, g \in Generations, s \in Nat, e \in Nat : Apply(op, g, s, e)
           \/ \E op \in EndpointOp, g \in Generations, s \in Nat, e \in Nat : Refuse(op, g, s, e)
           \/ \E s \in Nat, e \in Nat : AuthorizeExecution(s, e)
<1>1. 1 .. MaxSession \subseteq Nat /\ 1 .. MaxEpoch \subseteq Nat
  BY GenerationsAssumption
<1> QED
  BY <1>1, Zenon DEF ProviderNext

\* A refused request and a workload operation keep every endpoint.
LEMMA QuietStep ==
    ASSUME ProviderTypeOK
    PROVE  /\ \A op \in EndpointOp, g \in Generations, s \in Nat, e \in Nat :
                  Refuse(op, g, s, e) => \A k \in Keys : Kept(k)
           /\ \A s \in Nat, e \in Nat :
                  AuthorizeExecution(s, e) => \A k \in Keys : Kept(k)
           /\ UNCHANGED provider_vars => \A k \in Keys : Kept(k)
<1>1. endpoints' = endpoints => \A k \in Keys : Kept(k)
  BY Zenon DEF ProviderTypeOK, Kept, Same
<1>2. ASSUME NEW s \in Nat, NEW e \in Nat, AuthorizeExecution(s, e)
      PROVE  \A k \in Keys : Kept(k)
  <2>1. endpoints' = AcceptedEndpoints(s) /\ s >= session
    BY <1>2, Zenon DEF AuthorizeExecution, Current
  <2> QED
    BY <2>1, AcceptedKept
<1> QED
  BY <1>1, <1>2, Zenon DEF Refuse, provider_vars

\* Every step keeps the invariant.
LEMMA NextInv == ProviderInv /\ [ProviderNext]_provider_vars => ProviderInv'
<1> SUFFICES ASSUME ProviderInv, [ProviderNext]_provider_vars PROVE ProviderInv'
  OBVIOUS
<1>0. ProviderTypeOK /\ SessionsAgree
  BY DEF ProviderInv
<1>1. ASSUME NEW op \in EndpointOp, NEW g \in Generations, NEW s \in Nat, NEW e \in Nat,
             Apply(op, g, s, e)
      PROVE  ProviderInv'
  BY <1>1, ApplyInv
<1>2. ASSUME NEW op \in EndpointOp, NEW g \in Generations, NEW s \in Nat, NEW e \in Nat,
             Refuse(op, g, s, e)
      PROVE  ProviderInv'
  <2>1. /\ answer' = [kind |-> "Failed", binding |-> g.binding]
        /\ session' = session /\ epoch' = epoch /\ endpoints' = endpoints
    BY <1>2, Zenon DEF Refuse
  <2>2. \A k \in Keys : Kept(k)
    BY <1>0, <1>2, QuietStep, Zenon
  <2>3. answer' \in [kind : Answer, binding : Bindings] /\ answer'.kind = "Failed"
    BY <2>1, KeyOfGeneration DEF Answer
  <2>4. /\ DOMAIN endpoints' = Keys /\ endpoints' = [k \in Keys |-> endpoints'[k]]
        /\ session' \in Nat /\ epoch' \in Nat
        /\ \A k \in Keys : endpoints'[k] # None => endpoints'[k].session = session'
    BY <1>0, <2>1, Zenon DEF ProviderTypeOK, SessionsAgree
  <2> QED
    BY <2>2, <2>3, <2>4, KeptInv
<1>3. ASSUME NEW s \in Nat, NEW e \in Nat, AuthorizeExecution(s, e)
      PROVE  ProviderInv'
  <2>1. /\ answer' = answer /\ session' = s /\ epoch' = e /\ s >= session
        /\ endpoints' = AcceptedEndpoints(s)
    BY <1>3, Zenon DEF AuthorizeExecution, Current
  <2>2. \A k \in Keys : Kept(k)
    BY <1>0, <1>3, QuietStep, Zenon
  <2>3. DOMAIN endpoints' = Keys /\ endpoints' = [k \in Keys |-> endpoints'[k]]
    BY <2>1, Zenon DEF AcceptedEndpoints
  <2>4. \A k \in Keys : endpoints'[k] # None => endpoints'[k].session = s
    BY <1>0, <2>1, AcceptedKept
  <2>5. answer' \in [kind : Answer, binding : Bindings] \cup {None}
    BY <1>0, <2>1, Zenon DEF ProviderTypeOK
  <2> QED
    BY <2>1, <2>2, <2>3, <2>4, <2>5, KeptInv, Zenon
<1>4. CASE UNCHANGED provider_vars
  BY <1>4, Zenon DEF provider_vars, ProviderInv, ProviderTypeOK, SessionsAgree,
                     OpenHoldsIssued, AnswersAreTrue, Holds, Passed
<1> QED
  BY <1>0, <1>1, <1>2, <1>3, <1>4, StepCases, Zenon

\* The invariant holds at every provider state.
LEMMA InvCorrect == ProviderSpec => []ProviderInv
BY InitInv, NextInv, PTL DEF ProviderSpec

\* Every reachable provider state is well typed.
THEOREM ProviderTypeCorrect == ProviderSpec => []ProviderTypeOK
<1>1. ProviderInv => ProviderTypeOK
  BY DEF ProviderInv
<1> QED
  BY <1>1, InvCorrect, PTL

\* An open endpoint holds an issued generation under its own fence, and all
\* endpoints follow the provider's session.
THEOREM EndpointsSound == ProviderSpec => [](SessionsAgree /\ OpenHoldsIssued)
<1>1. ProviderInv => SessionsAgree /\ OpenHoldsIssued
  BY DEF ProviderInv
<1> QED
  BY <1>1, InvCorrect, PTL

\* The provider never answers that it holds, or has let go of, a generation
\* of which that is not true.
THEOREM AnswersTrue == ProviderSpec => []AnswersAreTrue
<1>1. ProviderInv => AnswersAreTrue
  BY DEF ProviderInv
<1> QED
  BY <1>1, InvCorrect, PTL

\* A generation that was closed or overtaken is never held again.
THEOREM PassedForGood == ProviderSpec => PassedIsFinal
<1>1. ProviderInv /\ [ProviderNext]_provider_vars =>
          [\A g \in Generations : Passed(g) => Passed(g)']_provider_vars
  <2> SUFFICES ASSUME ProviderTypeOK, ProviderNext, NEW g \in Generations, Passed(g)
               PROVE  Passed(g)'
    BY Zenon DEF ProviderInv
  <2>1. EndpointKey(g) \in Keys
    BY KeyOfGeneration
  <2>2. Kept(EndpointKey(g)) => Passed(g)'
    BY KeptGeneration, Zenon
  <2>3. ASSUME NEW op \in EndpointOp, NEW h \in Generations, NEW s \in Nat, NEW e \in Nat,
               Apply(op, h, s, e)
        PROVE  Passed(g)'
    <3> DEFINE k == EndpointKey(g)
    <3>1. CASE EndpointKey(h) # k
      BY <2>1, <2>2, <2>3, <3>1, KeyOfGeneration, ApplyStep
    <3>2. CASE EndpointKey(h) = k
      <4>1. /\ endpoints'[k] \in Endpoint
            /\ endpoints[k] # None => endpoints'[k].accepted_fence >= endpoints[k].accepted_fence
            /\ \/ endpoints[k] # None /\ Kept(k)
               \/ ~endpoints'[k].open
               \/ HoldsAt(endpoints'[k], h.binding, h.fence)
            /\ endpoints[k] # None /\ HoldsAt(endpoints'[k], h.binding, h.fence) =>
                   \/ endpoints[k].accepted_fence < h.fence
                   \/ HoldsAt(endpoints[k], h.binding, h.fence)
        BY <2>3, <3>2, KeyOfGeneration, ApplyEndpoint
      <4>2. /\ endpoints[k] # None /\ endpoints[k].accepted_fence >= g.fence
            /\ ~HoldsAt(endpoints[k], g.binding, g.fence)
        BY HoldsByEndpoint, Zenon
      <4>3. endpoints[k] \in Endpoint /\ None \notin Endpoint
        BY <2>1, <4>2, GenerationsAssumption DEF ProviderTypeOK
      <4>4. /\ endpoints[k].accepted_fence \in Nat /\ endpoints'[k].accepted_fence \in Nat
            /\ g.fence \in Nat
        BY <4>1, <4>3, KeyOfGeneration DEF Endpoint
      <4>5. endpoints'[k].accepted_fence >= g.fence
        BY <4>1, <4>2, <4>4, SMT
      <4>6. ASSUME HoldsAt(endpoints'[k], g.binding, g.fence), ~Kept(k) PROVE FALSE
        <5>1. HoldsAt(endpoints'[k], h.binding, h.fence)
          BY <4>1, <4>6, Zenon DEF HoldsAt
        <5>2. g.binding = h.binding
          BY <4>6, <5>1 DEF HoldsAt
        <5>3. g = h
          BY <5>2, GenerationsAssumption
        <5> QED
          BY <4>1, <4>2, <4>4, <5>1, <5>3, SMT
      <4>7. Kept(k) \/ ~HoldsAt(endpoints'[k], g.binding, g.fence)
        BY <4>6, Zenon
      <4>8. endpoints'[k] # None
        BY <4>1, <4>3
      <4>9. CASE Kept(k)
        BY <2>2, <4>9
      <4>10. CASE ~HoldsAt(endpoints'[k], g.binding, g.fence)
        BY <4>5, <4>8, <4>10, HoldsByEndpoint, Zenon
      <4> QED
        BY <4>7, <4>9, <4>10
    <3> QED
      BY <3>1, <3>2
  <2> QED
    BY <2>1, <2>2, <2>3, StepCases, QuietStep, Zenon
<1> QED
  BY <1>1, InvCorrect, PTL DEF ProviderSpec, PassedIsFinal

\* A request ends no generation but its own or the older one it replaces at
\* the same exclusive endpoint.
THEOREM OthersAreKept == ProviderSpec => OthersKept
<1> DEFINE Replaces(h, g) == /\ h.scope = "Exclusive" /\ g.scope = "Exclusive"
                             /\ h.endpoint = g.endpoint /\ h.fence > g.fence
<1>1. ASSUME NEW g \in Generations, NEW h \in Generations,
             EndpointKey(h) = EndpointKey(g), h.fence >= g.fence
      PROVE  h = g \/ Replaces(h, g)
  <2>1. g.scope \in {"Exclusive", "IndependentShare"} /\ h.scope \in {"Exclusive", "IndependentShare"}
    BY GenerationsAssumption, SMT DEF Generation
  <2>2. g.fence \in Nat /\ h.fence \in Nat
    BY KeyOfGeneration
  <2>3. CASE h.fence = g.fence
    BY <1>1, <2>3, GenerationsAssumption
  <2>4. CASE h.fence > g.fence /\ g.scope = "Exclusive" /\ h.scope = "Exclusive"
    <3>1. [endpoint |-> g.endpoint] = [endpoint |-> h.endpoint]
      BY <1>1, <2>4, Zenon DEF EndpointKey
    <3> QED
      BY <2>4, <3>1
  <2>5. CASE g.scope = "IndependentShare" /\ h.scope = "IndependentShare"
    <3>1. [share |-> g.binding] = [share |-> h.binding]
      BY <1>1, <2>5 DEF EndpointKey
    <3> QED
      BY <3>1, GenerationsAssumption
  <2>6. CASE g.scope # h.scope
    <3>1. \/ [endpoint |-> g.endpoint] = [share |-> h.binding]
          \/ [share |-> g.binding] = [endpoint |-> h.endpoint]
      BY <1>1, <2>1, <2>6 DEF EndpointKey
    <3> QED
      BY <3>1
  <2> QED
    BY <1>1, <2>1, <2>2, <2>3, <2>4, <2>5, <2>6
<1>2. ProviderInv /\ [ProviderNext]_provider_vars =>
          [\A g \in Generations : Holds(g) /\ ~Holds(g)' =>
               \E h \in Generations :
                   /\ answer'.binding = h.binding
                   /\ \/ h = g
                      \/ /\ h.scope = "Exclusive" /\ g.scope = "Exclusive"
                         /\ h.endpoint = g.endpoint /\ h.fence > g.fence]_provider_vars
  <2> SUFFICES ASSUME ProviderTypeOK, ProviderNext, NEW g \in Generations,
                      Holds(g), ~Holds(g)'
               PROVE  \E h \in Generations : /\ answer'.binding = h.binding
                                             /\ h = g \/ Replaces(h, g)
    BY Zenon DEF ProviderInv
  <2> DEFINE k == EndpointKey(g)
  <2>1. k \in Keys /\ ~Kept(k)
    BY KeyOfGeneration, KeptGeneration, Zenon
  <2>2. PICK op \in EndpointOp, h \in Generations, s \in Nat, e \in Nat : Apply(op, h, s, e)
    BY <2>1, StepCases, QuietStep, Zenon
  <2>3. EndpointKey(h) = k
    BY <2>1, <2>2, KeyOfGeneration, ApplyStep
  <2>4. /\ endpoints[k] # None =>
               \/ Kept(k)
               \/ HoldsAt(endpoints'[k], endpoints[k].binding, endpoints[k].accepted_fence)
               \/ h.fence >= endpoints[k].accepted_fence
        /\ answer'.binding = h.binding
        /\ endpoints'[k] \in Endpoint
    BY <2>2, <2>3, KeyOfGeneration, ApplyEndpoint
  <2>5. endpoints[k] # None /\ HoldsAt(endpoints[k], g.binding, g.fence)
    BY HoldsByEndpoint, Zenon
  <2>6. ~HoldsAt(endpoints'[k], g.binding, g.fence)
    <3>1. endpoints'[k] # None
      BY <2>4, GenerationsAssumption
    <3> QED
      BY <3>1, HoldsByEndpoint, Zenon
  <2>7. h.fence >= g.fence
    BY <2>1, <2>4, <2>5, <2>6, Zenon DEF HoldsAt
  <2> QED
    BY <1>1, <2>3, <2>4, <2>7, Zenon
<1> QED
  BY <1>2, InvCorrect, PTL DEF ProviderSpec, OthersKept
=============================================================================
