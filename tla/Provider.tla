------------------------------ MODULE Provider ------------------------------
(***************************************************************************)
(* The resource provider of one agent (crates/node/src/provider.rs) and    *)
(* the endpoint state machine it is built on (kernel/src/endpoint.rs), as  *)
(* the Prepare, Activate, Release and Fence requests of agent.rs drive     *)
(* them.  A provider lives as long as the agent's connection; requests may *)
(* be repeated, reordered, or come from an older controller or session.    *)
(* The value of a handle is left out.                                      *)
(***************************************************************************)
EXTENDS Identities

CONSTANTS
    Generations,    \* the generations controllers issue for bindings
    MaxSession,     \* bound on agent sessions
    MaxEpoch        \* bound on controller epochs

VARIABLES
    session,        \* highest agent session accepted
    epoch,          \* highest controller epoch accepted
    endpoints,      \* key -> endpoint record, None before it is created
    answer          \* the reply to the last request

provider_vars == <<session, epoch, endpoints, answer>>

EndpointOp    == {"Prepare", "Activate", "Release", "Fence"}
EndpointPhase == {"Idle", "Prepared", "Active"}
Answer        == {"Prepared", "Activated", "Released", "Fenced", "Failed"}

Generation == [binding : Bindings, endpoint : Endpoints,
               scope : {"Exclusive", "IndependentShare"}, fence : Nat]

\* Exclusive resources are keyed by (provider, node), shares by binding.
Keys == [endpoint : Endpoints] \cup [share : Bindings]

EndpointKey(g) == IF g.scope = "Exclusive" THEN [endpoint |-> g.endpoint]
                                           ELSE [share |-> g.binding]

Endpoint == [accepted_fence : Nat, open : BOOLEAN, binding : Bindings \cup {None},
             phase : EndpointPhase, session : Nat]

\* A controller never issues one fence of an endpoint to two bindings, and
\* a binding has one generation.
ASSUME GenerationsAssumption ==
    /\ Generations \subseteq Generation
    /\ \A g \in Generations : g.fence > 0
    /\ \A g, h \in Generations :
           \/ g.binding = h.binding
           \/ EndpointKey(g) = EndpointKey(h) /\ g.fence = h.fence
           => g = h
    /\ None \notin Bindings /\ None \notin Endpoint
    /\ MaxSession \in Nat /\ MaxEpoch \in Nat

ProviderTypeOK ==
    /\ session \in Nat /\ epoch \in Nat
    /\ endpoints \in [Keys -> Endpoint \cup {None}]
    /\ answer \in [kind : Answer, binding : Bindings] \cup {None}

ProviderInit ==
    /\ session = 0 /\ epoch = 0
    /\ endpoints = [k \in Keys |-> None]
    /\ answer = None

-----------------------------------------------------------------------------
(* The endpoint state machine.                                             *)

NewEndpoint(s) == [accepted_fence |-> 0, open |-> FALSE, binding |-> None,
                   phase |-> "Idle", session |-> s]

Handshake(ep, s) == IF s > ep.session THEN [ep EXCEPT !.session = s] ELSE ep

\* Mutant: a closed generation may be prepared again under its own fence.
CanPrepareAgain(ep, b, f) == f >= ep.accepted_fence

\* A fence above the accepted one, or a retry of the prepared generation.
CanPrepare(ep, b, f) ==
    \/ f > ep.accepted_fence
    \/ /\ f = ep.accepted_fence
       /\ ep.open /\ ep.binding = b /\ ep.phase = "Prepared"

Prepare(ep, b, f) == [ep EXCEPT !.accepted_fence = f, !.open = TRUE,
                                !.binding = b, !.phase = "Prepared"]

CanActivate(ep, b, f) ==
    /\ ep.open /\ ep.binding = b /\ f = ep.accepted_fence
    /\ ep.phase \in {"Prepared", "Active"}

Activate(ep) == [ep EXCEPT !.phase = "Active"]

\* A stale close is accepted and changes nothing.
Close(ep, f) ==
    IF f < ep.accepted_fence THEN ep
    ELSE [ep EXCEPT !.accepted_fence = f, !.open = FALSE,
                    !.binding = None, !.phase = "Idle"]

\* Endpoint.apply: whether op is accepted, and the endpoint it leaves.
Accepts(ep, op, b, f, s) ==
    /\ s = ep.session
    /\ op = "Prepare" => CanPrepare(ep, b, f)
    /\ op = "Activate" => CanActivate(ep, b, f)

Applied(ep, op, b, f) ==
    CASE op = "Prepare"  -> Prepare(ep, b, f)
      [] op = "Activate" -> Activate(ep)
      [] OTHER           -> Close(ep, f)

-----------------------------------------------------------------------------
(* The provider.                                                           *)

Reply(op) == CASE op = "Prepare"  -> "Prepared"
               [] op = "Activate" -> "Activated"
               [] op = "Release"  -> "Released"
               [] op = "Fence"    -> "Fenced"

Current(s, e) == e >= epoch /\ s >= session

\* check_control_generation: every endpoint learns of the new session.
AcceptedEndpoints(s) ==
    [k \in Keys |-> IF endpoints[k] # None /\ s > session
                    THEN Handshake(endpoints[k], s) ELSE endpoints[k]]

\* The endpoint a request of the current generation meets: it is created when
\* absent, and an Activate adopts an absent endpoint by preparing it first.
Met(g, s) ==
    LET old == AcceptedEndpoints(s)[EndpointKey(g)]
    IN  Handshake(IF old = None THEN NewEndpoint(s) ELSE old, s)

Adopts(op, g) == op = "Activate" /\ endpoints[EndpointKey(g)] = None

\* A request of an older controller or session is refused.
Refuse(op, g, s, e) ==
    /\ ~Current(s, e)
    /\ answer' = [kind |-> "Failed", binding |-> g.binding]
    /\ UNCHANGED <<session, epoch, endpoints>>

\* The endpoint after the request, and whether the request was accepted.
Outcome(op, g, s) ==
    LET b   == g.binding
        met == Met(g, s)
        ep  == IF Adopts(op, g) /\ Accepts(met, "Prepare", b, g.fence, s)
               THEN Prepare(met, b, g.fence) ELSE met
        ok  == /\ Adopts(op, g) => Accepts(met, "Prepare", b, g.fence, s)
               /\ Accepts(ep, op, b, g.fence, s)
    IN  [ok |-> ok, endpoint |-> IF ok THEN Applied(ep, op, b, g.fence) ELSE ep]

Apply(op, g, s, e) ==
    LET out == Outcome(op, g, s)
    IN  /\ Current(s, e)
        /\ epoch' = e /\ session' = s
        /\ endpoints' = [AcceptedEndpoints(s) EXCEPT ![EndpointKey(g)] = out.endpoint]
        /\ answer' = [kind |-> IF out.ok THEN Reply(op) ELSE "Failed",
                      binding |-> g.binding]

\* authorize_execution: a start or stop of a workload only checks, and
\* raises, the control generation.
AuthorizeExecution(s, e) ==
    /\ Current(s, e)
    /\ epoch' = e /\ session' = s
    /\ endpoints' = AcceptedEndpoints(s)
    /\ UNCHANGED answer

ProviderNext ==
    \E s \in 1 .. MaxSession, e \in 1 .. MaxEpoch :
        \/ AuthorizeExecution(s, e)
        \/ \E op \in EndpointOp, g \in Generations :
               Apply(op, g, s, e) \/ Refuse(op, g, s, e)

ProviderSpec == ProviderInit /\ [][ProviderNext]_provider_vars

-----------------------------------------------------------------------------
(* Safety.                                                                 *)

\* The endpoint enforces generation g.
Holds(g) ==
    LET ep == endpoints[EndpointKey(g)]
    IN  ep # None /\ ep.open /\ ep.binding = g.binding /\ ep.accepted_fence = g.fence

\* The endpoint was closed at g's fence or moved on to a newer generation.
Passed(g) ==
    LET ep == endpoints[EndpointKey(g)]
    IN  ep # None /\ ep.accepted_fence >= g.fence /\ ~Holds(g)

\* Every endpoint follows the provider's session, so that no endpoint refuses
\* what the provider has let through (check_control_generation, handshake).
SessionsAgree ==
    \A k \in Keys : endpoints[k] # None => endpoints[k].session = session

\* An open endpoint holds a generation that was issued, under that
\* generation's own fence, and a closed one holds none (prepare, close).
OpenHoldsIssued ==
    \A k \in Keys : endpoints[k] # None =>
        IF endpoints[k].open
        THEN /\ endpoints[k].phase # "Idle"
             /\ \E g \in Generations : EndpointKey(g) = k /\ Holds(g)
        ELSE endpoints[k].binding = None /\ endpoints[k].phase = "Idle"

\* A generation that was closed or overtaken is never held again, whatever
\* is repeated or arrives late, and fences only grow (prepare, close).
PassedIsFinal ==
    [][\A g \in Generations : Passed(g) => Passed(g)']_provider_vars

\* The answers are true: after Prepared or Activated the generation is held,
\* after Released or Fenced it has been passed (prepare, activate, close,
\* adoption on activate).
AnswersAreTrue ==
    \A g \in Generations : answer # None /\ answer.binding = g.binding =>
        /\ answer.kind \in {"Prepared", "Activated"} => Holds(g)
        /\ answer.kind \in {"Released", "Fenced"} => Passed(g)

\* A request for one generation ends no other, except the older one that it
\* replaces at the same exclusive endpoint: one share never fences a sibling
\* (endpoint_key).
OthersKept ==
    [][\A g \in Generations : Holds(g) /\ ~Holds(g)' =>
           \E h \in Generations :
               /\ answer'.binding = h.binding
               /\ \/ h = g
                  \/ /\ h.scope = "Exclusive" /\ g.scope = "Exclusive"
                     /\ h.endpoint = g.endpoint /\ h.fence > g.fence]_provider_vars
=============================================================================
