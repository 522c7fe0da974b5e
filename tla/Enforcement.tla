----------------------------- MODULE Enforcement -----------------------------
(***************************************************************************)
(* The controller and one agent: the orders of Grants travel through the   *)
(* machine's worker thread (crates/node/src/dispatch.rs) and its           *)
(* connection (RemoteAgentClient) to the agent's Provider, and the answers *)
(* come back through the inbox to NodeService::absorb (service.rs).  The   *)
(* controller's other decisions are left open: it may give any order that  *)
(* Grants allows at any time.                                              *)
(***************************************************************************)
EXTENDS Grants, Sequences

CONSTANTS
    Machine,        \* the machine of the agent
    MaxDialIns,     \* bound on the connections of the agent
    MaxCalls,       \* bound on the calls under way when an order is given
    MaxTimeouts     \* bound on the calls that time out

VARIABLES
    connected,      \* the agent's connection is up
    jobs,           \* orders queued for the worker
    awaited,        \* the job whose answer the worker waits for
    wire,           \* requests written to the connection
    replies,        \* answers written to the connection
    inbox,          \* answers posted to the controller, with their tags
    timeouts,       \* calls that have timed out
    agent_session, agent_epoch, agent_eps, result   \* the agent's Provider

link_vars  == <<jobs, awaited, wire, replies>>
agent_vars == <<agent_session, agent_epoch, agent_eps, result>>

enforcement_vars == <<grant_vars, connected, link_vars, inbox, timeouts, agent_vars>>

\* A provider lives as long as its connection.  One controller incarnation
\* speaks to it, so the epoch stays the same.
P == INSTANCE Provider WITH
    session <- agent_session, epoch <- agent_epoch,
    endpoints <- agent_eps, answer <- result, MaxSession <- MaxDialIns,
    Generations <- {}, MaxEpoch <- 1

Epoch == 1

Job    == [kind : OrderKind, binding : Bindings, fence : Nat, session : Nat]
Result == [kind : P!Answer, binding : Bindings]

\* What the proofs assume of the constants: identities are told apart from
\* None, and the agent's machine is one.
EnforcementConstants ==
    /\ Bindings \subseteq Nat /\ None \notin Bindings
    /\ Machine \in Machines /\ None \notin Machines
    /\ None \notin P!Endpoint /\ None \notin Job
    /\ MaxDialIns \in Nat

EnforcementInit ==
    /\ GrantInit /\ P!ProviderInit
    /\ jobs = <<>> /\ awaited = None /\ wire = <<>> /\ replies = <<>>
    /\ connected = FALSE /\ inbox = <<>> /\ timeouts = 0

-----------------------------------------------------------------------------
(* The controller.  commit, pump and route run under one lock, so an order *)
(* reaches the worker in the step that gives it.                           *)

Session == sessions[Machine]

\* route moves a stale binding to the machine's session before it sends.
JobOf(o) == [kind |-> o.kind, binding |-> o.binding, fence |-> o.fence,
             session |-> Session]

\* dispatch drops an order when no agent is there.  route holds a teardown
\* back until the workload has stopped; it is ordered again then.
Dispatch ==
    \E o \in orders' :
        \/ connected /\ jobs' = Append(jobs, JobOf(o))
        \/ ~connected /\ jobs' = jobs
        \/ o.kind \in {"Release", "Fence"} /\ jobs' = jobs

OnlyDispatched ==
    UNCHANGED <<connected, awaited, wire, replies, inbox, timeouts, agent_vars>>

CallsUnderWay == Len(jobs) + Len(inbox) + (IF awaited = None THEN 0 ELSE 1)

Command(b) ==
    /\ CallsUnderWay < MaxCalls
    /\ \/ \E k \in Endpoints, scope \in Scope : GrantEndpoint(b, k, scope, Machine)
       \/ \E kind \in {"Prepare", "Release", "Fence"} : Tell(kind, {b})
       \/ ActivateGrant(b)
       \/ FailGrant(b, {b})
    /\ Dispatch
    /\ OnlyDispatched

-----------------------------------------------------------------------------
(* The worker: one call at a time, in the order of the jobs.               *)

Send ==
    /\ awaited = None /\ jobs # <<>>
    /\ awaited' = Head(jobs)
    /\ jobs' = Tail(jobs)
    /\ wire' = Append(wire, Head(jobs))
    /\ UNCHANGED <<grant_vars, connected, replies, inbox, timeouts, agent_vars>>

\* The next frame on the connection is taken for the answer to the call.
Receive ==
    /\ awaited # None /\ replies # <<>>
    /\ inbox' = Append(inbox, [tag |-> awaited, reply |-> Head(replies)])
    /\ awaited' = None
    /\ replies' = Tail(replies)
    /\ UNCHANGED <<grant_vars, connected, jobs, wire, timeouts, agent_vars>>

\* The read times out: the call fails, its error is dropped by absorb, and
\* the connection stays in use.
Timeout ==
    /\ awaited # None /\ replies = <<>> /\ timeouts < MaxTimeouts
    /\ awaited' = None
    /\ timeouts' = timeouts + 1
    /\ UNCHANGED <<grant_vars, connected, jobs, wire, replies, inbox, agent_vars>>

-----------------------------------------------------------------------------
(* The agent.                                                              *)

GenerationOf(j) == [binding |-> j.binding, endpoint |-> grants[j.binding].endpoint,
                    scope |-> grants[j.binding].scope, fence |-> j.fence]

Handle ==
    LET j == Head(wire)
    IN  /\ wire # <<>>
        /\ \/ P!Apply(j.kind, GenerationOf(j), j.session, Epoch)
           \/ P!Refuse(j.kind, GenerationOf(j), j.session, Epoch)
        /\ wire' = Tail(wire)
        /\ replies' = Append(replies, result')
        /\ UNCHANGED <<grant_vars, connected, jobs, awaited, inbox, timeouts>>

-----------------------------------------------------------------------------
(* NodeService::absorb.  The binding, session and fence of the tag are     *)
(* recorded; which binding the answer names is not looked at.              *)

\* The kernel takes the answer, or rejects it as stale.
Accepted(r) ==
    /\ Serves(r.tag.binding, r.tag.session)
    /\ r.reply.kind = "Prepared" => grant_state[r.tag.binding] \in {"Preparing", "Active"}

Settle(b, s, kind) ==
    \/ kind = "Prepared" /\ ConfirmGrant(b, s) /\ jobs' = jobs
    \/ kind = "Activated" /\ UNCHANGED <<grant_vars, jobs>>
    \/ kind \in {"Released", "Fenced"} /\ CloseGrant(b, s) /\ jobs' = jobs
    \/ kind = "Failed" /\ FailGrant(b, {b}) /\ Dispatch

Absorb ==
    LET r == Head(inbox)
    IN  /\ inbox # <<>>
        /\ inbox' = Tail(inbox)
        /\ \/ Accepted(r) /\ Settle(r.tag.binding, r.tag.session, r.reply.kind)
           \/ ~Accepted(r) /\ UNCHANGED <<grant_vars, jobs>>
        /\ UNCHANGED <<connected, awaited, wire, replies, timeouts, agent_vars>>

-----------------------------------------------------------------------------
(* Connections.                                                            *)

\* The connection ends, and with it the agent's provider; the calls that
\* were waiting fail.
Disconnect ==
    /\ connected
    /\ connected' = FALSE
    /\ jobs' = <<>> /\ awaited' = None /\ wire' = <<>> /\ replies' = <<>>
    /\ agent_session' = 0 /\ agent_epoch' = 0
    /\ agent_eps' = [k \in P!Keys |-> None] /\ result' = None
    /\ UNCHANGED <<grant_vars, inbox, timeouts>>

\* The agent registers over a new connection, under the next session.
Register ==
    /\ ~connected /\ Session < MaxDialIns
    /\ NewSession(Machine, Session + 1)
    /\ connected' = TRUE
    /\ UNCHANGED <<link_vars, inbox, timeouts, agent_vars>>

EnforcementNext ==
    \/ \E b \in Bindings : Command(b)
    \/ Send \/ Receive \/ Timeout \/ Handle \/ Absorb
    \/ Disconnect \/ Register

EnforcementSpec == EnforcementInit /\ [][EnforcementNext]_enforcement_vars

-----------------------------------------------------------------------------
(* Safety.                                                                 *)

GrantedGen(b) == [binding |-> b, endpoint |-> grants[b].endpoint,
                  scope |-> grants[b].scope, fence |-> grants[b].fence]

Held(b) == b \in Known /\ P!Holds(GrantedGen(b))

EndpointOf(b) == agent_eps[P!EndpointKey(GrantedGen(b))]

\* What the agent enforces is still granted: once the kernel has recorded a
\* binding Released or Fenced, and may grant its capacity again, the agent
\* has let it go (absorb, record_released, record_fenced, close).
HeldIsGranted == \A b \in Bindings : Held(b) => b \in OpenGrants

\* An endpoint is activated only for a binding that an agent has prepared
\* before, also when a new connection adopts it (apply, activate_binding).
ActivatedWasConfirmed ==
    \A b \in Bindings : Held(b) /\ EndpointOf(b).phase = "Active" => b \in confirmed

\* A binding is recorded as prepared only when the agent that is connected
\* now has accepted its fence: an answer of an earlier connection confirms
\* nothing (absorb, record_prepared, require_session).
ConfirmsAccepted ==
    \A b \in confirmed' \ confirmed :
        connected => /\ EndpointOf(b) # None
                     /\ EndpointOf(b).accepted_fence >= grants[b].fence

ConfirmedIsAccepted == [][ConfirmsAccepted]_enforcement_vars
=============================================================================
