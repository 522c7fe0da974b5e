------------------------------- MODULE Grants -------------------------------
(***************************************************************************)
(* What the kernel promises the agents, without leases, claims or graphs:  *)
(* an endpoint is granted to a binding under a fresh fence, the grant is   *)
(* confirmed and closed only by the agent session that serves it, and a    *)
(* closed grant stays closed.  Cluster implements this specification       *)
(* (ClusterGrants) and Enforcement composes it with an agent.              *)
(***************************************************************************)
EXTENDS Identities

CONSTANT Machines   \* the machines an agent may register for

VARIABLES
    grant_state,    \* Bindings -> state
    grants,         \* Bindings -> endpoint, scope and fence
    serving,        \* Bindings -> machine that serves the open grant
    confirmed,      \* the grants whose agent answered Prepare
    sessions,       \* Machines -> current agent session, 0 before the first
    watermark,      \* Endpoints -> newest exclusive fence
    orders          \* what the agents are told to do by the last step

grant_vars == <<grant_state, grants, serving, confirmed, sessions, watermark, orders>>

OpenGrant  == {"Preparing", "Active", "Failed"}
GrantState == {"Absent", "Closed"} \cup OpenGrant
Scope      == {"Exclusive", "IndependentShare"}
OrderKind  == {"Prepare", "Activate", "Release", "Fence"}

Grant == [endpoint : Endpoints \cup {None}, scope : Scope, fence : Nat]
Order == [kind : OrderKind, binding : Bindings, fence : Nat]

NoGrant == [endpoint |-> None, scope |-> "Exclusive", fence |-> 0]

GrantTypeOK ==
    /\ grant_state \in [Bindings -> GrantState]
    /\ grants \in [Bindings -> Grant]
    /\ serving \in [Bindings -> Machines \cup {None}]
    /\ confirmed \subseteq Bindings
    /\ sessions \in [Machines -> Nat]
    /\ watermark \in [Endpoints -> Nat]
    /\ orders \subseteq Order

GrantInit ==
    /\ grant_state = [b \in Bindings |-> "Absent"]
    /\ grants = [b \in Bindings |-> NoGrant]
    /\ serving = [b \in Bindings |-> None]
    /\ confirmed = {}
    /\ sessions = [m \in Machines |-> 0]
    /\ watermark = [k \in Endpoints |-> 0]
    /\ orders = {}

-----------------------------------------------------------------------------

OpenGrants == {b \in Bindings : grant_state[b] \in OpenGrant}
Known      == {b \in Bindings : grant_state[b] # "Absent"}

Orders(kind, S) == {[kind |-> kind, binding |-> b, fence |-> grants[b].fence] : b \in S}

\* Mutants: the session of the answer is not compared, or not once the grant
\* is confirmed.
ServesConfirmed(b, s) ==
    LET m == serving[b]
    IN  m # None /\ sessions[m] # 0 /\ (b \in confirmed \/ sessions[m] = s)

ServesAny(b, s) ==
    LET m == serving[b]
    IN  m # None /\ sessions[m] # 0

\* The agent that answers is the one that serves the grant now.
Serves(b, s) ==
    LET m == serving[b]
    IN  m # None /\ sessions[m] # 0 /\ sessions[m] = s

Conflict(k, scope) ==
    \E b \in OpenGrants : /\ grants[b].endpoint = k
                          /\ "Exclusive" \in {scope, grants[b].scope}

FreshFence(b, k, scope) ==
    IF scope = "Exclusive" THEN watermark[k] + 1 ELSE IF b > 1 THEN b ELSE 1

\* Endpoint k of machine m is granted to binding b.
GrantEndpoint(b, k, scope, m) ==
    LET f == FreshFence(b, k, scope)
    IN  /\ grant_state[b] = "Absent"
        /\ sessions[m] # 0
        /\ ~Conflict(k, scope)
        /\ grant_state' = [grant_state EXCEPT ![b] = "Preparing"]
        /\ grants' = [grants EXCEPT ![b] = [endpoint |-> k, scope |-> scope, fence |-> f]]
        /\ serving' = [serving EXCEPT ![b] = m]
        /\ watermark' = IF scope = "Exclusive" THEN [watermark EXCEPT ![k] = f]
                                               ELSE watermark
        /\ orders' = {[kind |-> "Prepare", binding |-> b, fence |-> f]}
        /\ UNCHANGED <<confirmed, sessions>>

\* Orders that leave the grants as they are: a repeated Prepare, or a
\* teardown of any known grants.
Tell(kind, S) ==
    /\ \/ kind = "Prepare" /\ \A b \in S : grant_state[b] = "Preparing"
       \/ kind \in {"Release", "Fence"} /\ S \subseteq Known
    /\ orders' = Orders(kind, S)
    /\ UNCHANGED <<grant_state, grants, serving, confirmed, sessions, watermark>>

\* Mutant: an endpoint is activated before it is prepared.
ActivateGrantEarly(b) ==
    /\ grant_state[b] \in {"Preparing", "Active"}
    /\ grant_state' = [grant_state EXCEPT ![b] = "Active"]
    /\ orders' = Orders("Activate", {b})
    /\ UNCHANGED <<grants, serving, confirmed, sessions, watermark>>

\* An endpoint is activated only after its agent prepared it.
ActivateGrant(b) ==
    /\ grant_state[b] \in {"Preparing", "Active"}
    /\ b \in confirmed
    /\ grant_state' = [grant_state EXCEPT ![b] = "Active"]
    /\ orders' = Orders("Activate", {b})
    /\ UNCHANGED <<grants, serving, confirmed, sessions, watermark>>

\* The grant is given up, and with it those of the bindings of S.
FailGrant(b, S) ==
    /\ b \in OpenGrants
    /\ b \in S /\ S \subseteq OpenGrants
    /\ grant_state' = [grant_state EXCEPT ![b] = "Failed"]
    /\ orders' = Orders("Fence", S)
    /\ UNCHANGED <<grants, serving, confirmed, sessions, watermark>>

ConfirmGrant(b, s) ==
    /\ Serves(b, s)
    /\ grant_state[b] \in {"Preparing", "Active"}
    /\ confirmed' = confirmed \cup {b}
    /\ orders' = {}
    /\ UNCHANGED <<grant_state, grants, serving, sessions, watermark>>

CloseGrant(b, s) ==
    /\ b \in OpenGrants
    /\ Serves(b, s)
    /\ grant_state' = [grant_state EXCEPT ![b] = "Closed"]
    /\ serving' = [serving EXCEPT ![b] = None]
    /\ orders' = {}
    /\ UNCHANGED <<grants, confirmed, sessions, watermark>>

NewSession(m, s) ==
    /\ s >= sessions[m]
    /\ sessions' = [sessions EXCEPT ![m] = s]
    /\ orders' = {}
    /\ UNCHANGED <<grant_state, grants, serving, confirmed, watermark>>

RaiseWatermark(k, f) ==
    /\ f > watermark[k]
    /\ watermark' = [watermark EXCEPT ![k] = f]
    /\ orders' = {}
    /\ UNCHANGED <<grant_state, grants, serving, confirmed, sessions>>

GrantNext ==
    \/ \E kind \in OrderKind, S \in SUBSET Bindings : Tell(kind, S)
    \/ \E b \in Bindings :
           \/ \E k \in Endpoints, scope \in Scope, m \in Machines :
                  GrantEndpoint(b, k, scope, m)
           \/ ActivateGrant(b)
           \/ \E S \in SUBSET Bindings : FailGrant(b, S)
           \/ \E m \in Machines : ConfirmGrant(b, sessions[m]) \/ CloseGrant(b, sessions[m])
    \/ \E m \in Machines : NewSession(m, sessions'[m])
    \/ \E k \in Endpoints : RaiseWatermark(k, watermark'[k])

GrantSpec == GrantInit /\ [][GrantNext]_grant_vars
=============================================================================
