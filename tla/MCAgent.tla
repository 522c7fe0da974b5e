------------------------------- MODULE MCAgent -------------------------------
(***************************************************************************)
(* The agent for TLC, in two parts.  "provider": one exclusive endpoint,   *)
(* granted to two bindings in turn, beside two independent shares of       *)
(* another node, driven by any requests.  "link": the exclusive endpoint,  *)
(* driven by the controller through the worker thread and the connection.  *)
(***************************************************************************)
EXTENDS Enforcement, Provider

CONSTANTS e1, e2, Parts

VARIABLE part

ASSUME LinkAssumption == EnforcementConstants

Exclusive(b, f) == [binding |-> b, endpoint |-> e1, scope |-> "Exclusive", fence |-> f]
Share(b)        == [binding |-> b, endpoint |-> e2, scope |-> "IndependentShare", fence |-> b]

Issued == {Exclusive(1, 1), Exclusive(2, 2), Share(3), Share(4)}

\* Binding identities are handed out in ascending order.  Calls time out while
\* there is one binding and two calls, or, where a run asks for a single
\* timeout, with both bindings.
InBounds ==
    /\ grant_state[1] = "Absent" => grant_state[2] = "Absent"
    /\ \A b \in {1, 2} : grants[b].endpoint # e2
    /\ \A b \in {3, 4} : grant_state[b] = "Absent"
    /\ \/ timeouts = 0 \/ MaxTimeouts = 1
       \/ grant_state[2] = "Absent" /\ CallsUnderWay <= 2

AgentInit == ProviderInit /\ EnforcementInit /\ part \in Parts

AgentNext ==
    /\ UNCHANGED part
    /\ \/ part = "provider" /\ ProviderNext /\ UNCHANGED enforcement_vars
       \/ part = "link" /\ EnforcementNext /\ InBounds' /\ UNCHANGED provider_vars

AgentSpec == AgentInit /\ [][AgentNext]_<<part, provider_vars, enforcement_vars>>

\* The orders and the answer of the last step on the link decide nothing.
AgentView ==
    <<part, provider_vars, grant_state, grants, serving, confirmed, sessions,
      watermark, connected, link_vars, inbox, timeouts,
      agent_session, agent_epoch, agent_eps>>
=============================================================================
