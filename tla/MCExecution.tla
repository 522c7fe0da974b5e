---------------------------- MODULE MCExecution ----------------------------
(***************************************************************************)
(* Deployments of two leases and two machines: two leases contending for   *)
(* one machine, a container on a machine with a stray generation, and one  *)
(* lease over two machines.                                                *)
(***************************************************************************)
EXTENDS Execution

CONSTANTS m1, m2, l1, l2

\* The leases of L span the machines of S, and machine m registers at most
\* count[m] times.
Deployment(L, S, count) ==
    [span |-> [l \in Leases |-> IF l \in L THEN S ELSE {}], members |-> L \X S,
     program |-> {l1}, containers |-> {}, ungrouped |-> {},
     reconnects |-> {"fresh", "survives"}, strays |-> {}, probing |-> FALSE,
     sessions |-> count, max_boots |-> 0]

AtMost(a, b) == [m \in Machines |-> IF m = m1 THEN a ELSE b]

Contended == [Deployment({l1, l2}, {m1}, AtMost(2, 0)) EXCEPT !.max_boots = 1]

Returning == [Deployment({l1}, {m1}, AtMost(3, 0)) EXCEPT
                 !.containers = {l1}, !.strays = {m1}]

Restarting == [Returning EXCEPT !.sessions = AtMost(2, 0), !.max_boots = 1, !.probing = TRUE]

Gang == [Deployment({l1}, {m1, m2}, AtMost(2, 1)) EXCEPT !.reconnects = {"fresh"}]

Recovering(n, R) == [Deployment({l1}, {m1}, AtMost(n, 0)) EXCEPT
                        !.strays = {m1}, !.reconnects = R]

\* Deployments in which the code disagrees with what is said of it: a
\* container or a lone process outlives the agent's memory of it, and a probe
\* or an exit code is answered on an earlier connection.
Container == [Deployment({l1}, {m1}, AtMost(2, 0)) EXCEPT
                 !.containers = {l1}, !.reconnects = {"fresh"}]

Lone == [Deployment({l1}, {m1}, AtMost(1, 0)) EXCEPT !.ungrouped = {l1}]

Probed == [Deployment({l1}, {m1}, AtMost(2, 0)) EXCEPT
              !.reconnects = {"fresh"}, !.probing = TRUE]

Exiting == Deployment({l1}, {m1, m2}, AtMost(1, 1))

Idle == [Deployment({l1}, {m1}, AtMost(2, 0)) EXCEPT
            !.program = {}, !.reconnects = {"survives"}]

AllSetups       == {Contended, Returning, Restarting, Gang}
RecoverySetups  == {Recovering(2, {"fresh", "survives"}), Recovering(3, {"survives"})}
ContainerSetups == {Container}
=============================================================================
