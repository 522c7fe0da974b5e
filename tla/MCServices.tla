------------------------------ MODULE MCServices ------------------------------
(***************************************************************************)
(* Scenes of Services for TLC: one group and one client on one or two      *)
(* machines with one slot each.                                            *)
(***************************************************************************)
EXTENDS Services

CONSTANTS m1, m2, g1

\* One machine whose group or requests fail.
Failing == [joining |-> {m1}, probed |-> {}, cardinalities |-> {}, keep_alive |-> {},
            fates |-> {"Failed"}, max_restarts |-> 2, max_submits |-> 1,
            max_requests |-> 4, max_time |-> 1]

Upkeep == [Failing EXCEPT !.cardinalities = {Fixed(1)}, !.keep_alive = {TRUE},
                          !.max_time = 4]

Pools == [Failing EXCEPT !.cardinalities = {Fixed(2), Elastic(1, 1, 2)},
                         !.keep_alive = {TRUE}, !.probed = {m1},
                         !.max_requests = 5]

Daemons == [Failing EXCEPT !.cardinalities = {Fixed(1), Elastic(1, 2, 2), PerMachine},
                           !.joining = {m1, m2}, !.max_requests = 3]

Restarts == [Failing EXCEPT !.keep_alive = {TRUE}, !.probed = {m1}, !.fates = EndStates,
                            !.max_restarts = 3, !.max_requests = 5, !.max_time = 8]

\* Scenes in which the code disagrees with what is said of it.
Answers    == [Failing EXCEPT !.keep_alive = {FALSE}, !.max_submits = 3]
Completing == [Failing EXCEPT !.keep_alive = {TRUE}, !.probed = {m1},
                              !.fates = {"Completed"}]
Respawning == [Failing EXCEPT !.cardinalities = {Fixed(1)}]
Scaling    == [Daemons EXCEPT !.keep_alive = {FALSE}, !.max_requests = 4]

AllScenes == {Upkeep, Pools, Daemons, Restarts}
===============================================================================
