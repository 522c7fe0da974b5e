------------------------------ MODULE Execution ------------------------------
(***************************************************************************)
(* Workload members on agents: the controller's start and stop barriers,   *)
(* held teardown, status polls, probes, and the recovery of a machine that *)
(* registers again (crates/node/src/service.rs and recovery.rs), against   *)
(* the agents that serve the calls (agent.rs, executor.rs, runtime.rs,     *)
(* container.rs), whose endpoints are those of Provider.                   *)
(*                                                                         *)
(* A machine has one exclusive resource, so leases that span a common      *)
(* machine exclude each other.  A call is lost only when its connection    *)
(* ends: late answers on a living connection are the subject of            *)
(* Enforcement.  Expiry is a Revoke with the same effects.                 *)
(***************************************************************************)
EXTENDS Naturals, Sequences, SequencesExt

CONSTANTS
    Leases,         \* lease identities
    Machines,       \* machines, each with one agent
    None,           \* no binding, no recovery, no lease
    Setups,         \* the deployments that are considered
    MaxCalls        \* no poll, probe or second revocation while as many wait

VARIABLES
    setup,      \* the deployment, which never changes
    ctl,        \* the controller: kernel records, controller memory, workers
    agents,     \* machine -> its agent: provider and tracked members
    work,       \* member -> the state of its process or container
    starts,     \* member -> how often it was started
    enforced    \* members whose endpoint was ever activated

vars == <<ctl, agents, work, starts, enforced>>

LeaseState   == {"Absent", "Preparing", "Active", "Completed", "Failed", "Revoked"}
Terminal     == {"Completed", "Failed", "Revoked"}
EndedLease   == {"Failed", "Revoked"}
Exit         == {"Exit0", "Exit1"}
MemberStatus == {"Running", "Gone"} \cup Exit

\* A deployment: what the leases are, what may happen to the agents, and the
\* bounds.
Span       == setup.span        \* lease -> the machines of its claims
Members    == setup.members     \* the lease's member on each of them
Program    == setup.program     \* the leases that carry a program
Containers == setup.containers  \* those of them whose program is an OCI image
Ungrouped  == setup.ungrouped   \* processes outside any control group
Reconnects == setup.reconnects  \* a returning agent is "fresh" or "survives"
Strays     == setup.strays      \* machines whose agent holds a generation of no lease
Probing    == setup.probing     \* whether the controller probes its agents
Sessions   == setup.sessions    \* machine -> bound on its registrations
MaxBoots   == setup.max_boots   \* bound on the restarts of the controller

\* The cluster's epoch, which no controller advances.
Epoch == 1

\* The provider of machine m.  A stray generation belongs to lease None.
P(m) == INSTANCE Provider WITH
            Bindings <- (Leases \cup {None}) \X {m}, Endpoints <- {m},
            Generations <- {}, MaxSession <- 0, MaxEpoch <- 0,
            session <- agents[m].session, epoch <- agents[m].epoch,
            endpoints <- agents[m].endpoints, answer <- None

NewAgent(m) == [session |-> 0, epoch |-> 0, tracked |-> {},
                endpoints |-> [k \in P(m)!Keys |-> None]]

StrayAgent(m) ==
    [NewAgent(m) EXCEPT !.endpoints[[endpoint |-> m]] =
        P(m)!Activate(P(m)!Prepare(P(m)!NewEndpoint(0), <<None, m>>, 1))]

-----------------------------------------------------------------------------
(* The controller's state.                                                 *)

\* A call and its tag.
Call(kind, l, s, f) == [kind |-> kind, lease |-> l, session |-> s, fence |-> f]
Answer(k) == [kind |-> k, endpoint |-> None]

NoMembers == [l \in Leases |-> "None"]

\* Controller memory, which a restart loses.
Forget(c) ==
    [c EXCEPT !.link        = [m \in Machines |-> "none"],
              !.calls       = [m \in Machines |-> <<>>],
              !.inbox       = [m \in Machines |-> <<>>],
              !.recovering  = [m \in Machines |-> None],
              !.status      = [b \in Members |-> "None"],
              !.held = {}, !.activated = {}, !.started = {}, !.stopped = {},
              !.unreachable = {}]

NewController ==
    Forget([lease |-> [l \in Leases |-> "Absent"],
            binding |-> [b \in Members |-> None],
            session |-> [m \in Machines |-> 0],
            fence |-> [m \in Machines |-> 0],
            quarantined |-> {}, boots |-> 0,
            link |-> 0, calls |-> 0, inbox |-> 0, recovering |-> 0, status |-> 0,
            held |-> 0, activated |-> 0, started |-> 0, stopped |-> 0,
            unreachable |-> 0])

Init ==
    /\ setup \in Setups
    /\ ctl = NewController
    /\ agents = [m \in Machines |-> IF m \in Strays THEN StrayAgent(m) ELSE NewAgent(m)]
    /\ work = [b \in Members |-> "None"]
    /\ starts = [b \in Members |-> 0]
    /\ enforced = {}

IsOpen(c, b) == c.binding[b] # None /\ c.binding[b].state # "Closed"
OpenOf(c, l) == {b \in Members : b[1] = l /\ IsOpen(c, b)}
HasProgram(l) == l \in Program

\* Enqueue a call to a machine's worker: without a worker it is dropped.
Dispatch(c, m, call) ==
    IF c.link[m] = "none" THEN c ELSE [c EXCEPT !.calls[m] = Append(@, call)]

InFlight(c, m, call) ==
    \/ \E i \in DOMAIN c.calls[m] : c.calls[m][i] = call
    \/ \E i \in DOMAIN c.inbox[m] : c.inbox[m][i].call = call

\* One such call at a time.
Ask(c, m, call) == IF InFlight(c, m, call) THEN c ELSE Dispatch(c, m, call)

\* request_status_on_machine
RequestStatus(c, l, m) ==
    IF c.session[m] = 0 THEN c ELSE Ask(c, m, Call("Status", l, c.session[m], 0))

-----------------------------------------------------------------------------
(* Start and stop barriers, and the routing of effects.                    *)

\* Only a stop acknowledged, or an exit recovered, in the machine's current
\* session proves that a member is gone.
StopProven(c, b) == <<b[1], b[2], c.session[b[2]]>> \in c.stopped

\* Stop every member of a terminal lease that is not proven stopped.
MaybeStop(c, l) ==
    LET stop(m, acc) ==
            IF c.session[m] = 0 \/ StopProven(c, <<l, m>>) THEN acc
            ELSE Ask(acc, m, Call("Stop", l, c.session[m], 0))
    IN  IF c.lease[l] \in Terminal /\ HasProgram(l)
        THEN FoldSet(stop, c, Span[l]) ELSE c

\* Mutant: teardown does not wait for the member.
RouteUnheld(c, b, kind) ==
    LET m == b[2]
    IN  Dispatch([c EXCEPT !.binding[b].session = c.session[m]], m,
                 Call(kind, b[1], c.session[m], c.binding[b].fence))

\* Route an effect on binding b: rebind it to the machine's session, then
\* send it, or hold the teardown until the member is proven stopped.
Route(c, b, kind) ==
    LET l == b[1]
        m == b[2]
        rebound == [c EXCEPT !.binding[b].session = c.session[m]]
    IN  IF c.lease[l] \in Terminal /\ HasProgram(l) /\ ~StopProven(c, b)
        THEN [MaybeStop(rebound, l) EXCEPT !.held = @ \cup {b}]
        ELSE Dispatch(rebound, m, Call(kind, l, c.session[m], c.binding[b].fence))

RouteAll(c, S, kind) == FoldSet(LAMBDA b, acc : Route(acc, b, kind), c, S)

\* Send the held teardown whose stop is proven by now.
DriveHeld(c) ==
    LET proven == {b \in c.held : StopProven(c, b)}
    IN  RouteAll([c EXCEPT !.held = @ \ proven], proven, "Fence")

\* FailLease, RevokeLease and CompleteLease, with their Fence effects.
FailLease(c, l) ==
    IF c.lease[l] \in EndedLease THEN c
    ELSE RouteAll([c EXCEPT !.lease[l] = "Failed"], OpenOf(c, l), "Fence")

RevokeLease(c, l) ==
    RouteAll([c EXCEPT !.lease[l] = IF @ \in EndedLease THEN @ ELSE "Revoked"],
             OpenOf(c, l), "Fence")

CompleteLease(c, l, st) ==
    RouteAll([c EXCEPT !.lease[l] = st], OpenOf(c, l), "Fence")

\* Every binding is prepared: activate the lease and its bindings.
MaybeActivate(c, l) ==
    LET own == {b \in Members : b[1] = l}
    IN  IF /\ c.lease[l] = "Preparing"
           /\ \A b \in own : c.binding[b].state = "Preparing" /\ c.binding[b].handle
           /\ Span[l] \cap c.quarantined = {}
        THEN RouteAll([c EXCEPT !.lease[l] = "Active",
                                !.binding = [b \in Members |->
                                    IF b \in own THEN [@[b] EXCEPT !.state = "Active"]
                                                 ELSE @[b]]],
                      own, "Activate")
        ELSE c

\* Mutant: a machine's own activation is enough.
AnyActivated(c, l) ==
    \E b \in Members : b[1] = l /\ c.binding[b].state = "Active"
        /\ <<l, b[2], c.binding[b].session>> \in c.activated

\* Every binding acknowledged the activation of its recorded generation.
AllActivated(c, l) ==
    \A b \in Members : b[1] = l =>
        /\ c.binding[b].state = "Active"
        /\ <<l, b[2], c.binding[b].session>> \in c.activated

\* One start per session, and none on a machine that is recovering.
Startable(c, l, m) ==
    /\ c.recovering[m] = None
    /\ c.session[m] # 0
    /\ <<l, m, c.session[m]>> \notin c.started

MaybeStart(c, l) ==
    LET start(m, acc) == Ask(acc, m, Call("Start", l, c.session[m], 0))
    IN  IF c.lease[l] = "Active" /\ HasProgram(l) /\ AllActivated(c, l)
        THEN FoldSet(start, c, {m \in Span[l] : Startable(c, l, m)}) ELSE c

AllSucceeded(c, l) == \A m \in Span[l] : c.status[<<l, m>>] = "Exit0"

\* resolve_observed_completion: one failed member fails the lease, and it
\* completes when every member has succeeded.
ResolveCompletion(c, l) ==
    IF c.lease[l] # "Active" THEN c
    ELSE IF \E m \in Span[l] : c.status[<<l, m>>] = "Exit1"
    THEN CompleteLease(c, l, "Failed")
    ELSE IF AllSucceeded(c, l) THEN CompleteLease(c, l, "Completed") ELSE c

-----------------------------------------------------------------------------
(* Recovery of a machine that registers again.                             *)

NewRecovery == [members |-> NoMembers, enumerated |-> FALSE, endpoint |-> None,
                strays |-> {}]

\* The leases of the machine's Preparing and Active bindings: Active and
\* terminal ones are asked for their member, Preparing ones fail.
RouteRecovery(c, m) ==
    LET live  == {l \in Leases : /\ m \in Span[l] /\ IsOpen(c, <<l, m>>)
                                 /\ c.binding[<<l, m>>].state # "Failed"}
        fail  == {l \in live : c.lease[l] = "Preparing"}
        asked == [c EXCEPT !.recovering[m].members =
                     [l \in Leases |-> IF l \in live \ fail THEN "asked" ELSE @[l]]]
    IN  FoldSet(LAMBDA l, acc : FailLease(acc, l),
                FoldSet(LAMBDA l, acc : RequestStatus(acc, l, m), asked, live \ fail),
                fail)

\* Mutant: a stray generation need not be closed.
SettledEnumerated(r) == r.enumerated

EndpointsSettled(r) == r.enumerated /\ r.strays = {}

RecoveryComplete(r) == r.members = NoMembers /\ EndpointsSettled(r)

\* The enumeration shows exactly the recorded generation, open and active.
Proves(r, b, bnd) ==
    /\ bnd.state = "Active"
    /\ r.endpoint # None /\ r.endpoint.binding = b /\ r.endpoint.open
    /\ r.endpoint.accepted_fence = bnd.fence /\ r.endpoint.phase = "Active"

\* A member is resolved once its status is known; an Active lease is adopted
\* only with proof of its endpoint.
Resolvable(c, l, m) ==
    LET r  == c.recovering[m]
        st == r.members[l]
    IN  /\ st \in MemberStatus
        /\ c.lease[l] = "Active" /\ st # "Gone" =>
               /\ EndpointsSettled(r)
               /\ IsOpen(c, <<l, m>>) => Proves(r, <<l, m>>, c.binding[<<l, m>>])

\* A terminal lease recovers by the shutdown of its member.
ResolveTerminal(c, l, m, st) ==
    LET known == IF st \in Exit
                 THEN [c EXCEPT !.stopped = @ \cup {<<l, m, c.session[m]>>}] ELSE c
    IN  DriveHeld(MaybeStop(known, l))

\* rebind_lease_machine, and the proofs moved to the current session.
Adopt(c, l, m, st) ==
    LET key == <<l, m, c.session[m]>>
    IN  [c EXCEPT !.binding[<<l, m>>].session = c.session[m],
                  !.activated = IF c.binding[<<l, m>>].state = "Active"
                                THEN @ \cup {key} ELSE @,
                  !.started = @ \cup {key},
                  !.stopped = IF st \in Exit THEN @ \cup {key} ELSE @]

\* Mutant: a member nobody knows of is started again.
ResolveByRestart(c, l, m, st) ==
    IF c.lease[l] \in Terminal THEN ResolveTerminal(c, l, m, st)
    ELSE IF st # "Gone" THEN ResolveCompletion(Adopt(c, l, m, st), l)
    ELSE Route(c, <<l, m>>, "Activate")

\* Recovery revokes an Active lease whose member nobody knows of.
ResolveMember(c, l, m, st) ==
    LET seen == [c EXCEPT !.status[<<l, m>>] = st]
    IN  IF c.lease[l] \in Terminal THEN ResolveTerminal(seen, l, m, st)
        ELSE IF st # "Gone" THEN ResolveCompletion(Adopt(seen, l, m, st), l)
        ELSE RevokeLease(seen, l)

\* The machine is schedulable again unless a binding on it is still open.
FinishRecovery(c, m) ==
    [c EXCEPT !.recovering[m] = None,
              !.quarantined = IF \E l \in Leases : <<l, m>> \in Members /\ IsOpen(c, <<l, m>>)
                              THEN @ ELSE @ \ {m}]

ResolveMachine(c, m) ==
    LET resolve(l, acc) ==
            ResolveMember([acc EXCEPT !.recovering[m].members[l] = "None"], l, m,
                          c.recovering[m].members[l])
        after == FoldSet(resolve, c, {l \in Leases : Resolvable(c, l, m)})
    IN  IF c.recovering[m] = None THEN c
        ELSE IF RecoveryComplete(after.recovering[m]) THEN FinishRecovery(after, m)
        ELSE after

\* absorb_enumeration.  An open endpoint of no open record is closed at its
\* own fence, and later fences of the node stay above it.
StrayFence(c, m, ep) ==
    LET call == Call("StrayFence", ep.binding[1], c.session[m], ep.accepted_fence)
        seen == [c EXCEPT !.fence[m] = IF ep.accepted_fence > @ THEN ep.accepted_fence
                                                               ELSE @]
    IN  IF c.recovering[m] = None \/ call \in c.recovering[m].strays THEN seen
        ELSE Dispatch([seen EXCEPT !.recovering[m].strays = @ \cup {call}], m, call)

\* What the enumerated endpoint is to the controller's records.
EndpointCase(c, m, ep) ==
    LET b == ep.binding
    IN  CASE ep = None -> "none"
          [] ep # None /\ b = None -> "none"
          [] b \in Members /\ c.binding[b] # None
                           /\ c.binding[b].fence # ep.accepted_fence -> "inconsistent"
          [] b \in Members /\ IsOpen(c, b) /\ c.lease[b[1]] \in Terminal -> "fence"
          [] b \in Members /\ IsOpen(c, b) -> "expected"
          [] OTHER -> "stray"

AbsorbEnumeration(c, m, ep) ==
    LET case == EndpointCase(c, m, ep)
        kept == IF case = "stray" THEN StrayFence(c, m, ep) ELSE c
        seen == IF case = "inconsistent" \/ c.recovering[m] = None THEN kept
                ELSE [kept EXCEPT !.recovering[m].enumerated = TRUE,
                                  !.recovering[m].endpoint = ep]
        next == ResolveMachine(seen, m)
    IN  IF case = "fence" THEN Route(next, ep.binding, "Fence") ELSE next

-----------------------------------------------------------------------------
(* Absorbing the agents' answers.                                          *)

\* Mutant: a failed binding takes no answer.
AckedUnfailed(c, b, call) ==
    /\ call.session = c.session[b[2]] /\ call.fence = c.binding[b].fence
    /\ c.binding[b].state # "Failed"

\* The kernel takes the answer: require_session, require_fence.
Acked(c, b, call) ==
    call.session = c.session[b[2]] /\ call.fence = c.binding[b].fence

AbsorbBinding(c, b, call, reply) ==
    LET acked == Acked(c, b, call)
        at(st) == [c EXCEPT !.binding[b].state = st, !.binding[b].session = call.session]
        st == c.binding[b].state
    IN  CASE reply.kind = "Prepared" ->
               MaybeActivate(IF acked /\ st \in {"Preparing", "Active"}
                             THEN [at(st) EXCEPT !.binding[b].handle = TRUE] ELSE c, b[1])
          [] reply.kind = "Activated" /\ acked /\ st = "Active" ->
               MaybeStart([at(st) EXCEPT !.activated =
                              @ \cup {<<b[1], b[2], call.session>>}], b[1])
          [] reply.kind = "Fenced" /\ acked -> at("Closed")
          [] reply.kind = "Failed" /\ acked ->
               LET failed == [at(IF st = "Closed" THEN st ELSE "Failed") EXCEPT
                                 !.lease[b[1]] = IF @ \in EndedLease THEN @ ELSE "Failed"]
               IN  RouteAll(failed, OpenOf(failed, b[1]), "Fence")
          [] OTHER -> c

\* A start that failed, or that nobody can vouch for, fails the lease.
AbsorbStart(c, b, reply) ==
    IF c.lease[b[1]] # "Active" THEN c
    ELSE IF reply.kind = "Started"
    THEN [c EXCEPT !.started = @ \cup {<<b[1], b[2], c.session[b[2]]>>}]
    ELSE FailLease(c, b[1])

\* Mutant: a stop that failed counts as a stop.
AbsorbAnyStop(c, b, reply) ==
    DriveHeld([c EXCEPT !.stopped = @ \cup {<<b[1], b[2], c.session[b[2]]>>}])

\* A stop that failed leaves the capacity held.
AbsorbStop(c, b, reply) ==
    IF reply.kind = "Stopped"
    THEN DriveHeld([c EXCEPT !.stopped = @ \cup {<<b[1], b[2], c.session[b[2]]>>}])
    ELSE c

\* During recovery an unanswered query counts as an unknown member.
AbsorbStatus(c, b, reply) ==
    LET m == b[2]
        proven == reply.kind \in MemberStatus
    IN  IF c.recovering[m] # None /\ c.recovering[m].members[b[1]] # "None"
        THEN ResolveMachine([c EXCEPT !.recovering[m].members[b[1]] =
                                 IF proven THEN reply.kind ELSE "Gone"], m)
        ELSE IF proven THEN ResolveCompletion([c EXCEPT !.status[b] = reply.kind], b[1])
        ELSE c

\* Mutant: the acknowledgement is not recorded.
AbsorbStrayFenceLost(c, m, call, reply) == c

AbsorbStrayFence(c, m, call, reply) ==
    IF reply.kind # "Fenced" \/ c.recovering[m] = None THEN c
    ELSE ResolveMachine([c EXCEPT !.recovering[m].strays = @ \ {call}], m)

\* Answers about members and recovery count only in the session that asked.
\* Binding answers are checked by the kernel, probes not at all.
OutOfSession(c, m, call) ==
    /\ call.kind \notin {"Prepare", "Activate", "Fence", "Probe"}
    /\ call.session # c.session[m]

Absorbed(c, m, call, reply) ==
    LET b == <<call.lease, m>>
    IN  CASE OutOfSession(c, m, call)    -> c
          [] call.kind = "Start"         -> AbsorbStart(c, b, reply)
          [] call.kind = "Stop"          -> AbsorbStop(c, b, reply)
          [] call.kind = "Status"        -> AbsorbStatus(c, b, reply)
          [] call.kind = "StrayFence"    -> AbsorbStrayFence(c, m, call, reply)
          [] call.kind = "Enumerate"     ->
               IF reply.kind = "Endpoints" THEN AbsorbEnumeration(c, m, reply.endpoint)
                                           ELSE c
          [] call.kind = "Probe"         ->
               IF reply.kind = "Err" THEN [c EXCEPT !.unreachable = @ \cup {m}] ELSE c
          [] OTHER                       -> AbsorbBinding(c, b, call, reply)

\* One answer at a time; a longer batch only delays the effects.
Absorb(m) ==
    /\ ctl.inbox[m] # <<>>
    /\ LET e == Head(ctl.inbox[m])
       IN  ctl' = Absorbed([ctl EXCEPT !.inbox[m] = Tail(@)], m, e.call, e.reply)
    /\ UNCHANGED <<agents, work, starts, enforced>>

-----------------------------------------------------------------------------
(* The controller's other steps.                                           *)

Quiet == \A m \in Machines : Len(ctl.calls[m]) + Len(ctl.inbox[m]) < MaxCalls

\* The watermarks after a binding is opened on every machine of the lease.
AdvancedFences(c, l) ==
    [m \in Machines |-> IF m \in Span[l] THEN c.fence[m] + 1 ELSE c.fence[m]]

\* Admission opens the lease and its bindings, and prepares them.
Admit(l) ==
    LET own == {b \in Members : b[1] = l}
        opened == [ctl EXCEPT !.lease[l] = "Preparing",
                      !.fence = AdvancedFences(ctl, l),
                      !.binding = [b \in Members |->
                          IF b \in own
                          THEN [state |-> "Preparing", session |-> ctl.session[b[2]],
                                fence |-> ctl.fence[b[2]] + 1, handle |-> FALSE]
                          ELSE @[b]]]
    IN  /\ ctl.lease[l] = "Absent" /\ own # {}
        /\ Span[l] \cap ctl.quarantined = {}
        /\ \A m \in Span[l] : ctl.session[m] # 0
        /\ \A b \in Members : b[2] \in Span[l] =>
               ctl.lease[b[1]] \notin {"Preparing", "Active"} /\ ~IsOpen(ctl, b)
        /\ ctl' = RouteAll(opened, own, "Prepare")
        /\ UNCHANGED <<agents, work, starts, enforced>>

Revoke(l) ==
    /\ ctl.lease[l] # "Absent"
    /\ ctl.lease[l] \in Terminal => Quiet
    /\ ctl' = RevokeLease(ctl, l)
    /\ ctl' # ctl
    /\ UNCHANGED <<agents, work, starts, enforced>>

\* collect_completions: poll every executing lease.
Poll ==
    LET due == {b \in Members : ctl.lease[b[1]] = "Active" /\ HasProgram(b[1])}
    IN  /\ Quiet
        /\ ctl' = FoldSet(LAMBDA b, acc : RequestStatus(acc, b[1], b[2]), ctl, due)
        /\ ctl' # ctl
        /\ UNCHANGED <<agents, work, starts, enforced>>

\* probe_agents
Probe(m) ==
    /\ Probing /\ Quiet
    /\ ctl' = Ask(ctl, m, Call("Probe", None, 0, 0))
    /\ ctl' # ctl
    /\ UNCHANGED <<agents, work, starts, enforced>>

\* maintain: a machine whose probe failed is quarantined and its leases,
\* completed ones included, fail.
MarkUnhealthy(m) ==
    LET marked == [ctl EXCEPT !.unreachable = @ \ {m}, !.quarantined = @ \cup {m}]
    IN  /\ m \in ctl.unreachable
        /\ ctl' = FoldSet(LAMBDA l, acc : FailLease(acc, l), marked,
                          {l \in Leases : m \in Span[l] /\ ctl.lease[l] # "Absent"})
        /\ UNCHANGED <<agents, work, starts, enforced>>

\* The controller restarts: the kernel's records survive, its memory does not.
Boot ==
    /\ ctl.boots < MaxBoots
    /\ ctl' = Forget([ctl EXCEPT !.boots = @ + 1])
    /\ UNCHANGED <<agents, work, starts, enforced>>

-----------------------------------------------------------------------------
(* The worker and the agent it calls.                                      *)

Posted(m, reply) ==
    [ctl EXCEPT !.calls[m] = Tail(@),
                !.inbox[m] = Append(@, [call |-> Head(ctl.calls[m]), reply |-> reply])]

\* The answer reaches the inbox, or the connection ends with it.
Answered(m, reply) ==
    \/ ctl' = Posted(m, reply)
    \/ ctl' = [Posted(m, Answer("Err")) EXCEPT !.link[m] = "down"]

Serving(m, kinds) ==
    ctl.link[m] = "up" /\ ctl.calls[m] # <<>> /\ Head(ctl.calls[m]).kind \in kinds

Disconnect(m) ==
    /\ ctl.link[m] = "up"
    /\ ctl' = [ctl EXCEPT !.link[m] = "down"]
    /\ UNCHANGED <<agents, work, starts, enforced>>

\* A call on a connection that ended.
CallFails(m) ==
    /\ ctl.link[m] = "down" /\ ctl.calls[m] # <<>>
    /\ ctl' = Posted(m, Answer("Err"))
    /\ UNCHANGED <<agents, work, starts, enforced>>

Op(kind) == IF kind = "StrayFence" THEN "Fence" ELSE kind

\* Prepare, Activate and Fence: the provider's endpoint decides.
ServeBinding(m) ==
    LET call == Head(ctl.calls[m])
        b    == <<call.lease, m>>
        g    == [binding |-> b, endpoint |-> m, scope |-> "Exclusive", fence |-> call.fence]
        op   == Op(call.kind)
        out  == P(m)!Outcome(op, g, call.session)
        ok   == P(m)!Current(call.session, Epoch) /\ out.ok
    IN  /\ Serving(m, {"Prepare", "Activate", "Fence", "StrayFence"})
        /\ agents' = IF P(m)!Current(call.session, Epoch)
                     THEN [agents EXCEPT
                              ![m].session = call.session, ![m].epoch = Epoch,
                              ![m].endpoints = [P(m)!AcceptedEndpoints(call.session)
                                  EXCEPT ![P(m)!EndpointKey(g)] = out.endpoint]]
                     ELSE agents
        /\ enforced' = IF ok /\ op = "Activate" THEN enforced \cup {b} ELSE enforced
        /\ Answered(m, Answer(IF ok THEN P(m)!Reply(op) ELSE "Failed"))
        /\ UNCHANGED <<work, starts>>

\* authorize_execution
Authorized(m, call) ==
    IF P(m)!Current(call.session, Epoch)
    THEN [agents EXCEPT ![m].session = call.session, ![m].epoch = Epoch,
                        ![m].endpoints = P(m)!AcceptedEndpoints(call.session)]
    ELSE agents

-----------------------------------------------------------------------------
(* The runtimes.  What an operation on a member of lease l may lead to, from *)
(* the members t its agent tracks and the state w of its process.            *)

Result(t, w, k) == [tracked |-> t, work |-> w, reply |-> k]
Killed(w) == IF w = "Running" THEN "Dead" ELSE w

\* ProcessRuntime::activate and ContainerRuntime::activate: a member that is
\* tracked is not started again.
ProcessActivate(t, l, w) ==
    IF l \in t THEN {Result(t, w, "Started")}
    ELSE {Result(t \cup {l}, "Running", "Started"), Result(t, w, "StartFailed")}

ContainerActivate(t, l, w) ==
    IF l \in t THEN {Result(t, w, "Started")}
    ELSE {Result(t \cup {l}, "Running", "Started"), Result(t, w, "StartFailed")}

ExecutorStart(t, l, w) ==
    IF l \in Containers THEN ContainerActivate(t, l, w) ELSE ProcessActivate(t, l, w)

\* A child outside a control group is forgotten before it is killed.
ProcessTerminate(t, l, w) ==
    {Result(t \ {l}, IF l \in t THEN Killed(w) ELSE w, "Stopped")}
    \cup IF l \notin t THEN {}
         ELSE IF l \in Ungrouped
         THEN IF w = "Running" THEN {Result(t \ {l}, w, "StopFailed")} ELSE {}
         ELSE {Result(t, w, "StopFailed")}

\* A container stays tracked until it is stopped and removed.
ContainerTerminate(t, l, w) ==
    IF l \notin t THEN {Result(t, w, "Stopped")}
    ELSE {Result(t \ {l}, Killed(w), "Stopped"), Result(t, w, "StopFailed"),
          Result(t, Killed(w), "StopFailed")}

ExecutorStop(t, l, w) ==
    IF l \in Containers THEN ContainerTerminate(t, l, w) ELSE ProcessTerminate(t, l, w)

\* The first look at a process that exited takes its exit code away.
ProcessStatus(t, l, w) ==
    IF l \notin t THEN Result(t, w, "Gone")
    ELSE IF w = "Running" THEN Result(t, w, "Running")
    ELSE Result(t \ {l}, w, w)

\* A question to the engine that fails: the container passes for exited, with
\* the code 0 that a running one has or with -1, and for gone when the engine
\* does not run at all.
Misread(w) == {"Exit1", "Gone"} \cup IF w = "Running" THEN {"Exit0"} ELSE {}

ContainerStatus(t, l, w) ==
    IF l \notin t THEN {Result(t, w, "Gone")}
    ELSE {Result(t, w, k) : k \in {IF w = "Dead" THEN "Exit1" ELSE w} \cup Misread(w)}

ExecutorStatus(t, l, w) ==
    IF l \in Containers THEN ContainerStatus(t, l, w) ELSE {ProcessStatus(t, l, w)}

\* A dropped ProcessRuntime ends its processes; containers live on.
Dropped(m) ==
    [b \in Members |-> IF b[2] = m /\ b[1] \notin Containers THEN Killed(work[b]) ELSE work[b]]

-----------------------------------------------------------------------------
(* The agent's execution requests.                                         *)

\* Start and Stop need the current session; an agent that refuses changes
\* nothing.
Execute(m, results, refusal) ==
    LET call == Head(ctl.calls[m])
        b    == <<call.lease, m>>
    IN  IF P(m)!Current(call.session, Epoch)
        THEN \E r \in results :
                 /\ agents' = [Authorized(m, call) EXCEPT ![m].tracked = r.tracked]
                 /\ work' = [work EXCEPT ![b] = r.work]
                 /\ Answered(m, Answer(r.reply))
        ELSE /\ Answered(m, Answer(refusal))
             /\ UNCHANGED <<agents, work>>

Start(m) ==
    LET l == Head(ctl.calls[m]).lease
        b == <<l, m>>
    IN  /\ Serving(m, {"Start"})
        /\ Execute(m, ExecutorStart(agents[m].tracked, l, work[b]), "StartFailed")
        /\ starts' = IF agents'[m].tracked = agents[m].tracked THEN starts
                     ELSE [starts EXCEPT ![b] = @ + 1]
        /\ UNCHANGED enforced

Stop(m) ==
    LET l == Head(ctl.calls[m]).lease
    IN  /\ Serving(m, {"Stop"})
        /\ Execute(m, ExecutorStop(agents[m].tracked, l, work[<<l, m>>]), "StopFailed")
        /\ UNCHANGED <<starts, enforced>>

Status(m) ==
    LET l == Head(ctl.calls[m]).lease
    IN  /\ Serving(m, {"Status"})
        /\ \E r \in ExecutorStatus(agents[m].tracked, l, work[<<l, m>>]) :
               /\ agents' = [agents EXCEPT ![m].tracked = r.tracked]
               /\ Answered(m, Answer(r.reply))
        /\ UNCHANGED <<work, starts, enforced>>

\* EnumerateBindings, and the probe (the status of lease 0).
Report(m) ==
    /\ Serving(m, {"Enumerate", "Probe"})
    /\ Answered(m, IF Head(ctl.calls[m]).kind = "Probe" THEN Answer("Gone")
                   ELSE [kind |-> "Endpoints",
                         endpoint |-> agents[m].endpoints[[endpoint |-> m]]])
    /\ UNCHANGED <<agents, work, starts, enforced>>

\* The agent's side of a new connection.  A fresh agent knows nothing: its
\* predecessor's processes died with it, its containers did not.
Returned(m, how) ==
    IF how = "survives" THEN /\ agents' = agents /\ work' = work
    ELSE /\ agents' = [agents EXCEPT ![m] = NewAgent(m)]
         /\ work' = Dropped(m)

\* register_agent: a new session and a new worker.  A machine that was
\* registered before must prove its members: it is asked for its endpoints
\* and for the members of its live bindings.  The old worker's calls fail.
Register(m, how) ==
    LET old    == [i \in DOMAIN ctl.calls[m] |->
                      [call |-> ctl.calls[m][i], reply |-> Answer("Err")]]
        joined == [ctl EXCEPT !.session[m] = @ + 1, !.link[m] = "up",
                              !.calls[m] = <<>>, !.inbox[m] = @ \o old]
        asked  == Ask([joined EXCEPT !.recovering[m] = NewRecovery,
                                     !.status = [b \in Members |->
                                         IF b[2] = m THEN "None" ELSE @[b]]],
                      m, Call("Enumerate", None, joined.session[m], 0))
    IN  /\ ctl.session[m] < Sessions[m]
        /\ ctl' = IF ctl.session[m] = 0 THEN joined ELSE RouteRecovery(asked, m)
        /\ Returned(m, how)
        /\ UNCHANGED <<starts, enforced>>

\* The program ends by itself.
Exits(b, code) ==
    /\ work[b] = "Running"
    /\ work' = [work EXCEPT ![b] = code]
    /\ UNCHANGED <<ctl, agents, starts, enforced>>

Serve(m) == ServeBinding(m) \/ Start(m) \/ Stop(m) \/ Status(m) \/ Report(m)

Next ==
    \/ \E m \in Machines :
           \/ Serve(m) \/ Disconnect(m) \/ CallFails(m) \/ Absorb(m)
           \/ Probe(m) \/ MarkUnhealthy(m)
           \/ \E how \in Reconnects : Register(m, how)
    \/ \E l \in Leases : Admit(l) \/ Revoke(l)
    \/ \E b \in Members, code \in Exit : Exits(b, code)
    \/ Poll \/ Boot

Spec == Init /\ [][Next /\ UNCHANGED setup]_<<vars, setup>>

\* Workers, the inbox and the controller's maintenance loop keep running, and
\* a connection that serves answers its calls.
Fairness ==
    /\ \A m \in Machines : /\ WF_vars(Serve(m)) /\ WF_vars(CallFails(m))
                           /\ WF_vars(Absorb(m)) /\ WF_vars(MarkUnhealthy(m))
    /\ WF_vars(Poll)

FairSpec == Spec /\ Fairness

-----------------------------------------------------------------------------
(* Properties.                                                             *)

Endpoint(m) == agents[m].endpoints[[endpoint |-> m]]

Reusable(b) == ctl.binding[b] # None /\ ctl.binding[b].state = "Closed"

\* Capacity reuse implies that the member is gone: a binding whose lease has
\* a program is closed only after its member stopped running, when the member
\* is a process in a control group; and no teardown stays held once its
\* member is proven stopped, in whichever session the proof comes
\* (maybe_stop_executions, the hold in route, drive_held_effects).
TeardownFollowsStop ==
    /\ \A b \in Members :
           Reusable(b) /\ b[1] \notin Containers \cup Ungrouped => work[b] # "Running"
    /\ \A b \in ctl.held : ~StopProven(ctl, b)

\* Every member of a closed binding is gone, whatever runs it.
ReusedMeansGone == \A b \in Members : Reusable(b) => work[b] # "Running"

\* Each member is started at most once, whatever is lost, restarted or
\* registered again: recovery adopts or ends it (maybe_start_executions).
StartedOnce == \A b \in Members : starts[b] <= 1

\* No member starts before the endpoints on all machines of its lease were
\* activated; and one that the controller has started or adopted in the
\* current session of a connected machine runs under its own open endpoint
\* for as long as its lease is Active (maybe_start_executions,
\* resolve_machine_recovery, proves).
RunsBehindBarrier ==
    \A b \in Members :
        LET ep == Endpoint(b[2])
        IN  /\ work[b] # "None" => \A m \in Span[b[1]] : <<b[1], m>> \in enforced
            /\ /\ ctl.link[b[2]] = "up" /\ ctl.lease[b[1]] = "Active"
               /\ <<b[1], b[2], ctl.session[b[2]]>> \in ctl.started
               => /\ ep # None /\ ep.open /\ ep.binding = b
                  /\ ep.accepted_fence = ctl.binding[b].fence

\* Once a machine has recovered, its agent holds no generation that the
\* controller does not have open, and none above the node's last fence
\* (absorb_enumeration, MachineRecovery::complete).
RecoveredHoldsNoStray ==
    \A m \in Machines :
        LET ep == Endpoint(m)
        IN  /\ ctl.session[m] > 1 /\ ctl.link[m] = "up" /\ ctl.recovering[m] = None
            /\ ep # None
            => /\ ep.accepted_fence <= ctl.fence[m]
               /\ ep.open => ep.binding \in Members /\ IsOpen(ctl, ep.binding)

\* A returned machine whose connection lasts finishes its recovery
\* (resolve_machine_recovery).
RecoveryCompletes ==
    \A m \in Machines : []<>(ctl.recovering[m] = None \/ ctl.link[m] # "up")

TeardownSent(b) ==
    /\ b \in Members /\ IsOpen(ctl, b) /\ ctl.link[b[2]] = "up"
    /\ InFlight(ctl, b[2], Call("Fence", b[1], ctl.session[b[2]], ctl.binding[b].fence))

\* A teardown that was sent is served and recorded, unless the connection ends
\* or is replaced: also that of a binding that has failed (absorb,
\* record_fenced, record_failed).
TeardownCloses ==
    \A b \in Leases \X Machines :
        TeardownSent(b) ~> ~(/\ b \in Members /\ IsOpen(ctl, b)
                             /\ ctl.link[b[2]] = "up" /\ ctl.recovering[b[2]] = None)

\* A machine is quarantined only while its own connection is failing
\* (absorb: old workers' answers must not mutate observations).
UnhealthyIsDisconnected ==
    [][\A m \in Machines : m \in ctl'.quarantined \ ctl.quarantined =>
           ctl.link[m] = "down"]_vars

\* When every member has exited with zero and the connections last, the
\* lease is completed (collect_completions).
SuccessCompletes ==
    \A l \in Leases :
        (/\ ctl.lease[l] = "Active" /\ HasProgram(l)
         /\ \A m \in Span[l] : ctl.link[m] = "up" /\ work[<<l, m>>] = "Exit0")
        ~> (ctl.lease[l] # "Active" \/ \E m \in Span[l] : ctl.link[m] # "up")

\* When a machine is connected for good and no member of a terminal lease
\* runs on it, the lease's binding there is closed in the end: recovery
\* regenerates teardown (restore_state, route_recovery).
TeardownFinishes ==
    \A b \in Leases \X Machines :
        []<>~(/\ b \in Members /\ ctl.link[b[2]] = "up" /\ work[b] # "Running"
              /\ ctl.lease[b[1]] \in Terminal /\ IsOpen(ctl, b))
=============================================================================
