------------------------------- MODULE Services -------------------------------
(***************************************************************************)
(* Desired state above the kernel: keep-alive restarts with their lineage, *)
(* service groups and their reconciliation, the admission queue they share *)
(* with client submissions, and the maintenance round that drives them     *)
(* (crates/node/src/service.rs and workload.rs, crates/control/src/        *)
(* server.rs).                                                             *)
(*                                                                         *)
(* All requests ask for one slot of one machine, so the queue is served in *)
(* order, past the requests whose machine is full.  A lease is an index of *)
(* svc.leases, a request an index of svc.requests.                         *)
(***************************************************************************)
EXTENDS Naturals, FiniteSets, Sequences, SequencesExt

CONSTANTS
    Machines,       \* machines
    Groups,         \* service group identities
    None,           \* no group, no pin, no answer
    Room,           \* slots of a machine
    BackoffCap,     \* longest backoff, in seconds
    Scenes          \* what is asked for and what happens, with its bounds

Fixed(n) == [mode |-> "fixed", min |-> n, target |-> n, max |-> n]
Elastic(lo, n, hi) == [mode |-> "elastic", min |-> lo, target |-> n, max |-> hi]
PerMachine == [mode |-> "per-machine", min |-> 0, target |-> 0, max |-> 0]

\* Cardinality::validate
Valid(card) ==
    \/ card.mode = "per-machine"
    \/ 1 <= card.min /\ card.min <= card.target /\ card.target <= card.max

EndStates == {"Completed", "Expired", "Failed", "Revoked"}

VARIABLES
    scene,      \* the scene of this behaviour, which never changes
    svc,        \* the controller's state, all of it durable
    now,        \* the clock
    answer,     \* the last answer to a submission
    born        \* group -> requests submitted for it since it was registered

vars == <<svc, now, answer, born>>

Joining       == scene.joining        \* machines that may join
Probed        == scene.probed         \* those of them whose probes may fail
Cardinalities == scene.cardinalities  \* the cardinalities clients ask for
KeepAlive     == scene.keep_alive     \* the keep-alive flags clients submit with
Fates         == scene.fates          \* how a lease may end by itself or by its owner
MaxRestarts   == scene.max_restarts   \* of a lineage, or per wanted member of a group
MaxSubmits    == scene.max_submits    \* bound on client submissions
MaxRequests   == scene.max_requests   \* bound on requests
MaxTime       == scene.max_time       \* bound on the clock

Init ==
    /\ scene \in Scenes
    /\ svc = [machines |-> {}, quarantined |-> {}, unreachable |-> {},
              requests |-> <<>>, queue |-> <<>>, leases |-> <<>>, handled |-> {},
              group |-> [g \in Groups |-> None], members |-> [g \in Groups |-> {}],
              restarts |-> [g \in Groups |-> 0], last |-> [g \in Groups |-> 0]]
    /\ now = 0
    /\ answer = None
    /\ born = [g \in Groups |-> {}]

-----------------------------------------------------------------------------
(* Requests, leases and admission.                                         *)

Least(S) == CHOOSE n \in S : \A k \in S : n <= k
Lesser(a, b) == IF a < b THEN a ELSE b
Greater(a, b) == IF a > b THEN a ELSE b

Queued(s, r) == \E i \in DOMAIN s.queue : s.queue[i] = r
LiveLeases(s, r) ==
    {i \in DOMAIN s.leases : s.leases[i].request = r /\ s.leases[i].state = "Live"}

\* member_live: queued, or admitted to a lease that is not terminal.
MemberLive(s, r) == Queued(s, r) \/ LiveLeases(s, r) # {}

\* enqueue, with a fresh request identity.  root = 0: its own lineage.
Enqueue(s, keep, root, pin) ==
    LET id == Len(s.requests) + 1
    IN  [s EXCEPT !.requests = Append(@, [keep |-> keep, pin |-> pin, count |-> 0, last |-> 0,
                                          root |-> IF root = 0 THEN id ELSE root]),
                  !.queue = Append(@, id)]

\* Machines that can take the request: pinned members only on their machine.
Places(s, r) ==
    LET used(m) == Cardinality({i \in DOMAIN s.leases :
                                   s.leases[i].machine = m /\ s.leases[i].open})
    IN  {m \in s.machines \ s.quarantined :
             s.requests[r].pin \in {None, m} /\ used(m) < Room}

Admissible(s) == {i \in DOMAIN s.queue : Places(s, s.queue[i]) # {}}

\* admit_one: a lease for the first request of the queue that fits.
AdmitOne(s) ==
    LET i == Least(Admissible(s))
        r == s.queue[i]
    IN  IF Admissible(s) = {} THEN s
        ELSE [s EXCEPT !.queue = RemoveAt(@, i),
                       !.leases = Append(@, [request |-> r, state |-> "Live", open |-> TRUE,
                                             machine |-> CHOOSE m \in Places(s, r) : TRUE])]

AdmitUpTo(s, n) == FoldSet(LAMBDA k, acc : AdmitOne(acc), s, 1 .. n)

\* revoke
Revoke(s, i) ==
    [s EXCEPT !.leases[i].state = IF @ \in EndStates \ {"Completed"} THEN @ ELSE "Revoked"]

\* mark_machine_unhealthy: quarantine, and fail every lease that is not
\* Failed, Revoked or Expired.
MarkUnhealthy(s, m) ==
    [s EXCEPT !.quarantined = @ \cup {m}, !.unreachable = @ \ {m},
              !.leases = [i \in DOMAIN @ |->
                  IF @[i].machine = m /\ @[i].state \in {"Live", "Completed"}
                  THEN [@[i] EXCEPT !.state = "Failed"] ELSE @[i]]]

-----------------------------------------------------------------------------
(* Restarts.                                                               *)

\* 1 s doubling to a ceiling.
Delay(count) == Lesser(2 ^ Lesser(count, 6), BackoffCap)

\* The original of a restarted request.
Lineage(s, r) == s.requests[r].root

\* Mutant: the lease stays due.
HandleNothing(s, i) == s

Handle(s, i) == [s EXCEPT !.handled = @ \cup {i}]

\* The backoff has not elapsed: a later round looks again.
Postpone(s, i) == s

\* take_restarts for one lease, and the enqueue of queue_restarts.
Restart(s, i) ==
    LET r    == s.leases[i].request
        root == Lineage(s, r)
        orig == s.requests[root]
    IN  IF \/ s.leases[i].state \notin {"Failed", "Expired"} \/ i \in s.handled
           \/ ~s.requests[r].keep THEN s
        ELSE IF orig.count >= MaxRestarts THEN Handle(s, i)
        ELSE IF now < orig.last + Delay(orig.count) THEN Postpone(s, i)
        ELSE Enqueue(Handle([s EXCEPT !.requests[root].count = @ + 1,
                                      !.requests[root].last = now], i),
                     TRUE, root, None)

QueueRestarts(s) ==
    FoldLeft(Restart, s, [i \in 1 .. Len(s.leases) |-> i])

-----------------------------------------------------------------------------
(* Service groups.                                                         *)

\* Cardinality::desired_count
DesiredCount(s, card) ==
    IF card.mode = "per-machine" THEN Cardinality(s.machines) ELSE card.target

\* A fresh member of group g.  It is never keep-alive.
SubmitMember(s, g, pin) ==
    LET next == Enqueue(s, FALSE, 0, pin)
    IN  [next EXCEPT !.members[g] = @ \cup {Len(next.requests)}]

SubmitMembers(s, g, n) == FoldSet(LAMBDA k, acc : SubmitMember(acc, g, None), s, 1 .. n)

\* Mutant: a member that waits for admission does not count.
LiveMembersLeased(s, g) == {r \in s.members[g] : LiveLeases(s, r) # {}}

\* Mutant: the dead count.
LiveMembersAll(s, g) == s.members[g]

LiveMembers(s, g) == {r \in s.members[g] : MemberLive(s, r)}

\* Dead members leave the index, and their pins go with them.
DropDead(s, g) ==
    LET live == LiveMembers(s, g)
    IN  [s EXCEPT !.members[g] = live,
                  !.requests = [r \in DOMAIN @ |->
                      IF r \in s.members[g] \ live THEN [@[r] EXCEPT !.pin = None] ELSE @[r]]]

\* Machines without a live member pinned to them.
Missing(s, g) == {m \in s.machines : \A r \in s.members[g] : s.requests[r].pin # m}

\* A group with a member on every machine, died of which died this round.
ReconcilePerMachine(s, g, died) ==
    LET missing == Missing(s, g)
        count == s.restarts[g]
        filled == FoldSet(LAMBDA m, acc : SubmitMember(acc, g, m), s, missing)
    IN  IF /\ missing # {}
           /\ count < MaxRestarts * Greater(Cardinality(s.machines), 1)
           /\ died = 0 \/ now >= s.last[g] + Delay(count)
        THEN [filled EXCEPT !.restarts[g] = IF died > 0 THEN @ + Cardinality(missing) ELSE @,
                            !.last[g] = now]
        ELSE s

\* cancel_member, or the revocation of the member's lease.
StopMember(s, r) ==
    IF LiveLeases(s, r) # {} THEN Revoke(s, Least(LiveLeases(s, r)))
    ELSE [s EXCEPT !.queue = SelectSeq(@, LAMBDA q : q # r), !.requests[r].pin = None]

\* Mutant: nobody is stopped.
ScaleDownNothing(s, g, desired) == s

\* The newest live members beyond the desired count are stopped.
ScaleDown(s, g, desired) ==
    LET live == s.members[g]
        excess == {r \in live : Cardinality({k \in live : k > r}) + desired < Cardinality(live)}
    IN  [FoldSet(LAMBDA r, acc : StopMember(acc, r), s, excess)
             EXCEPT !.members[g] = @ \ excess]

\* Replacements of this round's dead wait for the backoff and end at the cap;
\* growth does not.
ReconcileCount(s, g, died) ==
    LET desired == DesiredCount(s, s.group[g])
        scaled == ScaleDown(s, g, desired)
        held == Cardinality(scaled.members[g])
        shortfall == IF desired > held THEN desired - held ELSE 0
        replacement == Lesser(shortfall, died)
        growth == shortfall - replacement
        count == s.restarts[g]
        allowed == IF \/ count >= MaxRestarts * Greater(desired, 1)
                      \/ now < s.last[g] + Delay(count) THEN 0 ELSE replacement
        filled == SubmitMembers(scaled, g, allowed + growth)
    IN  [filled EXCEPT !.restarts[g] = @ + allowed,
                       !.last[g] = IF allowed > 0 THEN now ELSE @]

ReconcileGroup(s, g) ==
    LET pruned == DropDead(s, g)
        died == Cardinality(s.members[g]) - Cardinality(pruned.members[g])
    IN  IF s.group[g] = None THEN s
        ELSE IF s.group[g].mode = "per-machine" THEN ReconcilePerMachine(pruned, g, died)
        ELSE ReconcileCount(pruned, g, died)

\* reconcile_service_groups, and one admission for each member submitted.
Reconcile(s) ==
    LET after == FoldSet(LAMBDA g, acc : ReconcileGroup(acc, g), s, Groups)
    IN  AdmitUpTo(after, Len(after.requests) - Len(s.requests))

-----------------------------------------------------------------------------
(* The handlers.  A handler that would exceed the bound on requests is not *)
(* taken.                                                                  *)

Becomes(next) ==
    /\ Len(next.requests) <= MaxRequests
    /\ svc' = next
    /\ born' = [g \in Groups |-> IF next.group[g] = None THEN {}
                                 ELSE born[g] \cup next.members[g]]

\* maintain: admit what fits, act on the last probes, restart, reconcile.
Maintained(s) ==
    LET admitted  == AdmitUpTo(s, Len(s.queue))
        marked    == FoldSet(LAMBDA m, acc : MarkUnhealthy(acc, m), admitted, s.unreachable)
        restarted == QueueRestarts(marked)
    IN  Reconcile(AdmitUpTo(restarted, Len(restarted.requests) - Len(marked.requests)))

Maintain ==
    /\ Becomes(Maintained(svc))
    /\ UNCHANGED <<now, answer>>

\* submit: the answer names the newest lease when anything was admitted.
Submit(keep) ==
    LET queued == Enqueue(svc, keep, 0, None)
        after  == AdmitOne(queued)
        own    == {r \in DOMAIN svc.requests : svc.requests[r].root = r}
    IN  /\ Cardinality(own \ UNION {born[g] : g \in Groups}) < MaxSubmits
        /\ Becomes(after)
        /\ answer' = [request |-> Len(queued.requests),
                      lease |-> IF after = queued THEN 0 ELSE Len(after.leases)]
        /\ UNCHANGED now

\* submit_service and register_service_group
SubmitService(g, card) ==
    /\ Valid(card)
    /\ Becomes(Reconcile([svc EXCEPT !.group[g] = card]))
    /\ UNCHANGED <<now, answer>>

\* scale_service and scale_service_group
ScaleService(g, target) ==
    /\ svc.group[g] # None /\ svc.group[g].mode = "elastic"
    /\ svc.group[g].min <= target /\ target <= svc.group[g].max
    /\ Becomes(Reconcile([svc EXCEPT !.group[g].target = target]))
    /\ UNCHANGED <<now, answer>>

\* remove_service_group: the members stay, unpinned and in no group.
RemoveServiceGroup(g) ==
    /\ svc.group[g] # None
    /\ Becomes([svc EXCEPT !.group[g] = None, !.members[g] = {},
                           !.requests = [r \in DOMAIN @ |->
                               IF r \in svc.members[g] THEN [@[r] EXCEPT !.pin = None]
                                                       ELSE @[r]]])
    /\ UNCHANGED <<now, answer>>

-----------------------------------------------------------------------------
(* The cluster around the controller.                                      *)

\* A lease fails, completes, expires or is revoked.
Ends(i, fate) ==
    /\ svc.leases[i].state = "Live"
    /\ Becomes([svc EXCEPT !.leases[i].state = fate])
    /\ UNCHANGED <<now, answer>>

\* The last binding of an ended lease closes.
Closes(i) ==
    /\ svc.leases[i].state # "Live" /\ svc.leases[i].open
    /\ Becomes([svc EXCEPT !.leases[i].open = FALSE])
    /\ UNCHANGED <<now, answer>>

Joins(m) ==
    /\ m \in Joining \ svc.machines
    /\ Becomes([svc EXCEPT !.machines = @ \cup {m}])
    /\ UNCHANGED <<now, answer>>

ProbeFails(m) ==
    /\ m \in Probed
    /\ m \in svc.machines \ (svc.quarantined \cup svc.unreachable)
    /\ Becomes([svc EXCEPT !.unreachable = @ \cup {m}])
    /\ UNCHANGED <<now, answer>>

\* The machine has recovered: nothing is open on it.
Returns(m) ==
    /\ m \in svc.quarantined
    /\ \A i \in DOMAIN svc.leases : svc.leases[i].machine = m => ~svc.leases[i].open
    /\ Becomes([svc EXCEPT !.quarantined = @ \ {m}])
    /\ UNCHANGED <<now, answer>>

Advance ==
    /\ now < MaxTime
    /\ now' = now + 1
    /\ UNCHANGED <<svc, answer, born>>

Next ==
    \/ Maintain \/ Advance
    \/ \E keep \in KeepAlive : Submit(keep)
    \/ \E g \in Groups : \/ \E card \in Cardinalities : SubmitService(g, card)
                         \/ \E n \in 0 .. MaxRequests : ScaleService(g, n)
                         \/ RemoveServiceGroup(g)
    \/ \E i \in DOMAIN svc.leases : Closes(i) \/ \E fate \in Fates : Ends(i, fate)
    \/ \E m \in Machines : Joins(m) \/ ProbeFails(m) \/ Returns(m)

Spec == Init /\ [][Next /\ UNCHANGED scene]_<<vars, scene>>

\* Whether a maintenance round would change anything within the bounds.
Due == LET after == Maintained(svc)
       IN  after # svc /\ Len(after.requests) <= MaxRequests

\* The maintenance thread runs (weak fairness, with Due for ENABLED), the
\* clock goes on, teardown finishes and machines are there and come back.
Fairness ==
    /\ []<>~Due \/ []<><<Maintain>>_vars
    /\ WF_vars(Advance)
    /\ WF_vars(\E i \in DOMAIN svc.leases : Closes(i))
    /\ \A m \in Machines : WF_vars(Joins(m)) /\ WF_vars(Returns(m))

FairSpec == Spec /\ Fairness

-----------------------------------------------------------------------------
(* Properties.                                                             *)

LiveBorn(g) == {r \in born[g] : MemberLive(svc, r)}

\* A counted group never has more members alive, queued or leased, than it
\* wants, whatever was scaled, replaced or registered again in between, and
\* none of them escapes the index; a per-machine group has at most one live
\* member pinned to each machine, and its lease is there
\* (reconcile_service_groups, execution_exclusions).
GroupWithinDesired ==
    \A g \in Groups :
        /\ svc.group[g] # None =>
              /\ LiveBorn(g) \subseteq svc.members[g]
              /\ svc.group[g].mode # "per-machine" =>
                     Cardinality(LiveBorn(g)) <= svc.group[g].target
        /\ \A r1, r2 \in LiveBorn(g) :
              LET pin == svc.requests[r1].pin
              IN  pin # None =>
                    /\ svc.requests[r2].pin = pin => r1 = r2
                    /\ \A i \in LiveLeases(svc, r1) : svc.leases[i].machine = pin

\* All attempts of a keep-alive request together stay within its restart
\* cap, and only one of them is alive, once: it is not queued while it has a
\* lease, and has no two leases (take_restarts, restart_root, admit_one,
\* queue_restarts, cancel_member).
LineageBounded ==
    \A o \in DOMAIN svc.requests :
        LET attempts == {r \in DOMAIN svc.requests : svc.requests[r].root = o}
        IN  /\ Cardinality(attempts) <= MaxRestarts + 1
            /\ Cardinality({r \in attempts : MemberLive(svc, r)}) <= 1
            /\ \A r \in attempts :
                   Cardinality({i \in DOMAIN svc.queue : svc.queue[i] = r})
                   + Cardinality({i \in DOMAIN svc.leases : svc.leases[i].request = r}) <= 1

\* The next round would exceed the bound on requests.
Exhausted == Len(Maintained(svc).requests) > MaxRequests

\* The cap and the backoff let the group replace a member (by the end of the
\* clock).
MayReplace(g) ==
    /\ svc.restarts[g] < MaxRestarts * Greater(svc.group[g].target, 1)
    /\ MaxTime >= svc.last[g] + Delay(svc.restarts[g])

\* While maintenance runs, a keep-alive request whose last attempt failed or
\* expired is tried again once its backoff is over, until its cap is reached,
\* and a counted group whose replacements have not reached the group's cap
\* does not stay short of members (take_restarts and reconcile_service_groups
\* in maintain).
UpkeepRestores ==
    /\ []<>(Exhausted \/ \A i \in DOMAIN svc.leases :
                LET r == svc.leases[i].request
                    orig == svc.requests[Lineage(svc, r)]
                IN  /\ svc.leases[i].state \in {"Failed", "Expired"} /\ svc.requests[r].keep
                    /\ orig.count < MaxRestarts /\ MaxTime >= orig.last + Delay(orig.count)
                    => \E k \in DOMAIN svc.requests :
                           k > r /\ svc.requests[k].root = Lineage(svc, r))
    /\ []<>(Exhausted \/ \A g \in Groups :
                svc.group[g] # None /\ svc.group[g].mode # "per-machine" /\ MayReplace(g)
                => Cardinality(LiveBorn(g)) = svc.group[g].target)

\* The members ever submitted for a fixed group: the ones it wants and the
\* replacements its cap allows (reconcile_service_groups).
RespawnBounded ==
    \A g \in Groups : svc.group[g] # None /\ svc.group[g].mode = "fixed" =>
        Cardinality(born[g]) <= svc.group[g].target * (1 + MaxRestarts)

\* Scaling down revokes a lease only when no member is left in the queue
\* (reconcile_service_groups).
QueuedStopFirst ==
    [][\A g \in Groups, n \in 0 .. MaxRequests :
           /\ ScaleService(g, n)
           /\ \E i \in DOMAIN svc.leases : svc'.leases[i].state # svc.leases[i].state
           => \A r \in svc'.members[g] : ~Queued(svc', r)]_vars

\* The lease a submission is answered with is the lease of its request
\* (lease_of_request).
AnswerNamesLease ==
    answer # None /\ answer.lease # 0 =>
        svc.leases[answer.lease].request = answer.request

\* A lease that completed is not failed afterwards, nor its work restarted
\* (mark_machine_unhealthy).
CompletedStays ==
    [][\A i \in DOMAIN svc.leases :
           svc.leases[i].state = "Completed" => svc'.leases[i].state # "Failed"]_vars
=============================================================================
