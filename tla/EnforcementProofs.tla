-------------------------- MODULE EnforcementProofs --------------------------
(***************************************************************************)
(* What the kernel has recorded and what the agent enforces agree, for any *)
(* number of bindings, endpoints, registrations and calls under way.       *)
(*                                                                         *)
(* Sound holds of every behaviour and gives ActivatedWasConfirmed.  Linked *)
(* needs that no call times out: then the next frame on the connection     *)
(* answers the call that waits for it, so every answer is true when it is  *)
(* recorded, and HeldIsGranted and ConfirmedIsAccepted follow.             *)
(***************************************************************************)
EXTENDS Enforcement, TLAPS

-----------------------------------------------------------------------------
(* The agent's provider.                                                   *)

ProviderTyped ==
    /\ agent_session \in Nat /\ agent_epoch \in Nat
    /\ agent_eps \in [P!Keys -> P!Endpoint \cup {None}]
    /\ result \in Result \cup {None}

\* y holds the generation of binding b under fence f.
HoldsAt(y, b, f) == y.open /\ y.binding = b /\ y.accepted_fence = f

\* The endpoint is absent before and after the step, or keeps all but its
\* session.
Undisturbed(k) ==
    /\ agent_eps'[k] = None <=> agent_eps[k] = None
    /\ agent_eps[k] # None =>
           /\ agent_eps'[k].accepted_fence = agent_eps[k].accepted_fence
           /\ agent_eps'[k].open = agent_eps[k].open
           /\ agent_eps'[k].binding = agent_eps[k].binding
           /\ agent_eps'[k].phase = agent_eps[k].phase

\* What a request of kind op for binding b under fence f makes of its
\* endpoint k, and that it leaves the others alone.
Served(op, k, b, f) ==
    /\ ProviderTyped' /\ result' \in Result
    /\ k \in P!Keys /\ agent_eps'[k] \in P!Endpoint
    /\ \A q \in P!Keys \ {k} : Undisturbed(q)
    /\ agent_eps[k] # None => agent_eps'[k].accepted_fence >= agent_eps[k].accepted_fence
    /\ \/ agent_eps[k] # None /\ Undisturbed(k)
       \/ ~agent_eps'[k].open /\ agent_eps'[k].binding = None
       \/ /\ HoldsAt(agent_eps'[k], b, f)
          /\ op \in {"Prepare", "Activate"}
          /\ agent_eps'[k].phase = "Active" => op = "Activate"
    /\ agent_eps[k] # None /\ HoldsAt(agent_eps'[k], b, f) =>
           \/ agent_eps[k].accepted_fence < f
           \/ HoldsAt(agent_eps[k], b, f)
    /\ result'.kind = "Prepared" => agent_eps'[k].accepted_fence = f
    /\ result'.kind \in {"Released", "Fenced"} =>
           \/ ~agent_eps'[k].open /\ agent_eps'[k].accepted_fence = f
           \/ agent_eps'[k].accepted_fence > f

-----------------------------------------------------------------------------
(* Queues.                                                                 *)

Elements(q) == {q[i] : i \in 1 .. Len(q)}

\* Adding to a queue and taking from it.
LEMMA QueueFacts ==
    ASSUME NEW S, NEW q \in Seq(S)
    PROVE  /\ Elements(q) \subseteq S
           /\ \A e \in S : Append(q, e) \in Seq(S) /\ Elements(Append(q, e)) = Elements(q) \cup {e}
           /\ q # <<>> => /\ Head(q) \in S /\ Head(q) \in Elements(q)
                          /\ Tail(q) \in Seq(S) /\ Elements(Tail(q)) \subseteq Elements(q)
<1>1. Elements(q) \subseteq S
  BY DEF Elements
<1>2. ASSUME NEW e \in S
      PROVE  Append(q, e) \in Seq(S) /\ Elements(Append(q, e)) = Elements(q) \cup {e}
  <2>1. /\ Append(q, e) \in Seq(S) /\ Len(Append(q, e)) = Len(q) + 1 /\ Len(q) \in Nat
        /\ \A i \in 1 .. Len(q) : Append(q, e)[i] = q[i]
        /\ Append(q, e)[Len(q) + 1] = e
    OBVIOUS
  <2>2. 1 .. Len(q) + 1 = (1 .. Len(q)) \cup {Len(q) + 1}
    BY <2>1
  <2> QED
    BY <2>1, <2>2, Zenon DEF Elements
<1>3. ASSUME q # <<>>
      PROVE  /\ Head(q) \in S /\ Head(q) \in Elements(q)
             /\ Tail(q) \in Seq(S) /\ Elements(Tail(q)) \subseteq Elements(q)
  <2>0. Len(q) \in Nat /\ Len(q) > 0 /\ Head(q) = q[1]
    BY <1>3
  <2>1. /\ Head(q) \in S /\ Tail(q) \in Seq(S) /\ Len(Tail(q)) = Len(q) - 1
        /\ \A i \in 1 .. Len(Tail(q)) : Tail(q)[i] = q[i + 1]
    BY <1>3
  <2>2. 1 \in 1 .. Len(q) /\ \A i \in 1 .. Len(Tail(q)) : i + 1 \in 1 .. Len(q)
    BY <2>0, <2>1
  <2>3. Head(q) \in Elements(q)
    BY <2>0, <2>2, Zenon DEF Elements
  <2>4. ASSUME NEW e \in Elements(Tail(q)) PROVE e \in Elements(q)
    <3>1. PICK i \in 1 .. Len(Tail(q)) : e = Tail(q)[i]
      BY <2>4, Zenon DEF Elements
    <3>2. i + 1 \in 1 .. Len(q) /\ e = q[i + 1]
      BY <2>1, <2>2, <3>1, Zenon
    <3> QED
      BY <3>2, Zenon DEF Elements
  <2> QED
    BY <2>1, <2>3, <2>4, Zenon
<1> QED
  BY <1>1, <1>2, <1>3

\* An empty queue.
LEMMA QueueEmpty == Elements(<<>>) = {}
BY DEF Elements

\* It is a queue of anything.
LEMMA NoneQueued == \A S : <<>> \in Seq(S)
OBVIOUS

-----------------------------------------------------------------------------
(* The invariant.                                                          *)

LinkTyped ==
    /\ connected \in BOOLEAN /\ timeouts \in Nat
    /\ jobs \in Seq(Job) /\ awaited \in Job \cup {None} /\ wire \in Seq(Job)
    /\ replies \in Seq(Result) /\ inbox \in Seq([tag : Job, reply : Result])

\* The calls under way.
Pending == Elements(jobs) \cup Elements(wire) \cup ({awaited} \ {None})

\* A job carries the fence of its binding and the session of the machine.
JobSound(j) ==
    /\ j \in Job /\ j.binding \in Known /\ j.fence = grants[j.binding].fence
    /\ j.session = Session
    /\ j.kind = "Activate" => j.binding \in confirmed

\* The kernel's side: a known binding names an endpoint of the agent.
GrantsSound ==
    /\ GrantTypeOK
    /\ \A b \in Bindings : serving[b] \in {Machine, None}
    /\ \A b \in Known : grants[b].endpoint \in Endpoints

\* A provider ends with its connection, and so do the calls.
IdleWhenDown ==
    ~connected => /\ jobs = <<>> /\ awaited = None /\ wire = <<>> /\ replies = <<>>
                  /\ \A k \in P!Keys : agent_eps[k] = None

TagsSound ==
    \A r \in Elements(inbox) : r.tag.binding \in Known /\ r.tag.session <= Session

EndpointsKnown ==
    \A k \in P!Keys : agent_eps[k] # None => agent_eps[k].binding \in Known \cup {None}

Sound ==
    /\ GrantsSound /\ LinkTyped /\ ProviderTyped /\ IdleWhenDown
    /\ \A j \in Pending : JobSound(j)
    /\ TagsSound /\ EndpointsKnown /\ ActivatedWasConfirmed

\* The agent has accepted the fence of binding b.
AcceptedFence(b) == EndpointOf(b) # None /\ EndpointOf(b).accepted_fence >= grants[b].fence

\* The answer says of binding b what is true at the agent.
TrueAnswer(b, kind) ==
    /\ kind = "Prepared" => AcceptedFence(b)
    /\ kind \in {"Released", "Fenced"} => P!Passed(GrantedGen(b))

\* The connection carries the call that is awaited, or the answer to it.
Paired ==
    /\ awaited = None => wire = <<>> /\ replies = <<>>
    /\ awaited # None =>
           \/ wire = <<awaited>> /\ replies = <<>>
           \/ /\ wire = <<>>
              /\ \E a \in Result : replies = <<a>> /\ TrueAnswer(awaited.binding, a.kind)

\* A job that would let the agent hold a closed binding comes too late.
ClosedIsPassed ==
    \A j \in Pending : j.kind \in {"Prepare", "Activate"} /\ grant_state[j.binding] = "Closed"
                           => P!Passed(GrantedGen(j.binding))

InboxTrue ==
    \A r \in Elements(inbox) :
        connected /\ r.tag.session = Session => TrueAnswer(r.tag.binding, r.reply.kind)

Linked == Paired /\ ClosedIsPassed /\ InboxTrue /\ HeldIsGranted

-----------------------------------------------------------------------------
(* Holding, by the endpoint of the binding.                                *)

KeyOf(b) == P!EndpointKey(GrantedGen(b))

\* Held, Passed and AcceptedFence speak of one endpoint.
LEMMA ByEndpoint ==
    ASSUME NEW b
    PROVE  /\ P!Holds(GrantedGen(b)) <=> /\ agent_eps[KeyOf(b)] # None
                                         /\ HoldsAt(agent_eps[KeyOf(b)], b, grants[b].fence)
           /\ P!Passed(GrantedGen(b)) <=>
                  /\ agent_eps[KeyOf(b)] # None
                  /\ agent_eps[KeyOf(b)].accepted_fence >= grants[b].fence
                  /\ ~HoldsAt(agent_eps[KeyOf(b)], b, grants[b].fence)
           /\ AcceptedFence(b) <=> /\ agent_eps[KeyOf(b)] # None
                                   /\ agent_eps[KeyOf(b)].accepted_fence >= grants[b].fence
           /\ EndpointOf(b) = agent_eps[KeyOf(b)]
<1>1. GrantedGen(b).binding = b /\ GrantedGen(b).fence = grants[b].fence
  BY DEF GrantedGen
<1> QED
  BY <1>1, Zenon DEF P!Holds, P!Passed, AcceptedFence, EndpointOf, KeyOf, HoldsAt

\* The generation of a known binding is one of the agent's.
LEMMA GenerationTyped ==
    ASSUME GrantsSound, NEW b \in Known
    PROVE  GrantedGen(b) \in P!Generation /\ KeyOf(b) \in P!Keys
<1>1. b \in Bindings /\ grants[b] \in Grant /\ grants[b].endpoint \in Endpoints
  BY DEF GrantsSound, GrantTypeOK, Known
<1>2. GrantedGen(b) \in P!Generation
  BY <1>1 DEF GrantedGen, P!Generation, Grant, Scope
<1> QED
  BY <1>2, SMT DEF KeyOf, P!EndpointKey, P!Keys, P!Generation

\* The same of the next state.
LEMMA ByEndpointNext ==
    ASSUME NEW b
    PROVE  /\ P!Holds(GrantedGen(b))' <=> /\ agent_eps'[KeyOf(b)'] # None
                                          /\ HoldsAt(agent_eps'[KeyOf(b)'], b, grants'[b].fence)
           /\ P!Passed(GrantedGen(b))' <=>
                  /\ agent_eps'[KeyOf(b)'] # None
                  /\ agent_eps'[KeyOf(b)'].accepted_fence >= grants'[b].fence
                  /\ ~HoldsAt(agent_eps'[KeyOf(b)'], b, grants'[b].fence)
           /\ AcceptedFence(b)' <=> /\ agent_eps'[KeyOf(b)'] # None
                                    /\ agent_eps'[KeyOf(b)'].accepted_fence >= grants'[b].fence
           /\ EndpointOf(b)' = agent_eps'[KeyOf(b)']
<1>1. GrantedGen(b)'.binding = b /\ GrantedGen(b)'.fence = grants'[b].fence
  BY DEF GrantedGen
<1> QED
  BY <1>1, Zenon DEF P!Holds, P!Passed, AcceptedFence, EndpointOf, KeyOf, HoldsAt

\* The same of the next state.
LEMMA GenerationTypedNext ==
    ASSUME GrantsSound', NEW b, b \in Known'
    PROVE  KeyOf(b)' \in P!Keys
<1>1. b \in Bindings /\ grants'[b] \in Grant /\ grants'[b].endpoint \in Endpoints
  BY DEF GrantsSound, GrantTypeOK, Known
<1>2. GrantedGen(b)' \in P!Generation
  BY <1>1 DEF GrantedGen, P!Generation, Grant, Scope
<1> QED
  BY <1>2, SMT DEF KeyOf, P!EndpointKey, P!Keys, P!Generation

-----------------------------------------------------------------------------
(* The controller's steps.                                                 *)

\* A step of Grants keeps the known grants.
GrantsGrow ==
    /\ GrantsSound' /\ sessions' = sessions /\ confirmed \subseteq confirmed'
    /\ \A b \in Known : b \in Known' /\ grants'[b] = grants[b]

\* An order is about a known grant, under its fence.
OrderSound(o) ==
    /\ o \in Order /\ o.binding \in Known' /\ o.fence = grants'[o.binding].fence
    /\ o.kind = "Activate" => o.binding \in confirmed'
    /\ o.kind \in {"Prepare", "Activate"} => grant_state'[o.binding] # "Closed"

\* While the agent is connected, a grant is closed after the agent passed it.
ClosesPassed ==
    \A b \in Known : connected /\ grant_state'[b] = "Closed" =>
        grant_state[b] = "Closed" \/ P!Passed(GrantedGen(b))

\* The orders of a set of grants.
LEMMA OrdersFacts ==
    ASSUME GrantTypeOK, NEW kind \in OrderKind, NEW S, S \subseteq Bindings,
           NEW o \in Orders(kind, S)
    PROVE  o \in Order /\ o.kind = kind /\ o.binding \in S /\ o.fence = grants[o.binding].fence
<1>1. PICK b \in S : o = [kind |-> kind, binding |-> b, fence |-> grants[b].fence]
  BY Zenon DEF Orders
<1>2. grants[b].fence \in Nat
  BY DEF GrantTypeOK, Grant
<1> QED
  BY <1>1, <1>2 DEF Order

\* open_binding: the fence is fresh, the machine is the agent's.
LEMMA GrantEndpointGrows ==
    ASSUME EnforcementConstants, GrantsSound, NEW b \in Bindings, NEW k \in Endpoints,
           NEW scope \in Scope, GrantEndpoint(b, k, scope, Machine)
    PROVE  GrantsGrow /\ ClosesPassed /\ \A o \in orders' : OrderSound(o)
<1> DEFINE f == FreshFence(b, k, scope)
           g == [endpoint |-> k, scope |-> scope, fence |-> f]
           o == [kind |-> "Prepare", binding |-> b, fence |-> f]
<1>1. GrantTypeOK
  BY DEF GrantsSound
<1>2. f \in Nat
  BY <1>1 DEF FreshFence, GrantTypeOK, EnforcementConstants
<1>3. g \in Grant /\ g.endpoint = k /\ g.fence = f
  BY <1>2 DEF Grant
<1>4. o \in Order /\ o.kind = "Prepare" /\ o.binding = b /\ o.fence = f
  BY <1>2 DEF Order, OrderKind
<1>5. /\ grant_state[b] = "Absent"
      /\ grant_state' = [grant_state EXCEPT ![b] = "Preparing"]
      /\ grants' = [grants EXCEPT ![b] = g]
      /\ serving' = [serving EXCEPT ![b] = Machine]
      /\ watermark' = IF scope = "Exclusive" THEN [watermark EXCEPT ![k] = f] ELSE watermark
      /\ orders' = {o} /\ confirmed' = confirmed /\ sessions' = sessions
  BY Zenon DEF GrantEndpoint
<1> HIDE DEF f, g, o
<1>6. /\ grant_state \in [Bindings -> GrantState] /\ grants \in [Bindings -> Grant]
      /\ serving \in [Bindings -> Machines \cup {None}] /\ watermark \in [Endpoints -> Nat]
      /\ confirmed \subseteq Bindings /\ sessions \in [Machines -> Nat]
  BY <1>1 DEF GrantTypeOK
<1>7. /\ grant_state'[b] = "Preparing" /\ grants'[b] = g /\ serving'[b] = Machine
      /\ \A c \in Bindings : c # b =>
             grant_state'[c] = grant_state[c] /\ grants'[c] = grants[c] /\ serving'[c] = serving[c]
  BY <1>5, <1>6
<1>8. GrantTypeOK'
  <2>1. /\ grant_state' \in [Bindings -> GrantState] /\ grants' \in [Bindings -> Grant]
        /\ serving' \in [Bindings -> Machines \cup {None}]
    BY <1>3, <1>5, <1>6 DEF GrantState, OpenGrant, EnforcementConstants
  <2>2. watermark' \in [Endpoints -> Nat] /\ orders' \subseteq Order
    BY <1>2, <1>4, <1>5, <1>6
  <2> QED
    BY <1>5, <1>6, <2>1, <2>2 DEF GrantTypeOK
<1>9. \A c \in Bindings : c \in Known' <=> c = b \/ c \in Known
  BY <1>7, Zenon DEF Known
<1>10. b \notin Known /\ Known \subseteq Bindings /\ Known' \subseteq Bindings
  BY <1>5, Zenon DEF Known
<1>11. GrantsSound'
  BY <1>3, <1>7, <1>8, <1>9, <1>10, Zenon DEF GrantsSound
<1>12. GrantsGrow
  BY <1>5, <1>7, <1>9, <1>10, <1>11, Zenon DEF GrantsGrow
<1>13. ClosesPassed
  BY <1>7, <1>10, Zenon DEF ClosesPassed
<1> QED
  BY <1>3, <1>4, <1>5, <1>7, <1>9, <1>12, <1>13 DEF OrderSound

\* A step that leaves the grants but may change the state of one, and tells
\* about known grants.
LEMMA StateGrows ==
    ASSUME EnforcementConstants, GrantsSound, NEW b \in Bindings, NEW st \in OpenGrant,
           \/ grant_state' = grant_state
           \/ b \in Known /\ grant_state' = [grant_state EXCEPT ![b] = st],
           confirmed' = confirmed, UNCHANGED <<grants, serving, sessions, watermark>>,
           NEW kind \in OrderKind, NEW S, S \subseteq Known, orders' = Orders(kind, S),
           kind = "Activate" => S \subseteq confirmed,
           kind \in {"Prepare", "Activate"} => \A c \in S : grant_state'[c] # "Closed"
    PROVE  GrantsGrow /\ ClosesPassed /\ \A o \in orders' : OrderSound(o)
<1>1. GrantTypeOK /\ S \subseteq Bindings
  BY DEF GrantsSound, Known
<1>2. \A o \in orders' : o \in Order /\ o.kind = kind /\ o.binding \in S
                             /\ o.fence = grants[o.binding].fence
  BY <1>1, OrdersFacts
<1>3. st \in GrantState /\ st # "Absent" /\ st # "Closed"
  BY DEF OpenGrant, GrantState
<1>4. grant_state \in [Bindings -> GrantState]
  BY <1>1 DEF GrantTypeOK
<1>5. /\ grant_state' \in [Bindings -> GrantState]
      /\ \A c \in Bindings : \/ grant_state'[c] = grant_state[c]
                             \/ c = b /\ b \in Known /\ grant_state'[c] = st
  BY <1>3, <1>4
<1>6. Known' = Known
  BY <1>3, <1>5, Zenon DEF Known
<1>7. GrantTypeOK'
  BY <1>1, <1>2, <1>5 DEF GrantTypeOK
<1>8. GrantsSound'
  BY <1>6, <1>7, Zenon DEF GrantsSound
<1>9. GrantsGrow
  BY <1>6, <1>8, Zenon DEF GrantsGrow
<1>10. ClosesPassed
  BY <1>3, <1>5, Zenon DEF ClosesPassed, Known
<1> QED
  BY <1>2, <1>6, <1>9, <1>10, Zenon DEF OrderSound

\* Every command of the controller (Command) is such a step.
LEMMA CommandGrows ==
    ASSUME EnforcementConstants, GrantsSound, NEW b \in Bindings,
           \/ \E k \in Endpoints, scope \in Scope : GrantEndpoint(b, k, scope, Machine)
           \/ \E kind \in {"Prepare", "Release", "Fence"} : Tell(kind, {b})
           \/ ActivateGrant(b)
           \/ FailGrant(b, {b})
    PROVE  GrantsGrow /\ ClosesPassed /\ \A o \in orders' : OrderSound(o)
<1>0. grant_state \in [Bindings -> GrantState] /\ "Failed" \in OpenGrant /\ "Active" \in OpenGrant
  BY DEF GrantsSound, GrantTypeOK, OpenGrant
<1>1. CASE \E k \in Endpoints, scope \in Scope : GrantEndpoint(b, k, scope, Machine)
  BY <1>1, GrantEndpointGrows
<1>2. CASE \E kind \in {"Prepare", "Release", "Fence"} : Tell(kind, {b})
  <2>1. PICK kind \in {"Prepare", "Release", "Fence"} : Tell(kind, {b})
    BY <1>2
  <2>2. /\ grant_state' = grant_state /\ confirmed' = confirmed
        /\ UNCHANGED <<grants, serving, sessions, watermark>>
        /\ orders' = Orders(kind, {b})
        /\ kind = "Prepare" => grant_state[b] = "Preparing"
        /\ kind # "Prepare" => b \in Known
    BY <2>1 DEF Tell
  <2>3. {b} \subseteq Known /\ kind \in OrderKind /\ kind # "Activate"
    BY <2>1, <2>2 DEF Known, OrderKind
  <2>4. kind \in {"Prepare", "Activate"} => \A c \in {b} : grant_state'[c] # "Closed"
    BY <2>2, <2>3
  <2> HIDE DEF Known
  <2> QED
    BY <1>0, <2>2, <2>3, <2>4, StateGrows
<1>3. CASE ActivateGrant(b)
  <2>1. /\ grant_state' = [grant_state EXCEPT ![b] = "Active"] /\ confirmed' = confirmed
        /\ UNCHANGED <<grants, serving, sessions, watermark>>
        /\ orders' = Orders("Activate", {b})
        /\ b \in confirmed /\ grant_state[b] \in {"Preparing", "Active"}
    BY <1>3 DEF ActivateGrant
  <2>2. /\ b \in Known /\ {b} \subseteq Known /\ {b} \subseteq confirmed /\ "Activate" \in OrderKind
        /\ \A c \in {b} : grant_state'[c] # "Closed"
    BY <1>0, <2>1 DEF Known, OrderKind
  <2> QED
    BY <1>0, <2>1, <2>2, StateGrows
<1>4. CASE FailGrant(b, {b})
  <2>1. /\ grant_state' = [grant_state EXCEPT ![b] = "Failed"] /\ confirmed' = confirmed
        /\ UNCHANGED <<grants, serving, sessions, watermark>>
        /\ orders' = Orders("Fence", {b}) /\ grant_state[b] \in OpenGrant
    BY <1>4 DEF FailGrant, OpenGrants
  <2>2. b \in Known /\ {b} \subseteq Known /\ "Fence" \in OrderKind
    BY <2>1 DEF Known, OrderKind, OpenGrant
  <2> QED
    BY <1>0, <2>1, <2>2, StateGrows
<1> QED
  BY <1>1, <1>2, <1>3, <1>4

\* record_prepared: only the confirmation is new.
LEMMA ConfirmGrows ==
    ASSUME GrantsSound, NEW b \in Bindings, NEW s, ConfirmGrant(b, s)
    PROVE  GrantsGrow /\ ClosesPassed
<1>1. /\ confirmed' = confirmed \cup {b} /\ orders' = {}
      /\ grant_state' = grant_state /\ grants' = grants /\ serving' = serving
      /\ sessions' = sessions /\ watermark' = watermark
  BY DEF ConfirmGrant
<1>2. Known' = Known
  BY <1>1 DEF Known
<1>3. GrantTypeOK'
  BY <1>1 DEF GrantsSound, GrantTypeOK
<1>4. GrantsSound'
  BY <1>1, <1>2, <1>3, Zenon DEF GrantsSound
<1> QED
  BY <1>1, <1>2, <1>4, Zenon DEF GrantsGrow, ClosesPassed

\* record_released, record_fenced: the grant is closed, after a true answer.
LEMMA CloseGrows ==
    ASSUME GrantsSound, NEW b \in Bindings, NEW s, CloseGrant(b, s)
    PROVE  /\ GrantsGrow
           /\ (connected => P!Passed(GrantedGen(b))) => ClosesPassed
<1>1. /\ grant_state' = [grant_state EXCEPT ![b] = "Closed"]
      /\ serving' = [serving EXCEPT ![b] = None] /\ orders' = {}
      /\ grants' = grants /\ confirmed' = confirmed
      /\ sessions' = sessions /\ watermark' = watermark
      /\ grant_state[b] \in OpenGrant
  BY DEF CloseGrant, OpenGrants
<1>2. /\ grant_state \in [Bindings -> GrantState]
      /\ serving \in [Bindings -> Machines \cup {None}]
  BY DEF GrantsSound, GrantTypeOK
<1>3. /\ grant_state' \in [Bindings -> GrantState]
      /\ serving' \in [Bindings -> Machines \cup {None}]
      /\ grant_state'[b] = "Closed" /\ serving'[b] = None
      /\ \A c \in Bindings : c # b => grant_state'[c] = grant_state[c] /\ serving'[c] = serving[c]
  BY <1>1, <1>2 DEF GrantState
<1>4. grant_state[b] # "Absent"
  BY <1>1 DEF OpenGrant
<1>5. Known' = Known
  BY <1>3, <1>4, Zenon DEF Known
<1>6. GrantTypeOK'
  BY <1>1, <1>3 DEF GrantsSound, GrantTypeOK
<1>7. GrantsSound'
  BY <1>1, <1>3, <1>5, <1>6, Zenon DEF GrantsSound
<1> QED
  BY <1>1, <1>3, <1>5, <1>7, Zenon DEF GrantsGrow, ClosesPassed, Known

\* What such a step does to the queues: jobs for its orders, and answers that
\* are taken out of the inbox.
Queued ==
    /\ jobs' \in Seq(Job) /\ (~connected => jobs' = jobs)
    /\ \A j \in Elements(jobs') : j \in Elements(jobs) \/
           /\ j \in Job /\ j.binding \in Known' /\ j.fence = grants'[j.binding].fence
           /\ j.session = Session
           /\ j.kind = "Activate" => j.binding \in confirmed'
           /\ j.kind \in {"Prepare", "Activate"} => grant_state'[j.binding] # "Closed"
    /\ inbox' \in Seq([tag : Job, reply : Result]) /\ Elements(inbox') \subseteq Elements(inbox)
    /\ UNCHANGED <<connected, awaited, wire, replies, timeouts, agent_vars>>

\* dispatch: a job carries the order and the session of the machine.
LEMMA DispatchQueues ==
    ASSUME EnforcementConstants, Sound, \A o \in orders' : OrderSound(o), Dispatch
    PROVE  /\ jobs' \in Seq(Job) /\ (~connected => jobs' = jobs)
           /\ \A j \in Elements(jobs') : j \in Elements(jobs) \/
                  /\ j \in Job /\ j.binding \in Known' /\ j.fence = grants'[j.binding].fence
                  /\ j.session = Session
                  /\ j.kind = "Activate" => j.binding \in confirmed'
                  /\ j.kind \in {"Prepare", "Activate"} => grant_state'[j.binding] # "Closed"
<1>1. PICK o \in orders' : \/ connected /\ jobs' = Append(jobs, JobOf(o))
                           \/ jobs' = jobs
  BY Zenon DEF Dispatch
<1>2. jobs \in Seq(Job) /\ Session \in Nat
  BY DEF Sound, LinkTyped, GrantsSound, GrantTypeOK, Session, EnforcementConstants
<1>3. OrderSound(o)
  OBVIOUS
<1>4. /\ JobOf(o).kind = o.kind /\ JobOf(o).binding = o.binding
      /\ JobOf(o).fence = o.fence /\ JobOf(o).session = Session
  BY DEF JobOf
<1>5. JobOf(o) \in Job
  BY <1>2, <1>3 DEF OrderSound, Order, JobOf, Job
<1>6. CASE jobs' = jobs
  BY <1>2, <1>6
<1>7. CASE connected /\ jobs' = Append(jobs, JobOf(o))
  <2>1. jobs' \in Seq(Job) /\ Elements(jobs') = Elements(jobs) \cup {JobOf(o)}
    BY <1>2, <1>5, <1>7, QueueFacts
  <2> QED
    BY <1>3, <1>4, <1>5, <1>7, <2>1, Zenon DEF OrderSound
<1> QED
  BY <1>1, <1>6, <1>7

\* A known grant that is kept keeps its generation.
LEMMA KeptGrant ==
    ASSUME NEW b, grants'[b] = grants[b]
    PROVE  /\ GrantedGen(b)' = GrantedGen(b) /\ KeyOf(b)' = KeyOf(b)
           /\ agent_eps' = agent_eps =>
                  /\ P!Holds(GrantedGen(b))' <=> P!Holds(GrantedGen(b))
                  /\ P!Passed(GrantedGen(b))' <=> P!Passed(GrantedGen(b))
                  /\ AcceptedFence(b)' <=> AcceptedFence(b)
                  /\ EndpointOf(b)' = EndpointOf(b)
                  /\ \A kind : TrueAnswer(b, kind)' <=> TrueAnswer(b, kind)
<1>1. GrantedGen(b)' = GrantedGen(b)
  BY Zenon DEF GrantedGen
<1>2. KeyOf(b)' = KeyOf(b)
  BY <1>1, Zenon DEF KeyOf, P!EndpointKey
<1>3. ASSUME agent_eps' = agent_eps
      PROVE  /\ P!Holds(GrantedGen(b))' <=> P!Holds(GrantedGen(b))
             /\ P!Passed(GrantedGen(b))' <=> P!Passed(GrantedGen(b))
             /\ AcceptedFence(b)' <=> AcceptedFence(b)
             /\ EndpointOf(b)' = EndpointOf(b)
  BY <1>1, <1>2, <1>3, Zenon
     DEF P!Holds, P!Passed, P!EndpointKey, AcceptedFence, EndpointOf, KeyOf
<1> QED
  BY <1>1, <1>2, <1>3, Zenon DEF TrueAnswer

\* Such a step keeps the first part of the invariant.
LEMMA ControllerSound ==
    ASSUME EnforcementConstants, Sound, GrantsGrow, Queued
    PROVE  Sound'
<1>1. /\ connected' = connected /\ awaited' = awaited /\ wire' = wire /\ replies' = replies
      /\ timeouts' = timeouts /\ agent_session' = agent_session /\ agent_epoch' = agent_epoch
      /\ agent_eps' = agent_eps /\ result' = result
  BY DEF Queued, agent_vars
<1>2. Session' = Session /\ confirmed \subseteq confirmed' /\ GrantsSound'
      /\ \A b \in Known : b \in Known' /\ grants'[b] = grants[b]
  BY DEF GrantsGrow, Session
<1>3. LinkTyped' /\ ProviderTyped'
  BY <1>1, Zenon DEF Queued, Sound, LinkTyped, ProviderTyped
<1>4. IdleWhenDown'
  <2> SUFFICES ASSUME ~connected' PROVE IdleWhenDown'
    BY Zenon DEF IdleWhenDown
  <2>1. ~connected /\ IdleWhenDown
    BY <1>1 DEF Sound
  <2>2. jobs' = jobs
    BY <2>1, Zenon DEF Queued
  <2> QED
    BY <1>1, <2>1, <2>2, Zenon DEF IdleWhenDown
<1>5. ASSUME NEW j, JobSound(j) PROVE JobSound(j)'
  BY <1>2, <1>5, Zenon DEF JobSound
<1>6. ASSUME NEW j \in Pending' PROVE JobSound(j)'
  <2>1. CASE j \in Pending
    BY <1>5, <2>1 DEF Sound
  <2>2. CASE j \notin Pending
    <3>1. j \in Elements(jobs') /\ j \notin Elements(jobs)
      BY <1>1, <2>2, Zenon DEF Pending
    <3> QED
      BY <1>2, <3>1, Zenon DEF Queued, JobSound
  <2> QED
    BY <2>1, <2>2
<1>7. TagsSound'
  BY <1>2, Zenon DEF Sound, TagsSound, Queued
<1>8. EndpointsKnown'
  BY <1>1, <1>2, Zenon DEF Sound, EndpointsKnown
<1>9. ActivatedWasConfirmed'
  <2> SUFFICES ASSUME NEW b \in Bindings, Held(b)', EndpointOf(b)'.phase = "Active"
               PROVE  b \in confirmed'
    BY Zenon DEF ActivatedWasConfirmed
  <2>1. CASE b \in Known
    <3>1. Held(b) /\ EndpointOf(b)' = EndpointOf(b)
      BY <1>1, <1>2, <2>1, KeptGrant, Zenon DEF Held
    <3> QED
      BY <1>2, <3>1, Zenon DEF Sound, ActivatedWasConfirmed
  <2>2. CASE b \notin Known
    <3>1. GrantsSound' /\ b \in Known'
      BY <1>2, Zenon DEF Held
    <3>2. KeyOf(b)' \in P!Keys
      BY <3>1, GenerationTypedNext, Zenon
    <3>3. agent_eps'[KeyOf(b)'] # None /\ agent_eps'[KeyOf(b)'].binding = b
      BY ByEndpointNext, Zenon DEF Held, HoldsAt
    <3>4. b \in Known \cup {None} /\ b # None
      BY <1>1, <3>2, <3>3, Zenon DEF Sound, EndpointsKnown, EnforcementConstants
    <3> QED
      BY <2>2, <3>4
  <2> QED
    BY <2>1, <2>2
<1> QED
  BY <1>2, <1>3, <1>4, <1>6, <1>7, <1>8, <1>9, Zenon DEF Sound

\* A step by which the agent's endpoints stay as they are.
StillTrue ==
    \A b \in Known :
        /\ GrantedGen(b)' = GrantedGen(b) /\ KeyOf(b)' = KeyOf(b)
        /\ P!Holds(GrantedGen(b))' <=> P!Holds(GrantedGen(b))
        /\ P!Passed(GrantedGen(b))' <=> P!Passed(GrantedGen(b))
        /\ AcceptedFence(b)' <=> AcceptedFence(b)
        /\ \A kind : TrueAnswer(b, kind)' <=> TrueAnswer(b, kind)

\* A step of the controller keeps the second part as well.
LEMMA ControllerLinked ==
    ASSUME EnforcementConstants, Sound, Linked, GrantsGrow, Queued, ClosesPassed
    PROVE  Linked'
<1>1. /\ connected' = connected /\ awaited' = awaited /\ wire' = wire /\ replies' = replies
      /\ agent_eps' = agent_eps
  BY DEF Queued, agent_vars
<1>2. Session' = Session /\ GrantsSound'
      /\ \A b \in Known : b \in Known' /\ grants'[b] = grants[b]
  BY DEF GrantsGrow, Session
<1>3. StillTrue
  BY <1>1, <1>2, KeptGrant, Zenon DEF StillTrue
<1>4. Paired'
  <2>1. CASE awaited = None
    BY <1>1, <2>1, Zenon DEF Linked, Paired
  <2>2. CASE awaited # None
    <3>1. awaited \in Pending
      BY <2>2, Zenon DEF Pending
    <3>2. awaited.binding \in Known
      BY <3>1, Zenon DEF Sound, JobSound
    <3> QED
      BY <1>1, <1>3, <2>2, <3>2, Zenon DEF Linked, Paired, StillTrue
  <2> QED
    BY <2>1, <2>2
<1>5. ClosedIsPassed'
  <2> SUFFICES ASSUME NEW j \in Pending', j.kind \in {"Prepare", "Activate"},
                      grant_state'[j.binding] = "Closed"
               PROVE  P!Passed(GrantedGen(j.binding))'
    BY Zenon DEF ClosedIsPassed
  <2>1. j \in Pending
    BY <1>1, Zenon DEF Queued, Pending
  <2>2. JobSound(j) /\ j.binding \in Known
    BY <2>1, Zenon DEF Sound, JobSound
  <2>3. connected
    BY <2>1, QueueEmpty, Zenon DEF Sound, IdleWhenDown, Pending
  <2>4. grant_state[j.binding] = "Closed" \/ P!Passed(GrantedGen(j.binding))
    BY <2>2, <2>3, Zenon DEF ClosesPassed
  <2>5. P!Passed(GrantedGen(j.binding))
    BY <2>1, <2>4, Zenon DEF Linked, ClosedIsPassed
  <2> QED
    BY <1>3, <2>2, <2>5, Zenon DEF StillTrue
<1>6. InboxTrue'
  <2> SUFFICES ASSUME NEW r \in Elements(inbox'), connected', r.tag.session = Session'
               PROVE  TrueAnswer(r.tag.binding, r.reply.kind)'
    BY Zenon DEF InboxTrue, Elements
  <2>1. r \in Elements(inbox) /\ connected /\ r.tag.session = Session
    BY <1>1, <1>2 DEF Queued
  <2> QED
    BY <1>3, <2>1, Zenon DEF Linked, InboxTrue, Sound, TagsSound, StillTrue
<1>7. HeldIsGranted'
  <2> SUFFICES ASSUME NEW b \in Bindings, Held(b)' PROVE b \in OpenGrants'
    BY Zenon DEF HeldIsGranted
  <2>1. b \in Known' /\ P!Holds(GrantedGen(b))'
    BY Zenon DEF Held
  <2>2. KeyOf(b)' \in P!Keys
    BY <1>2, <2>1, GenerationTypedNext, Zenon
  <2>3. agent_eps'[KeyOf(b)'] # None /\ agent_eps'[KeyOf(b)'].binding = b
    BY <2>1, ByEndpointNext, Zenon DEF HoldsAt
  <2>4. b \in Known
    BY <1>1, <2>2, <2>3, Zenon DEF Sound, EndpointsKnown, EnforcementConstants
  <2>5. connected
    BY <1>1, <2>2, <2>3, Zenon DEF Sound, IdleWhenDown
  <2>6. P!Holds(GrantedGen(b)) /\ b \in OpenGrants
    BY <1>3, <2>1, <2>4, Zenon DEF StillTrue, Linked, HeldIsGranted, Held
  <2>7. ~P!Passed(GrantedGen(b))
    BY <2>6, ByEndpoint, Zenon
  <2>8. grant_state[b] # "Closed"
    BY <2>6 DEF OpenGrants, OpenGrant
  <2>9. grant_state'[b] # "Closed"
    BY <2>4, <2>5, <2>7, <2>8, Zenon DEF ClosesPassed
  <2>10. grant_state'[b] \in GrantState /\ grant_state'[b] # "Absent"
    BY <1>2, <2>1 DEF GrantsSound, GrantTypeOK, Known
  <2> QED
    BY <2>9, <2>10 DEF OpenGrants, GrantState
<1> QED
  BY <1>4, <1>5, <1>6, <1>7, Zenon DEF Linked

\* A command is a step of the controller.
LEMMA CommandStep ==
    ASSUME EnforcementConstants, Sound, NEW b \in Bindings, Command(b)
    PROVE  GrantsGrow /\ Queued /\ ClosesPassed
<1>1. GrantsGrow /\ ClosesPassed /\ \A o \in orders' : OrderSound(o)
  <2>1. \/ \E k \in Endpoints, scope \in Scope : GrantEndpoint(b, k, scope, Machine)
        \/ \E kind \in {"Prepare", "Release", "Fence"} : Tell(kind, {b})
        \/ ActivateGrant(b)
        \/ FailGrant(b, {b})
    BY Zenon DEF Command
  <2> QED
    BY <2>1, CommandGrows, Zenon DEF Sound
<1>2. Dispatch /\ inbox' = inbox
      /\ UNCHANGED <<connected, awaited, wire, replies, timeouts, agent_vars>>
  BY DEF Command, OnlyDispatched, agent_vars
<1>3. inbox \in Seq([tag : Job, reply : Result])
  BY DEF Sound, LinkTyped
<1>4. inbox' \in Seq([tag : Job, reply : Result]) /\ Elements(inbox') \subseteq Elements(inbox)
  BY <1>2, <1>3, Zenon
<1> QED
  BY <1>1, <1>2, <1>4, DispatchQueues, Zenon DEF Queued

\* The answer that is absorbed next.
LEMMA NextAnswer ==
    ASSUME EnforcementConstants, Sound, inbox # <<>>, NEW r, r = Head(inbox)
    PROVE  /\ r \in Elements(inbox) /\ r.tag \in Job /\ r.reply \in Result
           /\ r.tag.binding \in Known /\ r.tag.binding \in Bindings
           /\ Accepted(r) => r.tag.session = Session
           /\ Tail(inbox) \in Seq([tag : Job, reply : Result])
           /\ Elements(Tail(inbox)) \subseteq Elements(inbox)
<1>1. inbox \in Seq([tag : Job, reply : Result])
  BY DEF Sound, LinkTyped
<1>2. /\ r \in [tag : Job, reply : Result] /\ r \in Elements(inbox)
      /\ Tail(inbox) \in Seq([tag : Job, reply : Result])
      /\ Elements(Tail(inbox)) \subseteq Elements(inbox)
  BY <1>1, QueueFacts, Zenon
<1>3. r.tag \in Job /\ r.reply \in Result
  BY <1>2
<1>4. r.tag.binding \in Known /\ r.tag.binding \in Bindings
  BY <1>2, Zenon DEF Sound, TagsSound, Known
<1>5. serving[r.tag.binding] \in {Machine, None}
  BY <1>4, Zenon DEF Sound, GrantsSound
<1>6. Accepted(r) => r.tag.session = Session
  BY <1>5, Zenon DEF Accepted, Serves, Session
<1> QED
  BY <1>2, <1>3, <1>4, <1>6, Zenon

\* absorb is a step of the controller: an answer that is recorded belongs to
\* the machine's session.
LEMMA AbsorbStep ==
    ASSUME EnforcementConstants, Sound, Absorb
    PROVE  GrantsGrow /\ Queued /\ (Linked => ClosesPassed)
<1> DEFINE r == Head(inbox)
           b == r.tag.binding
<1>1. /\ r \in Elements(inbox) /\ b \in Bindings /\ b \in Known
      /\ Accepted(r) => r.tag.session = Session
      /\ inbox' \in Seq([tag : Job, reply : Result]) /\ Elements(inbox') \subseteq Elements(inbox)
  BY NextAnswer, Zenon DEF Absorb
<1>2. /\ UNCHANGED <<connected, awaited, wire, replies, timeouts, agent_vars>>
      /\ \/ Accepted(r) /\ Settle(b, r.tag.session, r.reply.kind)
         \/ ~Accepted(r) /\ UNCHANGED <<grant_vars, jobs>>
  BY Zenon DEF Absorb
<1>3. GrantsSound /\ jobs \in Seq(Job)
  BY DEF Sound, LinkTyped
<1> HIDE DEF r, b
<1>4. ASSUME jobs' = jobs PROVE Queued
  BY <1>1, <1>2, <1>3, <1>4, Zenon DEF Queued
<1>5. CASE UNCHANGED <<grant_vars, jobs>>
  <2>1. /\ grant_state' = grant_state /\ grants' = grants /\ serving' = serving
        /\ confirmed' = confirmed /\ sessions' = sessions /\ watermark' = watermark
        /\ orders' = orders /\ jobs' = jobs
    BY <1>5 DEF grant_vars
  <2>2. Known' = Known
    BY <2>1 DEF Known
  <2>3. GrantTypeOK'
    BY <1>3, <2>1 DEF GrantsSound, GrantTypeOK
  <2>4. GrantsSound'
    BY <1>3, <2>1, <2>2, <2>3, Zenon DEF GrantsSound
  <2> QED
    BY <1>4, <2>1, <2>2, <2>4, Zenon DEF GrantsGrow, ClosesPassed
<1>6. CASE ConfirmGrant(b, r.tag.session) /\ jobs' = jobs
  BY <1>1, <1>3, <1>4, <1>6, ConfirmGrows, Zenon
<1>7. CASE FailGrant(b, {b}) /\ Dispatch
  <2>1. GrantsGrow /\ ClosesPassed /\ \A o \in orders' : OrderSound(o)
    BY <1>1, <1>3, <1>7, CommandGrows, Zenon
  <2> QED
    BY <1>1, <1>2, <1>7, <2>1, DispatchQueues, Zenon DEF Queued
<1>8. CASE /\ Accepted(r) /\ r.reply.kind \in {"Released", "Fenced"}
           /\ CloseGrant(b, r.tag.session) /\ jobs' = jobs
  <2>1. Linked /\ connected => P!Passed(GrantedGen(b))
    BY <1>1, <1>8, Zenon DEF Linked, InboxTrue, TrueAnswer, b
  <2> QED
    BY <1>1, <1>3, <1>4, <1>8, <2>1, CloseGrows, Zenon
<1> QED
  BY <1>2, <1>5, <1>6, <1>7, <1>8, Zenon DEF Settle

-----------------------------------------------------------------------------
(* The worker's steps.                                                     *)

\* A step of a connection that leaves the kernel and the agent as they are.
LinkOnly ==
    /\ connected /\ UNCHANGED <<grant_vars, connected, agent_vars>>
    /\ LinkTyped' /\ Pending' \subseteq Pending
    /\ \A r \in Elements(inbox') : r \in Elements(inbox) \/ r.tag \in Pending

\* Such a step keeps the first part of the invariant.
LEMMA LinkSound ==
    ASSUME EnforcementConstants, Sound, LinkOnly
    PROVE  Sound'
<1>1. /\ grant_state' = grant_state /\ grants' = grants /\ serving' = serving
      /\ confirmed' = confirmed /\ sessions' = sessions /\ watermark' = watermark
      /\ orders' = orders /\ connected' = connected
      /\ agent_session' = agent_session /\ agent_epoch' = agent_epoch
      /\ agent_eps' = agent_eps /\ result' = result
  BY DEF LinkOnly, grant_vars, agent_vars
<1>2. Known' = Known /\ Session' = Session
  BY <1>1, Zenon DEF Known, Session
<1>3. GrantTypeOK'
  BY <1>1 DEF Sound, GrantsSound, GrantTypeOK
<1>4. GrantsSound' /\ ProviderTyped' /\ EndpointsKnown'
  BY <1>1, <1>2, <1>3, Zenon DEF Sound, GrantsSound, ProviderTyped, EndpointsKnown
<1>5. IdleWhenDown'
  BY <1>1 DEF LinkOnly, IdleWhenDown
<1>6. \A j \in Pending' : JobSound(j)'
  BY <1>1, <1>2, Zenon DEF Sound, LinkOnly, JobSound
<1>7. TagsSound'
  <2> SUFFICES ASSUME NEW r \in Elements(inbox')
               PROVE  r.tag.binding \in Known' /\ r.tag.session <= Session'
    BY Zenon DEF TagsSound, Elements
  <2>1. CASE r \in Elements(inbox)
    BY <1>2, <2>1, Zenon DEF Sound, TagsSound
  <2>2. CASE r.tag \in Pending
    <3>1. Session \in Nat
      BY DEF Sound, GrantsSound, GrantTypeOK, Session, EnforcementConstants
    <3> QED
      BY <1>2, <2>2, <3>1 DEF Sound, JobSound
  <2> QED
    BY <2>1, <2>2 DEF LinkOnly
<1>8. \A b : GrantedGen(b)' = GrantedGen(b)
  BY <1>1, Zenon DEF GrantedGen
<1>9. ActivatedWasConfirmed'
  BY <1>1, <1>2, <1>8, Zenon
     DEF Sound, ActivatedWasConfirmed, Held, EndpointOf, P!Holds, P!EndpointKey
<1> QED
  BY <1>4, <1>5, <1>6, <1>7, <1>9, Zenon DEF Sound, LinkOnly

\* It keeps the second part if the answers it moves are true.
LEMMA LinkLinked ==
    ASSUME Linked, LinkOnly, Paired',
           \A r \in Elements(inbox') :
               r \in Elements(inbox) \/ TrueAnswer(r.tag.binding, r.reply.kind)
    PROVE  Linked'
<1>1. /\ grant_state' = grant_state /\ grants' = grants /\ sessions' = sessions
      /\ connected' = connected /\ agent_eps' = agent_eps
  BY DEF LinkOnly, grant_vars, agent_vars
<1>2. Known' = Known /\ Session' = Session /\ OpenGrants' = OpenGrants
  BY <1>1, Zenon DEF Known, Session, OpenGrants
<1>3. \A b : /\ P!Holds(GrantedGen(b))' <=> P!Holds(GrantedGen(b))
             /\ P!Passed(GrantedGen(b))' <=> P!Passed(GrantedGen(b))
             /\ \A kind : TrueAnswer(b, kind)' <=> TrueAnswer(b, kind)
  BY <1>1, KeptGrant, Zenon
<1>4. ClosedIsPassed'
  BY <1>1, <1>3, Zenon DEF Linked, ClosedIsPassed, LinkOnly
<1>5. InboxTrue'
  <2> SUFFICES ASSUME NEW r \in Elements(inbox'), connected', r.tag.session = Session'
               PROVE  TrueAnswer(r.tag.binding, r.reply.kind)'
    BY Zenon DEF InboxTrue, Elements
  <2> QED
    BY <1>1, <1>2, <1>3, Zenon DEF Linked, InboxTrue, LinkOnly
<1>6. HeldIsGranted'
  BY <1>2, <1>3, Zenon DEF Linked, HeldIsGranted, Held
<1> QED
  BY <1>4, <1>5, <1>6, Zenon DEF Linked

\* The queues of a step that leaves them alone.
LEMMA WhileConnected ==
    ASSUME Sound, \/ jobs # <<>> \/ awaited # None \/ wire # <<>> \/ replies # <<>>
    PROVE  connected
BY Zenon DEF Sound, IdleWhenDown

\* The worker sends the next job.
LEMMA SendKeeps ==
    ASSUME EnforcementConstants, Sound, Send
    PROVE  Sound' /\ (Linked => Linked')
<1>1. /\ awaited = None /\ jobs # <<>> /\ awaited' = Head(jobs) /\ jobs' = Tail(jobs)
      /\ wire' = Append(wire, Head(jobs))
      /\ UNCHANGED <<grant_vars, connected, agent_vars>>
      /\ replies' = replies /\ inbox' = inbox /\ timeouts' = timeouts /\ connected' = connected
  BY DEF Send
<1>2. LinkTyped
  BY DEF Sound
<1>3. /\ Head(jobs) \in Job /\ Head(jobs) \in Elements(jobs)
      /\ Tail(jobs) \in Seq(Job) /\ Elements(Tail(jobs)) \subseteq Elements(jobs)
      /\ wire' \in Seq(Job) /\ Elements(wire') = Elements(wire) \cup {Head(jobs)}
  BY <1>1, <1>2, QueueFacts, Zenon DEF LinkTyped
<1>4. Head(jobs) # None
  BY <1>3, Zenon DEF EnforcementConstants
<1>5. connected
  BY <1>1, WhileConnected
<1>6. LinkTyped'
  BY <1>1, <1>2, <1>3, Zenon DEF LinkTyped
<1>7. Pending' \subseteq Pending
  BY <1>1, <1>3, Zenon DEF Pending
<1>8. LinkOnly
  BY <1>1, <1>5, <1>6, <1>7, Zenon DEF LinkOnly
<1>9. ASSUME Linked PROVE Paired'
  <2>1. wire = <<>> /\ replies = <<>>
    BY <1>1, <1>9, Zenon DEF Linked, Paired
  <2>2. wire' = <<awaited'>> /\ replies' = <<>>
    BY <1>1, <2>1
  <2> QED
    BY <1>1, <1>4, <2>2, Zenon DEF Paired
<1> QED
  BY <1>1, <1>8, <1>9, LinkSound, LinkLinked, Zenon

\* The worker takes the next frame for the answer to its call.
LEMMA ReceiveKeeps ==
    ASSUME EnforcementConstants, Sound, Receive
    PROVE  Sound' /\ (Linked => Linked')
<1> DEFINE r == [tag |-> awaited, reply |-> Head(replies)]
<1>1. /\ awaited # None /\ replies # <<>> /\ inbox' = Append(inbox, r)
      /\ awaited' = None /\ replies' = Tail(replies)
      /\ UNCHANGED <<grant_vars, connected, agent_vars>>
      /\ jobs' = jobs /\ wire' = wire /\ timeouts' = timeouts /\ connected' = connected
  BY DEF Receive
<1>2. LinkTyped
  BY DEF Sound
<1>3. /\ Head(replies) \in Result /\ Tail(replies) \in Seq(Result)
  BY <1>1, <1>2, QueueFacts, Zenon DEF LinkTyped
<1>4. r \in [tag : Job, reply : Result] /\ r.tag = awaited /\ r.reply = Head(replies)
  BY <1>1, <1>2, <1>3 DEF LinkTyped
<1> HIDE DEF r
<1>5. /\ inbox' \in Seq([tag : Job, reply : Result])
      /\ Elements(inbox') = Elements(inbox) \cup {r}
  <2> DEFINE S == [tag : Job, reply : Result]
  <2>1. inbox \in Seq(S) /\ r \in S
    BY <1>2, <1>4 DEF LinkTyped
  <2> HIDE DEF S
  <2>2. inbox' \in Seq(S) /\ Elements(inbox') = Elements(inbox) \cup {r}
    BY <1>1, <2>1, QueueFacts
  <2> QED
    BY <2>2 DEF S
<1>6. LinkTyped'
  BY <1>1, <1>2, <1>3, <1>5, Zenon DEF LinkTyped
<1>7. Pending' \subseteq Pending /\ awaited \in Pending
  BY <1>1, Zenon DEF Pending
<1>8. LinkOnly
  BY <1>1, <1>4, <1>5, <1>6, <1>7, WhileConnected, Zenon DEF LinkOnly
<1>9. ASSUME Linked PROVE Linked'
  <2>1. PICK a \in Result : wire = <<>> /\ replies = <<a>> /\ TrueAnswer(awaited.binding, a.kind)
    BY <1>1, <1>9, Zenon DEF Linked, Paired
  <2>2. Head(replies) = a /\ Tail(replies) = <<>>
    BY <2>1
  <2>3. Paired'
    BY <1>1, <2>1, <2>2, Zenon DEF Paired
  <2> QED
    BY <1>4, <1>5, <1>8, <1>9, <2>1, <2>2, <2>3, LinkLinked, Zenon
<1> QED
  BY <1>8, <1>9, LinkSound

\* A call times out.
LEMMA TimeoutKeeps ==
    ASSUME EnforcementConstants, Sound, Timeout
    PROVE  Sound'
<1>1. /\ awaited # None /\ awaited' = None /\ timeouts' = timeouts + 1
      /\ UNCHANGED <<grant_vars, connected, agent_vars>>
      /\ jobs' = jobs /\ wire' = wire /\ replies' = replies /\ inbox' = inbox
      /\ connected' = connected
  BY DEF Timeout
<1>2. LinkTyped /\ timeouts + 1 \in Nat
  BY DEF Sound, LinkTyped
<1>3. LinkTyped'
  BY <1>1, <1>2, Zenon DEF LinkTyped
<1>4. Pending' \subseteq Pending
  BY <1>1, Zenon DEF Pending
<1>5. LinkOnly
  BY <1>1, <1>3, <1>4, WhileConnected, Zenon DEF LinkOnly
<1> QED
  BY <1>5, LinkSound

-----------------------------------------------------------------------------
(* The agent's step.                                                       *)

\* What a job of the given kind for binding b does at the agent.
Effect(b, kind) ==
    /\ ProviderTyped' /\ EndpointsKnown'
    /\ result' \in Result /\ TrueAnswer(b, result.kind)'
    /\ \A c \in Known :
           /\ P!Passed(GrantedGen(c)) => P!Passed(GrantedGen(c))'
           /\ AcceptedFence(c) => AcceptedFence(c)'
           /\ P!Holds(GrantedGen(c))' =>
                  \/ P!Holds(GrantedGen(c))
                  \/ c = b /\ kind \in {"Prepare", "Activate"} /\ ~P!Passed(GrantedGen(c))
           /\ P!Holds(GrantedGen(c))' /\ EndpointOf(c)'.phase = "Active" =>
                  \/ P!Holds(GrantedGen(c)) /\ EndpointOf(c).phase = "Active"
                  \/ c = b /\ kind = "Activate"

\* A request that is served has this effect.
LEMMA ServedEffect ==
    ASSUME EnforcementConstants, Sound, NEW b \in Known, NEW kind \in OrderKind,
           UNCHANGED grant_vars, Served(kind, KeyOf(b), b, grants[b].fence)
    PROVE  Effect(b, kind)
<1> DEFINE k == KeyOf(b)
           f == grants[b].fence
<1>1. /\ grants' = grants /\ Known' = Known
      /\ \A c : KeyOf(c)' = KeyOf(c)
  BY Zenon DEF grant_vars, Known, KeyOf, GrantedGen
<1>2. /\ ProviderTyped /\ EndpointsKnown
      /\ \A c \in Known : grants[c].fence \in Nat /\ KeyOf(c) \in P!Keys /\ c # None
  <2>1. GrantsSound /\ ProviderTyped /\ EndpointsKnown
    BY DEF Sound
  <2>2. \A c \in Known : grants[c].fence \in Nat /\ c # None
    BY <2>1 DEF GrantsSound, GrantTypeOK, Grant, Known, EnforcementConstants
  <2> QED
    BY <2>1, <2>2, GenerationTyped, Zenon
<1> HIDE DEF k, f
<1>5. /\ ProviderTyped' /\ result' \in Result
      /\ k \in P!Keys /\ agent_eps'[k] \in P!Endpoint
      /\ \A q \in P!Keys \ {k} : Undisturbed(q)
      /\ agent_eps[k] # None => agent_eps'[k].accepted_fence >= agent_eps[k].accepted_fence
      /\ \/ agent_eps[k] # None /\ Undisturbed(k)
         \/ ~agent_eps'[k].open /\ agent_eps'[k].binding = None
         \/ /\ HoldsAt(agent_eps'[k], b, f)
            /\ kind \in {"Prepare", "Activate"}
            /\ agent_eps'[k].phase = "Active" => kind = "Activate"
      /\ agent_eps[k] # None /\ HoldsAt(agent_eps'[k], b, f) =>
             \/ agent_eps[k].accepted_fence < f
             \/ HoldsAt(agent_eps[k], b, f)
      /\ result'.kind = "Prepared" => agent_eps'[k].accepted_fence = f
      /\ result'.kind \in {"Released", "Fenced"} =>
             \/ ~agent_eps'[k].open /\ agent_eps'[k].accepted_fence = f
             \/ agent_eps'[k].accepted_fence > f
  BY Zenon DEF Served, k, f
<1>6. agent_eps'[k] # None /\ f \in Nat
  BY <1>2, <1>5, Zenon DEF EnforcementConstants, f
<1>7. /\ agent_eps'[k].accepted_fence \in Nat
      /\ \A q \in P!Keys : agent_eps[q] # None => agent_eps[q].accepted_fence \in Nat
  BY <1>2, <1>5 DEF ProviderTyped, P!Endpoint
<1>8. TrueAnswer(b, result.kind)'
  <2>1. result'.kind = "Prepared" => agent_eps'[k].accepted_fence >= f
    BY <1>5, <1>6
  <2>2. result'.kind \in {"Released", "Fenced"} =>
            agent_eps'[k].accepted_fence >= f /\ ~HoldsAt(agent_eps'[k], b, f)
    BY <1>5, <1>6, <1>7 DEF HoldsAt
  <2>3. KeyOf(b)' = k /\ grants'[b].fence = f
    BY <1>1, Zenon DEF k, f
  <2> QED
    BY <1>6, <2>1, <2>2, <2>3, ByEndpointNext, Zenon DEF TrueAnswer
<1>9. EndpointsKnown'
  <2> SUFFICES ASSUME NEW q \in P!Keys, agent_eps'[q] # None
               PROVE  agent_eps'[q].binding \in Known' \cup {None}
    BY Zenon DEF EndpointsKnown
  <2>1. CASE Undisturbed(q)
    BY <1>1, <1>2, <2>1, Zenon DEF EndpointsKnown, Undisturbed
  <2>2. CASE ~Undisturbed(q)
    BY <1>1, <1>5, <2>2, Zenon DEF HoldsAt
  <2> QED
    BY <2>1, <2>2
<1>10. ASSUME NEW c \in Known
       PROVE  /\ P!Passed(GrantedGen(c)) => P!Passed(GrantedGen(c))'
              /\ AcceptedFence(c) => AcceptedFence(c)'
              /\ P!Holds(GrantedGen(c))' =>
                     \/ P!Holds(GrantedGen(c))
                     \/ c = b /\ kind \in {"Prepare", "Activate"} /\ ~P!Passed(GrantedGen(c))
              /\ P!Holds(GrantedGen(c))' /\ EndpointOf(c)'.phase = "Active" =>
                     \/ P!Holds(GrantedGen(c)) /\ EndpointOf(c).phase = "Active"
                     \/ c = b /\ kind = "Activate"
  <2> DEFINE q == KeyOf(c)
             h == grants[c].fence
  <2>1. q \in P!Keys /\ h \in Nat /\ KeyOf(c)' = q /\ grants'[c].fence = h
    BY <1>1, <1>2, Zenon
  <2>2. /\ P!Holds(GrantedGen(c)) <=> agent_eps[q] # None /\ HoldsAt(agent_eps[q], c, h)
        /\ P!Passed(GrantedGen(c)) <=> /\ agent_eps[q] # None /\ agent_eps[q].accepted_fence >= h
                                       /\ ~HoldsAt(agent_eps[q], c, h)
        /\ AcceptedFence(c) <=> agent_eps[q] # None /\ agent_eps[q].accepted_fence >= h
        /\ EndpointOf(c) = agent_eps[q]
    BY ByEndpoint, Zenon
  <2>3. /\ P!Holds(GrantedGen(c))' <=> agent_eps'[q] # None /\ HoldsAt(agent_eps'[q], c, h)
        /\ P!Passed(GrantedGen(c))' <=> /\ agent_eps'[q] # None /\ agent_eps'[q].accepted_fence >= h
                                        /\ ~HoldsAt(agent_eps'[q], c, h)
        /\ AcceptedFence(c)' <=> agent_eps'[q] # None /\ agent_eps'[q].accepted_fence >= h
        /\ EndpointOf(c)' = agent_eps'[q]
    BY <2>1, ByEndpointNext, Zenon
  <2> HIDE DEF q, h
  <2>4. CASE Undisturbed(q)
    BY <2>2, <2>3, <2>4, Zenon DEF Undisturbed, HoldsAt
  <2>5. CASE q = k /\ ~Undisturbed(k)
    <3>1. agent_eps[k] # None /\ agent_eps[k].accepted_fence >= h =>
              agent_eps'[k].accepted_fence >= h
      BY <1>5, <1>7, <2>1
    <3>2. CASE ~agent_eps'[k].open
      BY <1>6, <2>2, <2>3, <2>5, <3>1, <3>2, Zenon DEF HoldsAt
    <3>3. CASE /\ HoldsAt(agent_eps'[k], b, f) /\ kind \in {"Prepare", "Activate"}
               /\ agent_eps'[k].phase = "Active" => kind = "Activate"
      <4>1. HoldsAt(agent_eps'[k], c, h) => c = b /\ h = f
        BY <3>3, Zenon DEF HoldsAt
      <4>2. /\ agent_eps[k] # None /\ agent_eps[k].accepted_fence >= h
            /\ HoldsAt(agent_eps'[k], c, h)
            => HoldsAt(agent_eps[k], c, h)
        BY <1>5, <1>6, <1>7, <3>3, <4>1
      <4> QED
        BY <1>6, <2>2, <2>3, <2>5, <3>1, <3>3, <4>1, <4>2, Zenon
    <3> QED
      BY <1>5, <2>5, <3>2, <3>3, Zenon
  <2> QED
    BY <1>5, <2>1, <2>4, <2>5, Zenon
<1> QED
  BY <1>5, <1>8, <1>9, <1>10, Zenon DEF Effect

\* A request of an older session is refused, and changes nothing.
LEMMA RefuseEffect ==
    ASSUME EnforcementConstants, Sound, NEW b \in Known, NEW kind \in OrderKind,
           UNCHANGED grant_vars, P!Refuse(kind, GrantedGen(b), Session, Epoch)
    PROVE  Effect(b, kind)
<1>1. grants' = grants /\ Known' = Known /\ b \in Bindings
  BY Zenon DEF grant_vars, Known
<1>2. /\ agent_session' = agent_session /\ agent_epoch' = agent_epoch /\ agent_eps' = agent_eps
      /\ result' = [kind |-> "Failed", binding |-> b]
  BY DEF P!Refuse, GrantedGen
<1>3. result' \in Result /\ result'.kind = "Failed"
  BY <1>1, <1>2 DEF Result, P!Answer
<1>4. ProviderTyped' /\ EndpointsKnown'
  BY <1>1, <1>2, <1>3, Zenon DEF Sound, ProviderTyped, EndpointsKnown
<1>5. TrueAnswer(b, result.kind)'
  BY <1>3 DEF TrueAnswer
<1> QED
  BY <1>1, <1>2, <1>3, <1>4, <1>5, KeptGrant, Zenon DEF Effect

\* Handling the next request keeps the invariant.
LEMMA EffectKeeps ==
    ASSUME EnforcementConstants, Sound, Handle, NEW j, j = Head(wire), JobSound(j),
           Effect(j.binding, j.kind)
    PROVE  Sound' /\ (Linked => Linked')
<1> DEFINE b == j.binding
<1>1. /\ wire # <<>> /\ wire' = Tail(wire) /\ replies' = Append(replies, result')
      /\ UNCHANGED grant_vars /\ connected' = connected /\ jobs' = jobs
      /\ awaited' = awaited /\ inbox' = inbox /\ timeouts' = timeouts
  BY Zenon DEF Handle
<1>2. LinkTyped /\ connected
  BY <1>1, WhileConnected DEF Sound
<1>3. /\ j \in Elements(wire)
      /\ Tail(wire) \in Seq(Job) /\ Elements(Tail(wire)) \subseteq Elements(wire)
  BY <1>1, <1>2, QueueFacts, Zenon DEF LinkTyped
<1>4. j \in Pending
  BY <1>3, Zenon DEF Pending
<1>5. b \in Known
  BY Zenon DEF JobSound
<1>7. Effect(b, j.kind)
  OBVIOUS
<1>8. /\ grant_state' = grant_state /\ grants' = grants /\ serving' = serving
      /\ confirmed' = confirmed /\ sessions' = sessions /\ watermark' = watermark
      /\ orders' = orders
  BY <1>1 DEF grant_vars
<1>9. Known' = Known /\ Session' = Session /\ OpenGrants' = OpenGrants
  BY <1>8, Zenon DEF Known, Session, OpenGrants
<1>10. GrantsSound'
  <2>1. GrantTypeOK'
    BY <1>8 DEF Sound, GrantsSound, GrantTypeOK
  <2> QED
    BY <1>8, <1>9, <2>1, Zenon DEF Sound, GrantsSound
<1>11. replies' \in Seq(Result)
  BY <1>1, <1>2, <1>7, QueueFacts, Zenon DEF LinkTyped, Effect
<1>12. LinkTyped'
  BY <1>1, <1>2, <1>3, <1>11, Zenon DEF LinkTyped
<1>13. Pending' \subseteq Pending
  BY <1>1, <1>3, Zenon DEF Pending
<1>14. Sound'
  <2>1. IdleWhenDown'
    BY <1>1, <1>2 DEF IdleWhenDown
  <2>2. \A i \in Pending' : JobSound(i)'
    BY <1>8, <1>9, <1>13, Zenon DEF Sound, JobSound
  <2>3. TagsSound'
    BY <1>1, <1>9, Zenon DEF Sound, TagsSound
  <2>4. ActivatedWasConfirmed'
    <3> SUFFICES ASSUME NEW c \in Bindings, Held(c)', EndpointOf(c)'.phase = "Active"
                 PROVE  c \in confirmed'
      BY Zenon DEF ActivatedWasConfirmed
    <3>1. c \in Known /\ P!Holds(GrantedGen(c))'
      BY <1>9, Zenon DEF Held
    <3>2. CASE P!Holds(GrantedGen(c)) /\ EndpointOf(c).phase = "Active"
      BY <1>8, <3>1, <3>2, Zenon DEF Sound, ActivatedWasConfirmed, Held
    <3>3. CASE c = b /\ j.kind = "Activate"
      BY <1>4, <1>8, <3>3, Zenon DEF JobSound
    <3> QED
      BY <1>7, <3>1, <3>2, <3>3, Zenon DEF Effect
  <2> QED
    BY <1>7, <1>10, <1>12, <2>1, <2>2, <2>3, <2>4, Zenon DEF Sound, Effect
<1>15. ASSUME Linked PROVE Linked'
  <2>1. \A c \in Known : \A kind : TrueAnswer(c, kind) => TrueAnswer(c, kind)'
    BY <1>7, Zenon DEF Effect, TrueAnswer
  <2>2. awaited # None /\ wire = <<awaited>> /\ replies = <<>>
    BY <1>1, <1>15, Zenon DEF Linked, Paired
  <2>3. j = awaited /\ wire' = <<>> /\ replies' = <<result'>>
    BY <1>1, <2>2
  <2>4. Paired'
    BY <1>1, <1>7, <2>2, <2>3, Zenon DEF Paired, Effect
  <2>5. ClosedIsPassed'
    <3> SUFFICES ASSUME NEW i \in Pending', i.kind \in {"Prepare", "Activate"},
                        grant_state'[i.binding] = "Closed"
                 PROVE  P!Passed(GrantedGen(i.binding))'
      BY Zenon DEF ClosedIsPassed
    <3>1. i \in Pending /\ i.binding \in Known
      BY <1>13, Zenon DEF Sound, JobSound
    <3> QED
      BY <1>7, <1>8, <1>15, <3>1, Zenon DEF Linked, ClosedIsPassed, Effect
  <2>6. InboxTrue'
    BY <1>1, <1>9, <1>15, <2>1, Zenon DEF Linked, InboxTrue, Sound, TagsSound
  <2>7. HeldIsGranted'
    <3> SUFFICES ASSUME NEW c \in Bindings, Held(c)' PROVE c \in OpenGrants
      BY <1>9, Zenon DEF HeldIsGranted
    <3>1. c \in Known /\ P!Holds(GrantedGen(c))'
      BY <1>9, Zenon DEF Held
    <3>2. CASE P!Holds(GrantedGen(c))
      BY <1>15, <3>1, <3>2, Zenon DEF Linked, HeldIsGranted, Held
    <3>3. CASE c = b /\ j.kind \in {"Prepare", "Activate"} /\ ~P!Passed(GrantedGen(c))
      <4>1. grant_state[c] # "Closed"
        BY <1>4, <1>15, <3>3, Zenon DEF Linked, ClosedIsPassed
      <4>2. grant_state[c] \in GrantState /\ grant_state[c] # "Absent"
        BY <3>1 DEF Sound, GrantsSound, GrantTypeOK, Known
      <4> QED
        BY <4>1, <4>2 DEF OpenGrants, GrantState
    <3> QED
      BY <1>7, <3>1, <3>2, <3>3, Zenon DEF Effect
  <2> QED
    BY <2>4, <2>5, <2>6, <2>7, Zenon DEF Linked
<1> QED
  BY <1>14, <1>15

-----------------------------------------------------------------------------
(* Connections.                                                            *)

\* No call is under way and the agent holds nothing.
Idle ==
    /\ GrantsSound /\ LinkTyped /\ ProviderTyped /\ TagsSound
    /\ jobs = <<>> /\ awaited = None /\ wire = <<>> /\ replies = <<>>
    /\ \A k \in P!Keys : agent_eps[k] = None
    /\ \A r \in Elements(inbox) : connected => r.tag.session # Session

\* An idle connection satisfies the invariant.
LEMMA IdleKeeps == Idle => Sound /\ Linked
<1> SUFFICES ASSUME Idle PROVE Sound /\ Linked
  OBVIOUS
<1>1. Pending = {}
  BY QueueEmpty, Zenon DEF Idle, Pending
<1>2. \A b \in Bindings : ~Held(b)
  <2> SUFFICES ASSUME NEW b \in Bindings, Held(b) PROVE FALSE
    OBVIOUS
  <2>1. KeyOf(b) \in P!Keys
    BY GenerationTyped, Zenon DEF Idle, Held
  <2> QED
    BY <2>1, ByEndpoint, Zenon DEF Idle, Held
<1>3. IdleWhenDown /\ EndpointsKnown
  BY Zenon DEF Idle, IdleWhenDown, EndpointsKnown
<1>4. ActivatedWasConfirmed /\ HeldIsGranted
  BY <1>2, Zenon DEF ActivatedWasConfirmed, HeldIsGranted
<1>5. Paired /\ ClosedIsPassed /\ InboxTrue
  BY <1>1, Zenon DEF Idle, Paired, ClosedIsPassed, InboxTrue
<1> QED
  BY <1>1, <1>3, <1>4, <1>5, Zenon DEF Sound, Linked, Idle

\* The same of the next state.
LEMMA IdleKeepsNext == Idle' => Sound' /\ Linked'
BY IdleKeeps, PTL

\* The beginning.
LEMMA InitIdle ==
    ASSUME EnforcementConstants, EnforcementInit
    PROVE  Idle
<1>1. GrantTypeOK
  BY DEF EnforcementInit, GrantInit, GrantTypeOK, GrantState, Grant, NoGrant, Scope
<1>2. Known = {} /\ serving = [b \in Bindings |-> None]
  BY DEF EnforcementInit, GrantInit, Known
<1>3. GrantsSound
  BY <1>1, <1>2 DEF GrantsSound
<1>4. ProviderTyped /\ \A k \in P!Keys : agent_eps[k] = None
  BY DEF EnforcementInit, P!ProviderInit, ProviderTyped
<1>5. LinkTyped
  BY NoneQueued, Zenon DEF EnforcementInit, LinkTyped
<1>6. Elements(inbox) = {}
  BY QueueEmpty DEF EnforcementInit
<1> QED
  BY <1>3, <1>4, <1>5, <1>6 DEF Idle, TagsSound, EnforcementInit

\* The connection ends.
LEMMA DisconnectIdles ==
    ASSUME EnforcementConstants, Sound, Disconnect
    PROVE  Idle'
<1>1. /\ connected' = FALSE /\ jobs' = <<>> /\ awaited' = None /\ wire' = <<>> /\ replies' = <<>>
      /\ agent_session' = 0 /\ agent_epoch' = 0 /\ result' = None
      /\ agent_eps' = [k \in P!Keys |-> None]
      /\ inbox' = inbox /\ timeouts' = timeouts
      /\ grant_state' = grant_state /\ grants' = grants /\ serving' = serving
      /\ confirmed' = confirmed /\ sessions' = sessions /\ watermark' = watermark
      /\ orders' = orders
  BY DEF Disconnect, grant_vars
<1>2. Known' = Known /\ Session' = Session
  BY <1>1, Zenon DEF Known, Session
<1>3. GrantTypeOK'
  BY <1>1 DEF Sound, GrantsSound, GrantTypeOK
<1>4. GrantsSound' /\ TagsSound'
  BY <1>1, <1>2, <1>3, Zenon DEF Sound, GrantsSound, TagsSound
<1>5. ProviderTyped' /\ \A k \in P!Keys : agent_eps'[k] = None
  BY <1>1 DEF ProviderTyped
<1>6. LinkTyped'
  <2>1. timeouts \in Nat /\ inbox \in Seq([tag : Job, reply : Result])
    BY DEF Sound, LinkTyped
  <2> QED
    BY <1>1, <2>1, NoneQueued, Zenon DEF LinkTyped
<1> QED
  BY <1>1, <1>4, <1>5, <1>6, Zenon DEF Idle

\* The agent registers: the answers of earlier sessions are stale.
LEMMA RegisterIdles ==
    ASSUME EnforcementConstants, Sound, Register
    PROVE  Idle'
<1>1. /\ ~connected /\ connected' = TRUE
      /\ sessions' = [sessions EXCEPT ![Machine] = Session + 1] /\ orders' = {}
      /\ grant_state' = grant_state /\ grants' = grants /\ serving' = serving
      /\ confirmed' = confirmed /\ watermark' = watermark
      /\ jobs' = jobs /\ awaited' = awaited /\ wire' = wire /\ replies' = replies
      /\ inbox' = inbox /\ timeouts' = timeouts
      /\ agent_session' = agent_session /\ agent_epoch' = agent_epoch
      /\ agent_eps' = agent_eps /\ result' = result
  BY DEF Register, NewSession, link_vars, agent_vars
<1>2. GrantTypeOK /\ Machine \in Machines /\ Session \in Nat
  BY DEF Sound, GrantsSound, GrantTypeOK, Session, EnforcementConstants
<1>3. Known' = Known /\ Session' = Session + 1
  <2>1. Session' = Session + 1
    BY <1>1, <1>2 DEF Session, GrantTypeOK
  <2> QED
    BY <1>1, <2>1, Zenon DEF Known
<1>4. GrantTypeOK'
  BY <1>1, <1>2 DEF GrantTypeOK
<1>5. GrantsSound' /\ ProviderTyped'
  BY <1>1, <1>3, <1>4, Zenon DEF Sound, GrantsSound, ProviderTyped
<1>6. LinkTyped'
  BY <1>1, Zenon DEF Sound, LinkTyped
<1>7. \A r \in Elements(inbox') :
          /\ r.tag.binding \in Known' /\ r.tag.session <= Session'
          /\ r.tag.session # Session'
  <2> SUFFICES ASSUME NEW r \in Elements(inbox)
               PROVE  /\ r.tag.binding \in Known' /\ r.tag.session <= Session'
                      /\ r.tag.session # Session'
    BY <1>1, Zenon
  <2>1. r \in [tag : Job, reply : Result]
    BY QueueFacts, Zenon DEF Sound, LinkTyped
  <2>2. r.tag.session \in Nat
    BY <2>1 DEF Job
  <2>3. r.tag.binding \in Known /\ r.tag.session <= Session
    BY DEF Sound, TagsSound
  <2> QED
    BY <1>2, <1>3, <2>2, <2>3
<1>8. TagsSound'
  BY <1>7, Zenon DEF TagsSound, Elements
<1>9. /\ jobs' = <<>> /\ awaited' = None /\ wire' = <<>> /\ replies' = <<>>
      /\ \A k \in P!Keys : agent_eps'[k] = None
  BY <1>1, Zenon DEF Sound, IdleWhenDown
<1>10. \A r \in Elements(inbox)' : r.tag.session # Session'
  BY <1>7, Zenon DEF Elements
<1> QED
  BY <1>5, <1>6, <1>8, <1>9, <1>10, Zenon DEF Idle

-----------------------------------------------------------------------------
(* The lemmas of ProviderProofs about the agent's provider.                *)

PP == INSTANCE ProviderProofs WITH
    session <- agent_session, epoch <- agent_epoch,
    endpoints <- agent_eps, answer <- result, MaxSession <- MaxDialIns,
    Generations <- {}, MaxEpoch <- 1

\* Both instances of Provider define the same provider.
LEMMA SameProvider ==
    /\ PP!Keys = P!Keys /\ PP!Endpoint = P!Endpoint /\ PP!Generation = P!Generation
    /\ PP!EndpointOp = OrderKind
    /\ PP!Answer = P!Answer
    /\ \A g : PP!EndpointKey(g) = P!EndpointKey(g)
BY DEF PP!Keys, P!Keys, PP!Endpoint, P!Endpoint, PP!EndpointPhase, P!EndpointPhase,
       PP!Generation, P!Generation, PP!EndpointOp, OrderKind, PP!Answer, P!Answer,
       PP!EndpointKey, P!EndpointKey

\* The same for a request.
LEMMA SameApply ==
    ASSUME NEW op, NEW g, NEW s, NEW e, P!Apply(op, g, s, e)
    PROVE  PP!Apply(op, g, s, e)
<1>1. P!Outcome(op, g, s) = PP!Outcome(op, g, s)
  BY DEF P!Outcome, PP!Outcome, P!Met, PP!Met, P!Adopts, PP!Adopts,
         P!AcceptedEndpoints, PP!AcceptedEndpoints, P!EndpointKey, PP!EndpointKey,
         P!Keys, PP!Keys, P!Handshake, PP!Handshake, P!NewEndpoint, PP!NewEndpoint,
         P!Accepts, PP!Accepts, P!Applied, PP!Applied, P!CanPrepare, PP!CanPrepare,
         P!CanActivate, PP!CanActivate, P!Prepare, PP!Prepare, P!Activate, PP!Activate,
         P!Close, PP!Close
<1>2. P!AcceptedEndpoints(s) = PP!AcceptedEndpoints(s)
  BY DEF P!AcceptedEndpoints, PP!AcceptedEndpoints, P!Keys, PP!Keys,
         P!Handshake, PP!Handshake
<1>3. P!EndpointKey(g) = PP!EndpointKey(g) /\ P!Reply(op) = PP!Reply(op)
  BY DEF P!EndpointKey, PP!EndpointKey, P!Reply, PP!Reply
<1>4. P!Current(s, e) => PP!Current(s, e)
  BY DEF P!Current, PP!Current
<1> QED
  BY <1>1, <1>2, <1>3, <1>4, Zenon DEF P!Apply, PP!Apply

\* apply serves a request: ApplyEndpoint and ApplyStep of ProviderProofs.
LEMMA ApplyServes ==
    ASSUME EnforcementConstants, ProviderTyped, NEW op \in OrderKind,
           NEW g \in P!Generation, NEW s \in Nat, P!Apply(op, g, s, Epoch),
           NEW k, k = P!EndpointKey(g)
    PROVE  Served(op, k, g.binding, g.fence)
<1>1. /\ {} \subseteq PP!Generation
      /\ \A h \in {} : h.fence > 0
      /\ \A h, i \in {} :
             \/ h.binding = i.binding
             \/ PP!EndpointKey(h) = PP!EndpointKey(i) /\ h.fence = i.fence
             => h = i
      /\ None \notin Bindings /\ None \notin PP!Endpoint
      /\ MaxDialIns \in Nat /\ 1 \in Nat
  BY SameProvider DEF EnforcementConstants
<1>2. PP!ProviderTypeOK
  BY SameProvider DEF ProviderTyped, PP!ProviderTypeOK, Result
<1>3. PP!Apply(op, g, s, Epoch) /\ op \in PP!EndpointOp /\ g \in PP!Generation /\ Epoch \in Nat
  BY SameApply, SameProvider DEF Epoch
<1>4. k = PP!EndpointKey(g) /\ k \in PP!Keys
  BY <1>1, <1>3, SameProvider, PP!KeyTyped
<1>5. /\ s >= agent_session /\ agent_session' = s /\ agent_epoch' = Epoch
      /\ DOMAIN agent_eps' = PP!Keys
      /\ \A q \in PP!Keys \ {PP!EndpointKey(g)} : PP!Kept(q)
  BY <1>1, <1>2, <1>3, PP!ApplyStep
<1>6. /\ agent_eps'[k] \in PP!Endpoint
      /\ agent_eps[k] # None => agent_eps'[k].accepted_fence >= agent_eps[k].accepted_fence
      /\ \/ agent_eps[k] # None /\ PP!Kept(k)
         \/ /\ ~agent_eps'[k].open
            /\ agent_eps'[k].binding = None /\ agent_eps'[k].phase = "Idle"
         \/ /\ PP!HoldsAt(agent_eps'[k], g.binding, g.fence) /\ agent_eps'[k].phase # "Idle"
            /\ op \in {"Prepare", "Activate"}
            /\ agent_eps'[k].phase = "Active" => op = "Activate"
      /\ agent_eps[k] # None /\ PP!HoldsAt(agent_eps'[k], g.binding, g.fence) =>
             \/ agent_eps[k].accepted_fence < g.fence
             \/ PP!HoldsAt(agent_eps[k], g.binding, g.fence)
      /\ result'.kind \in {"Prepared", "Activated"} =>
             PP!HoldsAt(agent_eps'[k], g.binding, g.fence)
      /\ result'.kind \in {"Released", "Fenced"} =>
             \/ ~agent_eps'[k].open /\ agent_eps'[k].accepted_fence = g.fence
             \/ agent_eps'[k].accepted_fence > g.fence
      /\ result' \in [kind : PP!Answer, binding : Bindings]
  BY <1>1, <1>2, <1>3, <1>4, PP!ApplyEndpoint
<1>7. \A q \in P!Keys : PP!Kept(q) =>
          Undisturbed(q) /\ agent_eps'[q] \in P!Endpoint \cup {None}
  BY SameProvider, Zenon DEF PP!Kept, PP!Same, Undisturbed
<1>8. \A q \in P!Keys : agent_eps'[q] \in P!Endpoint \cup {None}
  BY <1>4, <1>5, <1>6, <1>7, SameProvider, Zenon
<1>9. agent_eps' \in [P!Keys -> P!Endpoint \cup {None}]
  <2>1. PICK y : agent_eps' = [P!AcceptedEndpoints(s) EXCEPT ![k] = y]
    BY DEF P!Apply
  <2>2. agent_eps' = [q \in P!Keys |-> agent_eps'[q]]
    BY <2>1, Zenon DEF P!AcceptedEndpoints
  <2> QED
    BY <1>8, <2>2, Zenon
<1>10. ProviderTyped' /\ result' \in Result
  BY <1>3, <1>5, <1>6, <1>9, SameProvider DEF ProviderTyped, Result
<1> QED
  BY <1>4, <1>5, <1>6, <1>7, <1>10, SameProvider, Zenon DEF Served, HoldsAt, PP!HoldsAt

\* The agent handles the next request: it serves it, or refuses it as stale.
LEMMA HandleKeeps ==
    ASSUME EnforcementConstants, Sound, Handle
    PROVE  Sound' /\ (Linked => Linked')
<1>1. PICK j : j = Head(wire)
  OBVIOUS
<1>2. /\ wire # <<>> /\ UNCHANGED grant_vars
      /\ \/ P!Apply(j.kind, GenerationOf(j), j.session, Epoch)
         \/ P!Refuse(j.kind, GenerationOf(j), j.session, Epoch)
  BY <1>1, Zenon DEF Handle
<1>3. j \in Job /\ j \in Elements(wire)
  BY <1>1, <1>2, QueueFacts, Zenon DEF Sound, LinkTyped
<1>4. JobSound(j)
  BY <1>3, Zenon DEF Sound, Pending
<1>5. j.binding \in Known /\ j.session = Session /\ j.fence = grants[j.binding].fence
  BY <1>4, Zenon DEF JobSound
<1>6. GenerationOf(j) = GrantedGen(j.binding) /\ j.kind \in OrderKind
  BY <1>3, <1>5 DEF GenerationOf, GrantedGen, Job
<1>7. CASE P!Refuse(j.kind, GenerationOf(j), j.session, Epoch)
  BY <1>1, <1>2, <1>4, <1>5, <1>6, <1>7, RefuseEffect, EffectKeeps, Zenon
<1>8. CASE P!Apply(j.kind, GenerationOf(j), j.session, Epoch)
  <2> DEFINE g == GrantedGen(j.binding)
             k == KeyOf(j.binding)
  <2>1. g \in P!Generation /\ k = P!EndpointKey(g)
    BY <1>5, GenerationTyped, Zenon DEF Sound, KeyOf
  <2>2. g.binding = j.binding /\ g.fence = grants[j.binding].fence
    BY DEF GrantedGen
  <2>3. ProviderTyped /\ Session \in Nat
    BY DEF Sound, GrantsSound, GrantTypeOK, Session, EnforcementConstants
  <2>4. P!Apply(j.kind, g, Session, Epoch)
    BY <1>5, <1>6, <1>8, Zenon
  <2> HIDE DEF g, k
  <2>5. Served(j.kind, k, g.binding, g.fence)
    BY <1>6, <2>1, <2>3, <2>4, ApplyServes, Zenon
  <2>6. Served(j.kind, KeyOf(j.binding), j.binding, grants[j.binding].fence)
    BY <2>2, <2>5, Zenon DEF k
  <2> QED
    BY <1>1, <1>2, <1>4, <1>5, <1>6, <2>6, ServedEffect, EffectKeeps, Zenon
<1> QED
  BY <1>2, <1>7, <1>8

-----------------------------------------------------------------------------
(* The theorems.                                                           *)

\* A step that changes nothing.
LEMMA StutterKeeps ==
    ASSUME UNCHANGED enforcement_vars
    PROVE  (Sound => Sound') /\ (Linked => Linked') /\ ConfirmsAccepted
<1>1. /\ grant_state' = grant_state /\ grants' = grants /\ serving' = serving
      /\ confirmed' = confirmed /\ sessions' = sessions /\ watermark' = watermark
      /\ orders' = orders /\ connected' = connected /\ jobs' = jobs /\ awaited' = awaited
      /\ wire' = wire /\ replies' = replies /\ inbox' = inbox /\ timeouts' = timeouts
      /\ agent_session' = agent_session /\ agent_epoch' = agent_epoch
      /\ agent_eps' = agent_eps /\ result' = result
  BY DEF enforcement_vars, grant_vars, link_vars, agent_vars
<1>2. /\ Known' = Known /\ Session' = Session /\ OpenGrants' = OpenGrants /\ Pending' = Pending
      /\ \A b : GrantedGen(b)' = GrantedGen(b)
  BY <1>1, Zenon DEF Known, Session, OpenGrants, Pending, GrantedGen
<1>3. \A b : /\ P!Holds(GrantedGen(b))' <=> P!Holds(GrantedGen(b))
             /\ P!Passed(GrantedGen(b))' <=> P!Passed(GrantedGen(b))
             /\ EndpointOf(b)' = EndpointOf(b)
             /\ \A kind : TrueAnswer(b, kind)' <=> TrueAnswer(b, kind)
  BY <1>1, KeptGrant, Zenon
<1>4. ASSUME Sound PROVE Sound'
  <2>1. GrantTypeOK'
    BY <1>1, <1>4 DEF Sound, GrantsSound, GrantTypeOK
  <2>2. GrantsSound' /\ LinkTyped' /\ ProviderTyped' /\ IdleWhenDown'
    BY <1>1, <1>2, <1>4, <2>1, Zenon DEF Sound, GrantsSound, LinkTyped, ProviderTyped, IdleWhenDown
  <2>3. TagsSound' /\ EndpointsKnown' /\ \A j \in Pending' : JobSound(j)'
    BY <1>1, <1>2, <1>4, Zenon DEF Sound, TagsSound, EndpointsKnown, JobSound
  <2>4. ActivatedWasConfirmed'
    BY <1>1, <1>2, <1>3, <1>4, Zenon DEF Sound, ActivatedWasConfirmed, Held
  <2> QED
    BY <2>2, <2>3, <2>4, Zenon DEF Sound
<1>5. ASSUME Linked PROVE Linked'
  <2>1. Paired' /\ ClosedIsPassed' /\ InboxTrue'
    BY <1>1, <1>2, <1>3, <1>5, Zenon DEF Linked, Paired, ClosedIsPassed, InboxTrue
  <2>2. HeldIsGranted'
    BY <1>2, <1>3, <1>5, Zenon DEF Linked, HeldIsGranted, Held
  <2> QED
    BY <2>1, <2>2, Zenon DEF Linked
<1> QED
  BY <1>1, <1>4, <1>5, Zenon DEF ConfirmsAccepted

\* Every step keeps the first part of the invariant, and one after which no
\* call has timed out keeps the second.
LEMMA StepKeeps ==
    ASSUME EnforcementConstants, Sound, [EnforcementNext]_enforcement_vars
    PROVE  Sound' /\ (Linked /\ timeouts' = 0 => Linked')
<1>1. CASE UNCHANGED enforcement_vars
  BY <1>1, StutterKeeps
<1>2. ASSUME NEW b \in Bindings, Command(b) PROVE Sound' /\ (Linked => Linked')
  BY <1>2, CommandStep, ControllerSound, ControllerLinked, Zenon
<1>3. CASE Absorb
  BY <1>3, AbsorbStep, ControllerSound, ControllerLinked, Zenon
<1>4. CASE Timeout
  <2>1. timeouts \in Nat /\ timeouts' = timeouts + 1
    BY <1>4 DEF Timeout, Sound, LinkTyped
  <2> QED
    BY <1>4, <2>1, TimeoutKeeps
<1>5. CASE Disconnect
  BY <1>5, DisconnectIdles, IdleKeepsNext, Zenon
<1>6. CASE Register
  BY <1>6, RegisterIdles, IdleKeepsNext, Zenon
<1> QED
  BY <1>1, <1>2, <1>3, <1>4, <1>5, <1>6, SendKeeps, ReceiveKeeps, HandleKeeps, Zenon
     DEF EnforcementNext

\* An endpoint that the agent holds active belongs to a binding that the
\* kernel had recorded as prepared, whatever calls fail, time out or are cut
\* off (ActivatedWasConfirmed).
THEOREM ActivationFollowsPrepare ==
    ASSUME EnforcementConstants
    PROVE  EnforcementSpec => []ActivatedWasConfirmed
<1>1. EnforcementInit => Sound
  BY InitIdle, IdleKeeps
<1>2. Sound /\ [EnforcementNext]_enforcement_vars => Sound'
  BY StepKeeps
<1>3. Sound => ActivatedWasConfirmed
  BY DEF Sound
<1> QED
  BY <1>1, <1>2, <1>3, PTL DEF EnforcementSpec

\* The invariant of the executions in which no call times out.
LEMMA LinkedHolds ==
    ASSUME EnforcementConstants
    PROVE  EnforcementSpec /\ [](timeouts = 0) => [](Sound /\ Linked)
<1>1. EnforcementInit => Sound /\ Linked
  BY InitIdle, IdleKeeps
<1>2. /\ Sound /\ Linked /\ [EnforcementNext]_enforcement_vars /\ (timeouts = 0)'
      => Sound' /\ Linked'
  BY StepKeeps
<1> QED
  BY <1>1, <1>2, PTL DEF EnforcementSpec

\* As long as no call times out, what the agent holds is granted: a binding
\* that the kernel has recorded Released or Fenced is not held any more
\* (HeldIsGranted).  A call that times out breaks it (run late_two).
THEOREM RecordedReleaseIsReal ==
    ASSUME EnforcementConstants
    PROVE  EnforcementSpec /\ [](timeouts = 0) => []HeldIsGranted
<1>1. Sound /\ Linked => HeldIsGranted
  BY DEF Linked
<1> QED
  BY <1>1, LinkedHolds, PTL

\* As long as no call times out, a binding is recorded as prepared only when
\* the agent that is connected has accepted its fence (ConfirmedIsAccepted).
THEOREM ConfirmationIsReal ==
    ASSUME EnforcementConstants
    PROVE  EnforcementSpec /\ [](timeouts = 0) => ConfirmedIsAccepted
<1>1. Sound /\ Linked /\ [EnforcementNext]_enforcement_vars
      => [ConfirmsAccepted]_enforcement_vars
  <2> SUFFICES ASSUME Sound, Linked, [EnforcementNext]_enforcement_vars,
                      NEW b \in confirmed' \ confirmed, connected
               PROVE  AcceptedFence(b)
    BY Zenon DEF ConfirmsAccepted, AcceptedFence
  <2>1. confirmed' # confirmed
    BY Zenon
  <2>2. \A c \in Bindings : ~Command(c)
    BY <2>1, Zenon DEF Command, GrantEndpoint, Tell, ActivateGrant, FailGrant
  <2>3. ~(UNCHANGED grant_vars)
    BY <2>1 DEF grant_vars
  <2>4. Absorb
    BY <2>1, <2>2, <2>3 DEF EnforcementNext, enforcement_vars, Send, Receive, Timeout, Handle,
                            Disconnect, Register, NewSession
  <2> DEFINE r == Head(inbox)
  <2>5. /\ r \in Elements(inbox) /\ (Accepted(r) => r.tag.session = Session)
        /\ Accepted(r) /\ Settle(r.tag.binding, r.tag.session, r.reply.kind)
    BY <2>3, <2>4, NextAnswer DEF Absorb
  <2> HIDE DEF r
  <2>6. r.reply.kind = "Prepared" /\ confirmed' = confirmed \cup {r.tag.binding}
    BY <2>1, <2>3, <2>5, Zenon DEF Settle, ConfirmGrant, CloseGrant, FailGrant
  <2>7. b = r.tag.binding
    BY <2>6
  <2> QED
    BY <2>5, <2>6, <2>7, Zenon DEF Linked, InboxTrue, TrueAnswer
<1> QED
  BY <1>1, LinkedHolds, PTL DEF EnforcementSpec, ConfirmedIsAccepted
=============================================================================
