-------------------------------- MODULE Facts --------------------------------
(***************************************************************************)
(* The facts of the resource graph and who may change them (crates/kernel/ *)
(* src/graph.rs, with the commands of cluster.rs that carry them).         *)
(*                                                                         *)
(* A node's facts are one value, an edge is [from, to, kind] without its   *)
(* attributes; "connected" stands for the kinds other than Contains.  None *)
(* stands for a fact, a writer or a contract that is absent.  One claim    *)
(* contract per node stands for the one of each dimension.  A refused      *)
(* update, which includes every one while the cluster is not agreed,       *)
(* changes nothing and is a stuttering step; so is one that the kernel     *)
(* refuses because of what leases hold (install_resource_graph).           *)
(***************************************************************************)
EXTENDS Naturals, Sequences, FiniteSets

CONSTANTS
    Ids, Writers, Contracts, Healths, None,
    Values,         \* what the facts of a node may be
    Claimable,      \* the values with positive capacity
    Updates,        \* [nodes, edges] of unowned updates; nodes: id -> value
    Batches,        \* [writer, nodes, edges] of a provider's fragments
    Changes,        \* claim-contract updates: id -> contract, or None to remove it
    Assignments,    \* [writer, nodes, edges]: what is adopted; nodes: a set
    MaxBatches,     \* bound on the fragments of one update
    MaxRevision     \* bound on the revision

Edges == [from : Ids, to : Ids, kind : {"contains", "connected"}]

Partial(D, R) == UNION {[S -> R] : S \in SUBSET D}

ASSUME FactsAssumption ==
    /\ None \notin Values \cup Writers \cup Contracts \cup Healths
    /\ Claimable \subseteq Values
    /\ Updates \subseteq [nodes : Partial(Ids, Values), edges : SUBSET Edges]
    /\ Batches \subseteq [writer : Writers, nodes : Partial(Ids, Values), edges : SUBSET Edges]
    /\ Changes \subseteq Partial(Ids, Contracts \cup {None})
    /\ Assignments \subseteq [writer : Writers, nodes : SUBSET Ids, edges : SUBSET Edges]
    /\ MaxBatches \in Nat /\ MaxRevision \in Nat

VARIABLES
    facts,          \* id -> value or None
    edges,          \* the stored edges
    contract,       \* id -> claim contract or None
    nodeWriter,     \* id -> writer or None
    edgeWriter,     \* edge -> writer or None
    health,         \* id -> observation or None
    revision

vars == <<facts, edges, contract, nodeWriter, edgeWriter, health, revision>>

Init ==
    /\ facts = [n \in Ids |-> None] /\ edges = {}
    /\ contract = [n \in Ids |-> None] /\ health = [n \in Ids |-> None]
    /\ nodeWriter = [n \in Ids |-> None] /\ edgeWriter = [e \in Edges |-> None]
    /\ revision = 0

-----------------------------------------------------------------------------

Known(f) == {n \in Ids : f[n] # None}

HasFactWriters ==
    (\E n \in Ids : nodeWriter[n] # None) \/ (\E e \in Edges : edgeWriter[e] # None)

Over(f, g) == [n \in Ids |-> IF n \in DOMAIN g THEN g[n] ELSE f[n]]

\* validate_contains: one container each, and no cycle (some node of every
\* set has no container in it).
ContainsValid(E) ==
    LET C == {e \in E : e.kind = "contains"}
    IN  /\ \A e \in C : e.from # e.to
        /\ \A e, g \in C : e.to = g.to => e.from = g.from
        /\ \A S \in SUBSET Ids \ {{}} :
               \E n \in S : \A e \in C : e.to = n => e.from \notin S

\* Mutant: only contracts that are new are looked at.
ContractsValidNew(f, c) ==
    \A n \in Ids : c[n] # None /\ contract[n] = None => f[n] \in Claimable

\* validate_claim_bindings
ContractsValid(f, c) == \A n \in Ids : c[n] # None => f[n] \in Claimable

Revised == revision < MaxRevision /\ revision' = revision + 1

\* apply_resource_facts: an unowned update with contracts; apply is the one
\* without.  Contracts are removed before and added after the facts.
ApplyResourceFacts(update, changes) ==
    LET f == Over(facts, update.nodes)
        c == Over(contract, changes)
    IN  /\ Revised
        /\ DOMAIN update.nodes # {} \/ update.edges # {} => ~HasFactWriters
        /\ \A e \in update.edges : {e.from, e.to} \subseteq Known(f)
        /\ \A n \in DOMAIN changes : n \in Known(IF changes[n] = None THEN facts ELSE f)
        /\ ContainsValid(edges \cup update.edges) /\ ContractsValid(f, c)
        /\ facts' = f /\ edges' = edges \cup update.edges /\ contract' = c
        /\ UNCHANGED <<nodeWriter, edgeWriter, health>>

\* Mutant: a fact without a writer is taken over.
MayWriteLegacy(batch) ==
    /\ \A n \in DOMAIN batch.nodes : nodeWriter[n] \in {None, batch.writer}
    /\ \A e \in batch.edges : edgeWriter[e] \in {None, batch.writer}

\* The writer owns every fact of the batch, or the fact is new.
MayWrite(batch) ==
    /\ \A n \in DOMAIN batch.nodes :
           nodeWriter[n] = batch.writer \/ (nodeWriter[n] = None /\ facts[n] = None)
    /\ \A e \in batch.edges :
           edgeWriter[e] = batch.writer \/ (edgeWriter[e] = None /\ e \notin edges)

NodesOf(batches, k) == UNION {DOMAIN batches[i].nodes : i \in 1 .. k}
EdgesOf(batches) == UNION {batches[i].edges : i \in DOMAIN batches}

\* No fact is named by two fragments of an update.
NamedOnce(batches) ==
    \A i, k \in DOMAIN batches :
        i # k => /\ DOMAIN batches[i].nodes \cap DOMAIN batches[k].nodes = {}
                 /\ batches[i].edges \cap batches[k].edges = {}

\* apply_provider_facts: fragments in order, each seeing the nodes of the
\* ones before it, in one revision.
ApplyProviderFacts(batches, changes) ==
    LET by(n) == CHOOSE i \in DOMAIN batches : n \in DOMAIN batches[i].nodes
        from(e) == CHOOSE i \in DOMAIN batches : e \in batches[i].edges
        N == NodesOf(batches, Len(batches))
        f == [n \in Ids |-> IF n \in N THEN batches[by(n)].nodes[n] ELSE facts[n]]
        c == Over(contract, changes)
    IN  /\ Revised
        /\ NamedOnce(batches) /\ \A i \in DOMAIN batches : MayWrite(batches[i])
        /\ \A i \in DOMAIN batches : \A e \in batches[i].edges :
               {e.from, e.to} \subseteq Known(facts) \cup NodesOf(batches, i)
        /\ \A n \in DOMAIN changes : n \in Known(IF changes[n] = None THEN facts ELSE f)
        /\ ContainsValid(edges \cup EdgesOf(batches)) /\ ContractsValid(f, c)
        /\ facts' = f /\ edges' = edges \cup EdgesOf(batches) /\ contract' = c
        /\ nodeWriter' = [n \in Ids |-> IF n \in N THEN batches[by(n)].writer ELSE nodeWriter[n]]
        /\ edgeWriter' = [e \in Edges |-> IF e \in EdgesOf(batches) THEN batches[from(e)].writer
                                                                    ELSE edgeWriter[e]]
        /\ UNCHANGED health

\* The facts exist and have no other writer.
MayAdopt(a) ==
    /\ \A n \in a.nodes : facts[n] # None /\ nodeWriter[n] \in {None, a.writer}
    /\ \A e \in a.edges : e \in edges /\ edgeWriter[e] \in {None, a.writer}

\* adopt_fact_writers
AdoptFactWriters(adopted) ==
    LET some == DOMAIN adopted
        by(n) == CHOOSE i \in some : n \in adopted[i].nodes
        from(e) == CHOOSE i \in some : e \in adopted[i].edges
    IN  /\ \A i, k \in some : i # k => /\ adopted[i].nodes \cap adopted[k].nodes = {}
                                       /\ adopted[i].edges \cap adopted[k].edges = {}
        /\ \A i \in some : MayAdopt(adopted[i])
        /\ nodeWriter' = [n \in Ids |-> IF \E i \in some : n \in adopted[i].nodes
                                        THEN adopted[by(n)].writer ELSE nodeWriter[n]]
        /\ edgeWriter' = [e \in Edges |-> IF \E i \in some : e \in adopted[i].edges
                                          THEN adopted[from(e)].writer ELSE edgeWriter[e]]
        /\ UNCHANGED <<facts, edges, contract, health, revision>>

\* set_node_health
SetObservation(n, h) ==
    /\ facts[n] # None
    /\ health' = [health EXCEPT ![n] = h]
    /\ UNCHANGED <<facts, edges, contract, nodeWriter, edgeWriter, revision>>

Next ==
    \/ \E update \in Updates, changes \in Changes : ApplyResourceFacts(update, changes)
    \/ \E k \in 0 .. MaxBatches : \E batches \in [1 .. k -> Batches], changes \in Changes :
           ApplyProviderFacts(batches, changes)
    \/ \E k \in 0 .. MaxBatches : \E adopted \in [1 .. k -> Assignments] :
           AdoptFactWriters(adopted)
    \/ \E n \in Ids, h \in Healths : SetObservation(n, h)

Spec == Init /\ [][Next]_vars

-----------------------------------------------------------------------------
(* Properties.                                                             *)

FactsTypeOK ==
    /\ facts \in [Ids -> Values \cup {None}] /\ edges \subseteq Edges
    /\ contract \in [Ids -> Contracts \cup {None}]
    /\ nodeWriter \in [Ids -> Writers \cup {None}]
    /\ edgeWriter \in [Edges -> Writers \cup {None}]
    /\ health \in [Ids -> Healths \cup {None}] /\ revision \in Nat

\* Writers own only what is stored, contracts bind only positive capacity,
\* and edges join stored nodes (apply_provider_facts, validate_claim_bindings).
Grounded ==
    /\ \A n \in Ids : nodeWriter[n] # None => facts[n] # None
    /\ \A e \in Edges : edgeWriter[e] # None => e \in edges
    /\ \A e \in edges : facts[e.from] # None /\ facts[e.to] # None
    /\ \A n \in Ids : contract[n] # None => facts[n] \in Claimable

\* A fact that has a writer keeps it (apply_provider_facts,
\* adopt_fact_writers).
WriterKept ==
    /\ \A n \in Ids : nodeWriter[n] # None => nodeWriter'[n] = nodeWriter[n]
    /\ \A e \in Edges : edgeWriter[e] # None => edgeWriter'[e] = edgeWriter[e]

WriterIsFinal == [][WriterKept]_vars

\* The facts of an owned node become only what a fragment of its writer
\* says, and once anything is owned a fact that nobody owns does not change
\* (apply, apply_provider_facts).
OwnedOrFrozen ==
    \A n \in Ids : facts'[n] # facts[n] =>
        /\ nodeWriter[n] # None =>
               \E b \in Batches : /\ b.writer = nodeWriter[n]
                                  /\ n \in DOMAIN b.nodes /\ b.nodes[n] = facts'[n]
        /\ HasFactWriters /\ nodeWriter[n] = None => facts[n] = None

OnlyOwnersWrite == [][OwnedOrFrozen]_vars

\* Ownership holds: what is owned stays owned, and only its owner changes it
\* (apply_provider_facts, adopt_fact_writers).
OwnershipKept == [][WriterKept /\ OwnedOrFrozen]_vars

\* Facts, edges and contracts change only with the revision, which
\* observations and adoption leave alone (apply, adopt_fact_writers,
\* set_observation).
RevisedWhenChanged ==
    /\ <<facts, edges, contract>>' # <<facts, edges, contract>> => revision' = revision + 1
    /\ health' # health => revision' = revision

RevisionCountsFacts == [][RevisedWhenChanged]_vars
=============================================================================
