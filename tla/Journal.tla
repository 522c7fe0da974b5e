------------------------------- MODULE Journal -------------------------------
(***************************************************************************)
(* What survives a crash of the controller: the journal (log.rs), the      *)
(* snapshot, boot and compaction of the control plane (server.rs), and the *)
(* order in which NodeService changes, persists and acknowledges its state *)
(* (service.rs: commit, persist, submit, admit_one, replay, restore).      *)
(*                                                                         *)
(* The cluster is the sequence of its committed commands: a command is the *)
(* lease it opens, or 0.  The kernel is deterministic and accepts on       *)
(* replay what it accepted before.  A crash ends the process at any point  *)
(* and forgets whatever was not synced.                                    *)
(***************************************************************************)
EXTENDS Naturals, Sequences

CONSTANTS
    None,           \* no snapshot, no record, no state
    Corrupt,        \* a line that does not parse
    LegacyLogs,     \* command-only logs a first boot may find
    V1Snapshots,    \* version-1 snapshots a first boot may find
    CompactEvery,   \* records between compactions
    MaxLease,       \* bound on lease identities
    MaxRequest,     \* bound on request identities
    MaxSequence     \* bound on journal records

VARIABLES
    log,            \* the lines of the journal file
    torn,           \* the file ends in an incomplete line
    snapshot,       \* the snapshot file as the process sees it
    durable,        \* the snapshot file as a crash may leave it
    phase,          \* the controller process
    cluster, state, \* the kernel and the controller's desired state
    sequence,       \* the newest journal record
    compacted,      \* the newest record that the log no longer needs
    position,       \* boot: the next line to replay
    writing,        \* the record being appended, not yet synced
    last_state,     \* the state of the newest record, None after boot
    compacting,     \* the next step of a compaction
    accepted,       \* history: requests whose submission was acknowledged
    acted           \* history: commands whose effects may be under way

disk_vars    == <<log, torn, snapshot, durable>>
memory_vars  == <<cluster, state, sequence, compacted, position, last_state>>
promise_vars == <<accepted, acted>>

journal_vars == <<disk_vars, phase, memory_vars, writing, compacting, promise_vars>>

-----------------------------------------------------------------------------

Lease    == 1 .. MaxLease
Request  == 1 .. MaxRequest
Command  == {0} \cup Lease
Sequence == 0 .. MaxSequence

\* The queue, the payloads of admitted leases, and the identity allocators.
ServiceState == [queue : SUBSET Request, requests : SUBSET (Lease \X Request),
                 next_lease : 1 .. MaxLease + 1, next_request : 1 .. MaxRequest + 1]

NewState == [queue |-> {}, requests |-> {}, next_lease |-> 1, next_request |-> 1]

\* Legacy records are bare commands, with no sequence number and no state.
Legacy(c)     == [sequence |-> 0, command |-> c, state |-> None]
JournalRecord == [sequence : Sequence, command : Command \cup {None},
                  state : ServiceState \cup {None}]

SnapshotEnvelope == [version : {1, 2}, sequence : Sequence, cluster : Seq(Command),
                     state : ServiceState]

\* The cluster opens no lease twice.
OpensOnce(q) == \A i, j \in DOMAIN q : q[i] \in Lease /\ q[i] = q[j] => i = j

\* The allocators are past every identity in use; a request waits in the
\* queue or is the payload of one lease, which the cluster opened.
Consistent(q, st) ==
    /\ OpensOnce(q) /\ \A i \in DOMAIN q : q[i] < st.next_lease
    /\ \A r \in st.queue : r < st.next_request
    /\ \A p \in st.requests :
           /\ p[2] < st.next_request /\ p[2] \notin st.queue
           /\ \E i \in DOMAIN q : q[i] = p[1]
           /\ \A o \in st.requests : o[2] = p[2] => o = p

ASSUME JournalAssumption ==
    /\ MaxLease \in Nat /\ MaxRequest \in Nat /\ MaxSequence \in Nat
    /\ CompactEvery \in Nat
    /\ None \notin SnapshotEnvelope /\ None \notin JournalRecord /\ None \notin Command
    /\ Corrupt \notin JournalRecord
    /\ \A l \in LegacyLogs : l \in Seq(Command) /\ \A i \in DOMAIN l : l[i] <= MaxRequest
    /\ V1Snapshots \subseteq SnapshotEnvelope
    /\ \A s \in V1Snapshots : s.version = 1 /\ s.sequence = 0

\* The files of an older version are those of a controller that ran.
ASSUME OldFilesAssumption ==
    /\ \A l \in LegacyLogs : OpensOnce(l)
    /\ \A s \in V1Snapshots : Consistent(s.cluster, s.state)

JournalTypeOK ==
    /\ log \in Seq(JournalRecord) /\ torn \in BOOLEAN
    /\ snapshot \in SnapshotEnvelope \cup {None}
    /\ durable \in SnapshotEnvelope \cup {None}
    /\ phase \in {"Down", "Booting", "Up", "Refused"}
    /\ cluster \in Seq(Command) /\ state \in ServiceState
    /\ sequence \in Sequence /\ compacted \in Sequence
    /\ position \in Nat
    /\ writing \in JournalRecord \cup {None}
    /\ last_state \in ServiceState \cup {None}
    /\ compacting \in {"Idle", "Sync", "Truncate"}
    /\ accepted \subseteq Request /\ acted \in Seq(Command)

JournalInit ==
    /\ \E l \in LegacyLogs : log = [i \in DOMAIN l |-> Legacy(l[i])]
    /\ torn = FALSE
    /\ snapshot \in V1Snapshots \cup {None} /\ durable = snapshot
    /\ phase = "Down"
    /\ cluster = <<>> /\ state = NewState
    /\ sequence = 0 /\ compacted = 0 /\ position = 1
    /\ writing = None /\ last_state = None /\ compacting = "Idle"
    /\ accepted = {} /\ acted = <<>>

-----------------------------------------------------------------------------
(* Boot: restore the snapshot, then replay the journal line by line.       *)

IsV2(s) == s # None /\ s.version = 2

\* Opening the journal syncs the directory; an incomplete line is cut off.
Boot ==
    /\ phase = "Down"
    /\ phase' = "Booting"
    /\ torn' = FALSE
    /\ durable' = snapshot
    /\ cluster' = IF snapshot = None THEN <<>> ELSE snapshot.cluster
    /\ state' = IF snapshot = None THEN NewState ELSE snapshot.state
    /\ sequence' = IF snapshot = None THEN 0 ELSE snapshot.sequence
    /\ compacted' = sequence'
    /\ position' = 1 /\ last_state' = None
    /\ UNCHANGED <<log, snapshot, writing, compacting, promise_vars>>

\* Mutant: the snapshot's cursor is not compared.
CoveredLegacy(r) == r.sequence = 0 /\ IsV2(snapshot)

\* The snapshot already includes the line: its truncation was interrupted.
Covered(r) == IF r.sequence = 0 THEN IsV2(snapshot) ELSE r.sequence <= compacted

\* A bare command must come before every sequenced record, and opens no
\* lease after a version-1 snapshot; sequence numbers have no gap.
Replayable(r) ==
    /\ r # Corrupt
    /\ r.sequence = 0 => sequence = 0 /\ (snapshot # None => r.command = 0)
    /\ r.sequence # 0 => r.sequence = sequence + 1

AtLeast(n, m) == IF n > m THEN n ELSE m

\* Mutant: a bare command does not raise the allocators.
RestoredStateFlat(r) == IF r.sequence # 0 THEN r.state ELSE state

\* A bare command raises the allocators past the lease it opens; a sequenced
\* record brings the exact state.
RestoredState(r) ==
    IF r.sequence # 0 THEN r.state
    ELSE [state EXCEPT !.next_lease = AtLeast(@, r.command + 1),
                       !.next_request = AtLeast(@, r.command + 1)]

ReplayLine ==
    LET r == log[position]
    IN  /\ phase = "Booting" /\ position <= Len(log)
        /\ \/ /\ r # Corrupt /\ Covered(r)
              /\ UNCHANGED <<phase, cluster, state, sequence>>
           \/ /\ r # Corrupt /\ ~Covered(r) /\ Replayable(r)
              /\ cluster' = IF r.command = None THEN cluster
                                                ELSE Append(cluster, r.command)
              /\ state' = RestoredState(r)
              /\ sequence' = r.sequence
              /\ UNCHANGED phase
           \/ /\ r = Corrupt \/ (~Covered(r) /\ ~Replayable(r))
              /\ phase' = "Refused"
              /\ UNCHANGED <<cluster, state, sequence>>
        /\ position' = position + 1
        /\ UNCHANGED <<disk_vars, compacted, last_state, writing, compacting,
                       promise_vars>>

\* The journal is replayed and the sink installed: the controller serves.
Serve ==
    /\ phase = "Booting" /\ position > Len(log)
    /\ phase' = "Up"
    /\ position' = 1
    /\ UNCHANGED <<disk_vars, cluster, state, sequence, compacted, last_state,
                   writing, compacting, promise_vars>>

-----------------------------------------------------------------------------
(* Service.  The controller holds one lock from the change of its state    *)
(* until the record of the change is synced, and during a compaction.      *)

Ready == phase = "Up" /\ writing = None /\ compacting = "Idle"

\* Mutant: a command that leaves the state as it is gets no record.
PersistChanged(c, st) ==
    /\ writing' = IF st = last_state THEN None
                  ELSE [sequence |-> sequence + 1, command |-> c, state |-> st]
    /\ st # last_state => sequence < MaxSequence

\* The sink appends a record of a command, or of a state that differs from
\* the newest record's.
Persist(c, st) ==
    /\ writing' = IF c = None /\ st = last_state THEN None
                  ELSE [sequence |-> sequence + 1, command |-> c, state |-> st]
    /\ c # None \/ st # last_state => sequence < MaxSequence

\* A workload is queued; the client is answered once the record is synced.
Submit ==
    /\ Ready /\ state.next_request <= MaxRequest
    /\ state' = [state EXCEPT !.queue = @ \cup {state.next_request},
                              !.next_request = @ + 1]
    /\ Persist(None, state')
    /\ UNCHANGED <<disk_vars, phase, cluster, sequence, compacted, position,
                   last_state, compacting, promise_vars>>

\* Reconciliations that found nothing to change persist as well.
PersistUnchanged ==
    /\ Ready
    /\ Persist(None, state)
    /\ UNCHANGED <<disk_vars, phase, memory_vars, compacting, promise_vars>>

\* Mutant: the request leaves the queue after the command was recorded.
AdmittedLater(r) ==
    [state EXCEPT !.requests = @ \cup {<<state.next_lease, r>>},
                  !.next_lease = @ + 1]

\* The request leaves the queue for the payload of the new lease.
Admitted(r) ==
    [state EXCEPT !.queue = @ \ {r},
                  !.requests = @ \cup {<<state.next_lease, r>>},
                  !.next_lease = @ + 1]

\* admit_one: the OpenLease record carries the state after admission.
AdmitOne(r) ==
    /\ Ready /\ r \in state.queue /\ state.next_lease <= MaxLease
    /\ cluster' = Append(cluster, state.next_lease)
    /\ state' = Admitted(r)
    /\ Persist(state.next_lease, state')
    /\ UNCHANGED <<disk_vars, phase, sequence, compacted, position, last_state,
                   compacting, promise_vars>>

\* The kernel refuses the lease: everything but its identity is put back,
\* and nothing is recorded.
AdmitRefused(r) ==
    /\ Ready /\ r \in state.queue /\ state.next_lease <= MaxLease
    /\ state' = [state EXCEPT !.next_lease = @ + 1]
    /\ UNCHANGED <<disk_vars, phase, cluster, sequence, compacted, position,
                   last_state, writing, compacting, promise_vars>>

\* Any other accepted command.
CommitOther ==
    /\ Ready
    /\ cluster' = Append(cluster, 0)
    /\ Persist(0, state)
    /\ UNCHANGED <<disk_vars, phase, state, sequence, compacted, position,
                   last_state, compacting, promise_vars>>

\* Bytes appended to an incomplete line make one line that does not parse.
Appended(r) == Append(log, IF torn THEN Corrupt ELSE r)

\* The append is synced: effects are sent and the client is answered.
SyncRecord ==
    /\ phase = "Up" /\ writing # None
    /\ log' = Appended(writing)
    /\ torn' = FALSE
    /\ sequence' = writing.sequence
    /\ last_state' = writing.state
    /\ writing' = None
    /\ accepted' = accepted \cup state.queue \cup {p[2] : p \in state.requests}
    /\ acted' = cluster
    /\ UNCHANGED <<snapshot, durable, phase, cluster, state, compacted, position,
                   compacting>>

-----------------------------------------------------------------------------
(* Compaction: write the new snapshot beside the old one, rename it, sync  *)
(* the directory, truncate the journal.                                    *)

Envelope == [version |-> 2, sequence |-> sequence, cluster |-> cluster,
             state |-> state]

RenameSnapshot ==
    /\ Ready
    /\ CompactEvery > 0 /\ sequence - compacted >= CompactEvery
    /\ snapshot' = Envelope
    /\ compacting' = "Sync"
    /\ UNCHANGED <<log, torn, durable, phase, memory_vars, writing, promise_vars>>

SyncParent ==
    /\ phase = "Up" /\ compacting = "Sync"
    /\ durable' = snapshot
    /\ compacting' = "Truncate"
    /\ UNCHANGED <<log, torn, snapshot, phase, memory_vars, writing, promise_vars>>

Truncate ==
    /\ phase = "Up" /\ compacting = "Truncate"
    /\ log' = <<>> /\ torn' = FALSE
    /\ compacted' = snapshot.sequence
    /\ compacting' = "Idle"
    /\ UNCHANGED <<snapshot, durable, phase, cluster, state, sequence, position,
                   last_state, writing, promise_vars>>

\* An I/O error ends the compaction, also one after the truncation; the
\* controller goes on.
CompactFails ==
    /\ phase = "Up" /\ compacting # "Idle"
    /\ log' = log \/ (compacting = "Truncate" /\ log' = <<>>)
    /\ compacting' = "Idle"
    /\ UNCHANGED <<torn, snapshot, durable, phase, memory_vars, writing, promise_vars>>

-----------------------------------------------------------------------------

\* The process ends, or exits because an append failed.  The line being
\* written is lost, incomplete or whole; a rename may be undone.
Crash ==
    /\ phase # "Down"
    /\ phase' = "Down"
    /\ \/ log' = log /\ torn' = torn
       \/ writing # None /\ log' = log /\ torn' = TRUE
       \/ writing # None /\ log' = Appended(writing) /\ torn' = FALSE
    /\ snapshot' \in {snapshot, durable}
    /\ cluster' = <<>> /\ state' = NewState
    /\ sequence' = 0 /\ compacted' = 0 /\ position' = 1 /\ last_state' = None
    /\ writing' = None /\ compacting' = "Idle"
    /\ UNCHANGED <<durable, promise_vars>>

JournalNext ==
    \/ Boot \/ ReplayLine \/ Serve
    \/ Submit \/ PersistUnchanged \/ CommitOther \/ SyncRecord
    \/ \E r \in Request : AdmitOne(r) \/ AdmitRefused(r)
    \/ RenameSnapshot \/ SyncParent \/ Truncate \/ CompactFails
    \/ Crash

JournalSpec == JournalInit /\ [][JournalNext]_journal_vars

-----------------------------------------------------------------------------
(* Safety.                                                                 *)

Opened(l) == {i \in DOMAIN cluster : cluster[i] = l}

\* Whatever the controller acted on is still committed after any number of
\* crashes, in the same order, and nothing was slipped in before it
\* (append_value, boot, compact).
ActedSurvives ==
    phase = "Up" => /\ Len(acted) <= Len(cluster)
                    /\ \A i \in DOMAIN acted : cluster[i] = acted[i]

\* An acknowledged request is never lost and never admitted twice: it waits
\* in the queue, or one lease of the cluster carries it (submit, admit_one,
\* restore_state).
AdmittedExactlyOnce ==
    phase = "Up" => \A r \in accepted :
        LET carriers == {l \in Lease : <<l, r>> \in state.requests /\ Opened(l) # {}}
        IN  IF r \in state.queue THEN carriers = {}
            ELSE \E l \in Lease : carriers = {l}

\* No lease is opened twice, and the next one gets an identity that no lease
\* had before the crash (replay, restore_state).
LeaseIdentitiesFresh ==
    phase = "Up" => \A l \in Lease :
        \A i, j \in Opened(l) : i = j /\ l < state.next_lease

\* The controller boots from whatever files it left itself.  It refuses only
\* an older version's files whose lineage is unknown (boot, read_records).
BootsAgain ==
    phase = "Refused" =>
        /\ snapshot \in V1Snapshots
        /\ \E i \in DOMAIN log :
               log[i] # Corrupt /\ log[i].sequence = 0 /\ log[i].command # 0
=============================================================================
