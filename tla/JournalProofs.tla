---------------------------- MODULE JournalProofs ----------------------------
(***************************************************************************)
(* What the controller acted on survives every crash, it boots from        *)
(* whatever files it left, a request is admitted exactly once, and no      *)
(* lease identity is used twice, for every value of the constants.         *)
(***************************************************************************)
EXTENDS Journal, SequenceTheorems, TLAPS

USE DEF disk_vars, memory_vars, promise_vars

-----------------------------------------------------------------------------
(* Types.                                                                  *)

\* A sequenced record carries its state; a bare command is one of a legacy
\* log.
LineOK(r) ==
    /\ r \in JournalRecord
    /\ r.sequence # 0 => r.state \in ServiceState
    /\ r.sequence = 0 => r.command \in Command /\ r.command <= MaxRequest

\* A record without a command is told apart from every command.
LEMMA NoneIsNoCommand == \A c \in Command : c # None
BY JournalAssumption

\* What the phases exclude, beside the types.
JournalShape ==
    /\ JournalTypeOK
    /\ \A i \in 1 .. Len(log) : LineOK(log[i])
    /\ writing # None => phase = "Up" /\ LineOK(writing) /\ writing.sequence # 0
    /\ phase # "Down" => torn = FALSE
    /\ position # 0
    /\ compacting # "Idle" =>
           phase = "Up" /\ writing = None /\ snapshot \in SnapshotEnvelope

\* A new controller has an empty queue and fresh allocators.
LEMMA NewStateType == NewState \in ServiceState
BY JournalAssumption DEF NewState, ServiceState, Lease, Request

\* The parts of a state.
LEMMA PartTypes ==
    ASSUME NEW st \in ServiceState
    PROVE  /\ st.queue \in SUBSET Request /\ st.requests \in SUBSET (Lease \X Request)
           /\ st.next_lease \in 1 .. MaxLease + 1 /\ st.next_lease \in Nat
           /\ st.next_request \in 1 .. MaxRequest + 1 /\ st.next_request \in Nat
<1>1. /\ st.queue \in SUBSET Request /\ st.requests \in SUBSET (Lease \X Request)
      /\ st.next_lease \in 1 .. MaxLease + 1 /\ st.next_request \in 1 .. MaxRequest + 1
  BY DEF ServiceState
<1> QED  BY <1>1, JournalAssumption

\* The first files are those of an older version.
LEMMA InitShape == JournalInit => JournalShape
<1> SUFFICES ASSUME JournalInit PROVE JournalShape
  OBVIOUS
<1>1. PICK l \in LegacyLogs : log = [i \in DOMAIN l |-> Legacy(l[i])]
  BY Zenon DEF JournalInit
<1>2. /\ l \in Seq(Command) /\ Len(l) \in Nat /\ DOMAIN l = 1 .. Len(l)
      /\ \A i \in 1 .. Len(l) : l[i] \in Command /\ l[i] <= MaxRequest
  BY JournalAssumption
<1>3. \A c \in Command : c <= MaxRequest => LineOK(Legacy(c))
  BY JournalAssumption DEF LineOK, Legacy, JournalRecord, Sequence
<1>4. \A i \in 1 .. Len(l) : log[i] = Legacy(l[i]) /\ LineOK(log[i])
  BY <1>1, <1>2, <1>3, Zenon
<1>5. log \in [1 .. Len(l) -> JournalRecord]
  BY <1>1, <1>2, <1>4, Zenon DEF LineOK
<1>6. log \in Seq(JournalRecord) /\ Len(log) = Len(l)
  BY <1>2, <1>5
<1>7. snapshot \in SnapshotEnvelope \cup {None}
  BY JournalAssumption DEF JournalInit
<1>8. 0 \in Sequence /\ <<>> \in Seq(Command)
  BY JournalAssumption DEF Sequence
<1>9. JournalTypeOK
  BY <1>6, <1>7, <1>8, NewStateType DEF JournalInit, JournalTypeOK
<1> QED  BY <1>4, <1>6, <1>9 DEF JournalShape, JournalInit

\* A record that Persist prepares is sequenced and carries the new state.
LEMMA PersistType ==
    ASSUME sequence \in Sequence, NEW c \in Command \cup {None}, NEW st \in ServiceState,
           Persist(c, st)
    PROVE  writing' = None \/ (LineOK(writing') /\ writing'.sequence = sequence + 1
                                  /\ writing'.sequence # 0 /\ writing'.command = c)
<1>1. CASE writing' = None
  BY <1>1
<1>2. CASE writing' # None
  <2>1. writing' = [sequence |-> sequence + 1, command |-> c, state |-> st]
        /\ sequence < MaxSequence
    BY <1>2 DEF Persist
  <2> QED
    BY <2>1, JournalAssumption DEF LineOK, JournalRecord, Sequence
<1> QED  BY <1>1, <1>2

\* Every step keeps the types.
LEMMA NextShape == JournalShape /\ [JournalNext]_journal_vars => JournalShape'
<1> SUFFICES ASSUME JournalShape, [JournalNext]_journal_vars PROVE JournalShape'
  OBVIOUS
<1> USE DEF JournalShape
<1>0. JournalTypeOK
  OBVIOUS
<1>1. CASE UNCHANGED journal_vars
  BY <1>1 DEF journal_vars, JournalTypeOK
<1>2. CASE Boot
  <2>1. cluster' \in Seq(Command) /\ state' \in ServiceState /\ sequence' \in Sequence
    BY <1>0, <1>2, NewStateType, JournalAssumption
    DEF Boot, JournalTypeOK, SnapshotEnvelope, Sequence
  <2>2. writing = None /\ compacting = "Idle"
    BY <1>2 DEF Boot
  <2>3. JournalTypeOK'
    BY <1>0, <1>2, <2>1 DEF Boot, JournalTypeOK
  <2> QED  BY <1>2, <2>2, <2>3 DEF Boot
<1>3. CASE ReplayLine
  <2> DEFINE r == log[position]
  <2>1. r \in JournalRecord /\ LineOK(r) /\ position + 1 \in Nat
    BY <1>0, <1>3 DEF ReplayLine, JournalTypeOK
  <2>2. ASSUME r.sequence = 0 PROVE RestoredState(r) \in ServiceState
    <3>1. state \in ServiceState /\ r.command \in Command /\ r.command <= MaxRequest
      BY <1>0, <2>1, <2>2 DEF JournalTypeOK, LineOK
    <3>2. /\ AtLeast(state.next_lease, r.command + 1) \in 1 .. MaxLease + 1
          /\ AtLeast(state.next_request, r.command + 1) \in 1 .. MaxRequest + 1
      BY <3>1, PartTypes, JournalAssumption DEF AtLeast, Command, Lease
    <3> DEFINE N == AtLeast(state.next_lease, r.command + 1)
               M == AtLeast(state.next_request, r.command + 1)
    <3>3. RestoredState(r) = [state EXCEPT !.next_lease = N, !.next_request = M]
      BY <2>2, Zenon DEF RestoredState
    <3>4. N \in 1 .. MaxLease + 1 /\ M \in 1 .. MaxRequest + 1
      BY <3>2, Zenon
    <3> HIDE DEF N, M
    <3> QED  BY <3>1, <3>3, <3>4 DEF ServiceState
  <2>3. RestoredState(r) \in ServiceState
    BY <2>1, <2>2 DEF RestoredState, LineOK
  <2>4. r.sequence \in Sequence
        /\ (r.command # None => Append(cluster, r.command) \in Seq(Command))
    BY <1>0, <2>1 DEF JournalRecord, JournalTypeOK
  <2>5. cluster' \in Seq(Command) /\ state' \in ServiceState /\ sequence' \in Sequence
        /\ phase' \in {"Booting", "Refused"}
    BY <1>0, <1>3, <2>3, <2>4 DEF ReplayLine, JournalTypeOK
  <2> QED  BY <1>0, <1>3, <2>1, <2>5 DEF ReplayLine, JournalTypeOK
<1>4. CASE Serve
  BY <1>0, <1>4 DEF Serve, JournalTypeOK
<1>5. CASE Submit
  <2>1. state' \in ServiceState
    <3>1. state \in ServiceState /\ state.next_request <= MaxRequest
      BY <1>0, <1>5 DEF Submit, JournalTypeOK
    <3>2. /\ state.queue \cup {state.next_request} \in SUBSET Request
          /\ state.next_request + 1 \in 1 .. MaxRequest + 1
      BY <3>1, PartTypes, JournalAssumption DEF Request
    <3> DEFINE Q == state.queue \cup {state.next_request}
               N == state.next_request + 1
    <3>3. state' = [state EXCEPT !.queue = Q, !.next_request = N]
      BY <1>5, Zenon DEF Submit
    <3>4. Q \in SUBSET Request /\ N \in 1 .. MaxRequest + 1
      BY <3>2, Zenon
    <3> HIDE DEF Q, N
    <3> QED  BY <3>1, <3>3, <3>4 DEF ServiceState
  <2>2. writing' = None \/ (LineOK(writing') /\ writing'.sequence # 0)
    BY <1>0, <1>5, <2>1, PersistType DEF Submit, JournalTypeOK
  <2> QED  BY <1>0, <1>5, <2>1, <2>2 DEF Submit, Ready, JournalTypeOK, LineOK
<1>6. CASE PersistUnchanged
  <2>1. writing' = None \/ (LineOK(writing') /\ writing'.sequence # 0)
    BY <1>0, <1>6, PersistType DEF PersistUnchanged, JournalTypeOK
  <2> QED  BY <1>0, <1>6, <2>1 DEF PersistUnchanged, Ready, JournalTypeOK, LineOK
<1>7. CASE CommitOther
  <2>1. 0 \in Command /\ cluster' \in Seq(Command)
    BY <1>0, <1>7 DEF CommitOther, JournalTypeOK, Command
  <2>2. writing' = None \/ (LineOK(writing') /\ writing'.sequence # 0)
    BY <1>0, <1>7, <2>1, PersistType DEF CommitOther, JournalTypeOK
  <2> QED  BY <1>0, <1>7, <2>1, <2>2 DEF CommitOther, Ready, JournalTypeOK, LineOK
<1>8. CASE SyncRecord
  <2>1. log' = Append(log, writing) /\ LineOK(writing)
    BY <1>8 DEF SyncRecord, Appended
  <2>2. log' \in Seq(JournalRecord) /\ Len(log') = Len(log) + 1
        /\ \A i \in 1 .. Len(log') : log'[i] = IF i <= Len(log) THEN log[i] ELSE writing
    BY <1>0, <2>1 DEF JournalTypeOK, LineOK
  <2>3. accepted' \subseteq Request
    BY <1>0, <1>8 DEF SyncRecord, JournalTypeOK, ServiceState
  <2>4. \A i \in 1 .. Len(log') : LineOK(log'[i])
    BY <1>0, <2>1, <2>2 DEF JournalTypeOK
  <2>5. writing.sequence \in Sequence /\ writing.state \in ServiceState
    BY <1>8, <2>1 DEF LineOK, JournalRecord, SyncRecord
  <2> QED  BY <1>0, <1>8, <2>2, <2>3, <2>4, <2>5 DEF SyncRecord, JournalTypeOK
<1>9. ASSUME NEW q \in Request, AdmitOne(q) PROVE JournalShape'
  <2>0. state \in ServiceState /\ state.next_lease <= MaxLease
    BY <1>0, <1>9 DEF AdmitOne, JournalTypeOK
  <2>1. state.next_lease \in Lease /\ state.next_lease + 1 \in 1 .. MaxLease + 1
    BY <2>0, PartTypes, JournalAssumption DEF Lease
  <2>2. state' \in ServiceState /\ cluster' \in Seq(Command)
    <3>1. /\ state.queue \ {q} \in SUBSET Request
          /\ state.requests \cup {<<state.next_lease, q>>} \in SUBSET (Lease \X Request)
      BY <2>0, <2>1, PartTypes
    <3> DEFINE Q == state.queue \ {q}
               R == state.requests \cup {<<state.next_lease, q>>}
               N == state.next_lease + 1
    <3>2. Admitted(q) \in ServiceState
      <4>1. Admitted(q) = [state EXCEPT !.queue = Q, !.requests = R, !.next_lease = N]
        BY Zenon DEF Admitted
      <4>2. Q \in SUBSET Request /\ R \in SUBSET (Lease \X Request) /\ N \in 1 .. MaxLease + 1
        BY <2>1, <3>1, Zenon
      <4> HIDE DEF Q, R, N
      <4> QED  BY <2>0, <4>1, <4>2 DEF ServiceState
    <3> QED  BY <1>0, <1>9, <2>1, <3>2 DEF AdmitOne, JournalTypeOK, Command
  <2>3. writing' = None \/ (LineOK(writing') /\ writing'.sequence # 0)
    BY <1>0, <1>9, <2>1, <2>2, PersistType DEF AdmitOne, JournalTypeOK, Command
  <2> QED  BY <1>0, <1>9, <2>2, <2>3 DEF AdmitOne, Ready, JournalTypeOK, LineOK
<1>10. ASSUME NEW q \in Request, AdmitRefused(q) PROVE JournalShape'
  <2>1. state' \in ServiceState
    <3>1. state \in ServiceState /\ state.next_lease <= MaxLease
      BY <1>0, <1>10 DEF AdmitRefused, JournalTypeOK
    <3>2. state.next_lease + 1 \in 1 .. MaxLease + 1
      BY <3>1, PartTypes, JournalAssumption
    <3> DEFINE N == state.next_lease + 1
    <3>3. state' = [state EXCEPT !.next_lease = N] /\ N \in 1 .. MaxLease + 1
      BY <1>10, <3>2, Zenon DEF AdmitRefused
    <3> HIDE DEF N
    <3> QED  BY <3>1, <3>3 DEF ServiceState
  <2> QED  BY <1>0, <1>10, <2>1 DEF AdmitRefused, Ready, JournalTypeOK
<1>11. CASE RenameSnapshot
  <2>1. Envelope \in SnapshotEnvelope
    BY <1>0 DEF Envelope, SnapshotEnvelope, JournalTypeOK
  <2> QED  BY <1>0, <1>11, <2>1 DEF RenameSnapshot, Ready, JournalTypeOK
<1>12. CASE SyncParent
  BY <1>0, <1>12 DEF SyncParent, JournalTypeOK
<1>13. CASE Truncate
  <2>1. snapshot.sequence \in Sequence
    BY <1>0, <1>13 DEF Truncate, SnapshotEnvelope
  <2>2. log' = <<>> /\ log' \in Seq(JournalRecord) /\ Len(log') = 0
    BY <1>13 DEF Truncate
  <2>3. JournalTypeOK'
    BY <1>0, <1>13, <2>1, <2>2 DEF Truncate, JournalTypeOK
  <2> QED  BY <1>13, <2>2, <2>3 DEF Truncate
<1>14. CASE CompactFails
  <2>1. log' \in Seq(JournalRecord) /\ \A i \in 1 .. Len(log') : LineOK(log'[i])
    <3>1. CASE log' = log
      BY <1>0, <3>1 DEF JournalTypeOK
    <3>2. CASE log' = <<>>
      BY <3>2
    <3> QED  BY <1>14, <3>1, <3>2 DEF CompactFails
  <2>2. JournalTypeOK'
    BY <1>0, <1>14, <2>1 DEF CompactFails, JournalTypeOK
  <2> QED  BY <1>14, <2>1, <2>2 DEF CompactFails
<1>15. CASE Crash
  <2>1. 0 \in Sequence /\ <<>> \in Seq(Command)
    BY JournalAssumption DEF Sequence
  <2>2. log' \in Seq(JournalRecord) /\ \A i \in 1 .. Len(log') : LineOK(log'[i])
    <3>1. CASE log' = log
      BY <1>0, <3>1 DEF JournalTypeOK
    <3>2. CASE writing # None /\ log' = Appended(writing)
      BY <1>0, <3>2 DEF JournalTypeOK, Appended, LineOK
    <3> QED  BY <1>15, <3>1, <3>2 DEF Crash
  <2>3. JournalTypeOK'
    BY <1>0, <1>15, <2>1, <2>2, NewStateType DEF Crash, JournalTypeOK
  <2> QED  BY <1>15, <2>2, <2>3 DEF Crash
<1> QED
  BY <1>1, <1>2, <1>3, <1>4, <1>5, <1>6, <1>7, <1>8, <1>9, <1>10, <1>11, <1>12,
     <1>13, <1>14, <1>15
  DEF JournalNext

-----------------------------------------------------------------------------
(* What keeps a cluster and a state consistent.                            *)

\* The commands after one more.
LEMMA AppendedCommands ==
    ASSUME NEW q \in Seq(Command), NEW c \in Command
    PROVE  /\ Append(q, c) \in Seq(Command)
           /\ DOMAIN q = 1 .. Len(q) /\ DOMAIN Append(q, c) = 1 .. (Len(q) + 1)
           /\ Len(q) \in Nat /\ Append(q, c)[Len(q) + 1] = c
           /\ \A i \in 1 .. Len(q) : Append(q, c)[i] = q[i] /\ q[i] \in Command
BY AppendProperties

\* A command that opens no lease, or one that was never opened.
LEMMA OpensOnceMore ==
    ASSUME NEW q \in Seq(Command), NEW c \in Command, OpensOnce(q),
           c \in Lease => \A i \in DOMAIN q : q[i] # c
    PROVE  OpensOnce(Append(q, c))
<1> DEFINE w == Append(q, c)
           n == Len(q)
<1>1. /\ DOMAIN q = 1 .. n /\ DOMAIN w = 1 .. (n + 1) /\ n \in Nat
      /\ w[n + 1] = c /\ \A i \in 1 .. n : w[i] = q[i]
  BY AppendedCommands
<1> SUFFICES ASSUME NEW i \in 1 .. (n + 1), NEW j \in 1 .. (n + 1), w[i] \in Lease, w[i] = w[j]
             PROVE  i = j
  BY <1>1, Zenon DEF OpensOnce
<1>2. (i = n + 1 \/ i \in 1 .. n) /\ (j = n + 1 \/ j \in 1 .. n)
  <2> HIDE DEF n
  <2> QED  BY <1>1
<1>3. CASE i \in 1 .. n /\ j \in 1 .. n
  BY <1>1, <1>3, Zenon DEF OpensOnce
<1>4. CASE i = n + 1 /\ j = n + 1
  BY <1>4
<1>5. CASE i = n + 1 /\ j \in 1 .. n
  BY <1>1, <1>5, Zenon
<1>6. CASE i \in 1 .. n /\ j = n + 1
  BY <1>1, <1>6, Zenon
<1> QED  BY <1>2, <1>3, <1>4, <1>5, <1>6, Zenon

\* Identities may be used up, and requests stay where they are.
LEMMA ConsistentLater ==
    ASSUME NEW q \in Seq(Command), NEW st \in ServiceState, NEW tt \in ServiceState,
           Consistent(q, st), tt.queue = st.queue, tt.requests = st.requests,
           st.next_lease <= tt.next_lease, st.next_request <= tt.next_request
    PROVE  Consistent(q, tt)
<1>1. \A i \in DOMAIN q : q[i] \in Nat
  BY JournalAssumption DEF Command, Lease
<1>2. \A r \in Request : r \in Nat
  BY DEF Request
<1>3. /\ st.queue \in SUBSET Request /\ st.requests \in SUBSET (Lease \X Request)
      /\ st.next_lease \in Nat /\ st.next_request \in Nat
      /\ tt.next_lease \in Nat /\ tt.next_request \in Nat
  BY PartTypes
<1>4. \A i \in DOMAIN q : q[i] < tt.next_lease
  BY <1>1, <1>3 DEF Consistent
<1>5. \A r \in Request : r < st.next_request => r < tt.next_request
  BY <1>2, <1>3
<1>6. \A p \in st.requests : p[2] \in Request
  BY <1>3
<1> QED  BY <1>3, <1>4, <1>5, <1>6, Zenon DEF Consistent

\* One more command that opens no lease in use.
LEMMA ConsistentMore ==
    ASSUME NEW q \in Seq(Command), NEW c \in Command, NEW st \in ServiceState,
           Consistent(q, st), c < st.next_lease, OpensOnce(Append(q, c))
    PROVE  Consistent(Append(q, c), st)
<1> DEFINE w == Append(q, c)
           n == Len(q)
<1>1. /\ DOMAIN q = 1 .. n /\ DOMAIN w = 1 .. (n + 1) /\ n \in Nat
      /\ w[n + 1] = c /\ \A i \in 1 .. n : w[i] = q[i]
  BY AppendedCommands
<1>2. \A i \in 1 .. (n + 1) : i = n + 1 \/ i \in 1 .. n
  <2> HIDE DEF n
  <2> QED  BY <1>1
<1>3. \A i \in 1 .. n : i \in 1 .. (n + 1)
  <2> HIDE DEF n
  <2> QED  BY <1>1
<1>4. \A i \in DOMAIN w : w[i] < st.next_lease
  BY <1>1, <1>2, Zenon DEF Consistent
<1>5. ASSUME NEW x, \E i \in DOMAIN q : q[i] = x PROVE \E i \in DOMAIN w : w[i] = x
  BY <1>1, <1>3, <1>5, Zenon
<1> HIDE DEF w
<1>6. OpensOnce(w)
  BY DEF w
<1>7. Consistent(w, st)
  BY <1>4, <1>5, <1>6, Zenon DEF Consistent
<1> QED  BY <1>7 DEF w

\* A lease that is opened takes a request from the queue.
LEMMA ConsistentAdmits ==
    ASSUME NEW q \in Seq(Command), NEW st \in ServiceState, NEW tt \in ServiceState,
           Consistent(q, st), NEW r \in st.queue,
           st.next_lease <= MaxLease,
           tt.queue = st.queue \ {r}, tt.requests = st.requests \cup {<<st.next_lease, r>>},
           tt.next_lease = st.next_lease + 1, tt.next_request = st.next_request
    PROVE  Consistent(Append(q, st.next_lease), tt)
<1> DEFINE l == st.next_lease
           w == Append(q, l)
           n == Len(q)
<1>1. /\ st.queue \in SUBSET Request /\ st.requests \in SUBSET (Lease \X Request)
      /\ l \in Nat /\ l \in 1 .. MaxLease + 1
  BY PartTypes
<1>2. l \in Lease /\ l \in Command
  <2>1. l \in Nat /\ l \in 1 .. MaxLease + 1 /\ l <= MaxLease /\ MaxLease \in Nat
    BY <1>1, JournalAssumption, Zenon
  <2> HIDE DEF l
  <2> QED  BY <2>1 DEF Lease, Command
<1>3. /\ DOMAIN q = 1 .. n /\ DOMAIN w = 1 .. (n + 1) /\ n \in Nat
      /\ w[n + 1] = l /\ \A i \in 1 .. n : w[i] = q[i] /\ q[i] \in Command
  BY <1>2, AppendedCommands
<1>4. \A i \in 1 .. n : q[i] < l /\ q[i] \in Nat
  <2>1. \A c \in Command : c \in Nat
    BY JournalAssumption DEF Command, Lease
  <2> QED  BY <1>3, <2>1, Zenon DEF Consistent
<1>5. OpensOnce(w)
  <2>1. ASSUME NEW i \in DOMAIN q PROVE q[i] # l
    <3> DEFINE k == q[i]
    <3>1. k < l /\ k \in Nat
      BY <1>3, <1>4, Zenon
    <3> HIDE DEF k, l
    <3>2. k # l
      BY <1>1, <3>1
    <3> QED  BY <3>2 DEF k
  <2>2. OpensOnce(q)
    BY Zenon DEF Consistent
  <2> QED  BY <1>2, <2>1, <2>2, OpensOnceMore
<1>6. (\A i \in 1 .. (n + 1) : i = n + 1 \/ i \in 1 .. n)
      /\ (\A i \in 1 .. n : i \in 1 .. (n + 1)) /\ n + 1 \in 1 .. (n + 1)
  <2> HIDE DEF n
  <2> QED  BY <1>3
<1>7. \A i \in DOMAIN w : w[i] < tt.next_lease
  <2>1. \A i \in 1 .. n : q[i] < l + 1
    <3> HIDE DEF l, n
    <3> QED  BY <1>1, <1>4
  <2>2. l < l + 1
    <3> HIDE DEF l
    <3> QED  BY <1>1
  <2> QED  BY <1>3, <1>6, <2>1, <2>2, Zenon
<1>8. ASSUME NEW x, \E i \in DOMAIN q : q[i] = x PROVE \E i \in DOMAIN w : w[i] = x
  BY <1>3, <1>6, <1>8, Zenon
<1>9. \E i \in DOMAIN w : w[i] = l
  BY <1>3, <1>6, Zenon
<1>10. \A s \in tt.queue : s < tt.next_request
  BY Zenon DEF Consistent
<1>11. ASSUME NEW p \in tt.requests
       PROVE  /\ p[2] < tt.next_request /\ p[2] \notin tt.queue
              /\ \E i \in DOMAIN w : w[i] = p[1]
              /\ \A o \in tt.requests : o[2] = p[2] => o = p
  <2>1. <<l, r>>[1] = l /\ <<l, r>>[2] = r
    OBVIOUS
  <2>2. \A o \in st.requests : o[2] # r
    BY Zenon DEF Consistent
  <2> HIDE DEF l, w
  <2>3. CASE p \in st.requests
    <3>1. p[2] < tt.next_request /\ p[2] \notin tt.queue /\ \E i \in DOMAIN q : q[i] = p[1]
      BY <2>3, Zenon DEF Consistent
    <3>2. ASSUME NEW o \in tt.requests, o[2] = p[2] PROVE o = p
      <4>1. CASE o \in st.requests
        BY <2>3, <3>2, <4>1, Zenon DEF Consistent
      <4>2. CASE o = <<l, r>>
        BY <2>1, <2>2, <2>3, <3>2, <4>2
      <4> QED  BY <4>1, <4>2 DEF l
    <3> QED  BY <1>8, <3>1, <3>2
  <2>4. CASE p = <<l, r>>
    <3>1. p[1] = l /\ p[2] = r
      BY <2>1, <2>4
    <3>2. r < tt.next_request /\ r \notin tt.queue
      BY Zenon DEF Consistent
    <3>3. ASSUME NEW o \in tt.requests, o[2] = p[2] PROVE o = p
      <4>1. o \in st.requests \/ o = <<l, r>>
        BY DEF l
      <4> QED  BY <2>2, <2>4, <3>1, <3>3, <4>1
    <3> QED  BY <1>9, <3>1, <3>2, <3>3
  <2> QED  BY <2>3, <2>4 DEF l
<1> HIDE DEF w
<1>12. Consistent(w, tt)
  BY <1>5, <1>7, <1>10, <1>11, Zenon DEF Consistent
<1> QED  BY <1>12 DEF w, l

\* A new request waits in the queue.
LEMMA ConsistentQueues ==
    ASSUME NEW q \in Seq(Command), NEW st \in ServiceState, NEW tt \in ServiceState,
           Consistent(q, st),
           tt.queue = st.queue \cup {st.next_request}, tt.requests = st.requests,
           tt.next_lease = st.next_lease, tt.next_request = st.next_request + 1
    PROVE  Consistent(q, tt)
<1> DEFINE k == st.next_request
<1>1. /\ st.queue \in SUBSET Request /\ st.requests \in SUBSET (Lease \X Request)
      /\ k \in Nat
  BY PartTypes
<1>2. ASSUME NEW s \in Request PROVE (s < k => s < k + 1 /\ s # k) /\ k < k + 1
  <2> HIDE DEF k
  <2> QED  BY <1>1 DEF Request
<1>3. k < k + 1
  <2> HIDE DEF k
  <2> QED  BY <1>1
<1>4. \A p \in st.requests : p[2] \in Request
  BY <1>1
<1>5. \A s \in tt.queue : s < tt.next_request
  BY <1>1, <1>2, <1>3, Zenon DEF Consistent
<1>6. ASSUME NEW p \in tt.requests PROVE p[2] < tt.next_request /\ p[2] \notin tt.queue
  <2>1. p[2] \in Request /\ p[2] < k /\ p[2] \notin st.queue
    BY <1>4, Zenon DEF Consistent
  <2> QED  BY <1>2, <2>1
<1> QED  BY <1>5, <1>6, Zenon DEF Consistent

\* A first part of commands that open each lease once does so too.
LEMMA OpensOncePart ==
    ASSUME NEW q \in Seq(Command), OpensOnce(q), NEW k \in 0 .. Len(q)
    PROVE  OpensOnce(SubSeq(q, 1, k))
<1>1. SubSeq(q, 1, k) \in Seq(Command) /\ Len(SubSeq(q, 1, k)) = k
      /\ \A i \in 1 .. k : SubSeq(q, 1, k)[i] = q[i]
  OBVIOUS
<1>2. DOMAIN SubSeq(q, 1, k) = 1 .. k /\ \A i \in 1 .. k : i \in DOMAIN q
  BY <1>1
<1> QED  BY <1>1, <1>2, Zenon DEF OpensOnce

\* Commands that open no lease (0 in the model) may follow.
LEMMA OpensOnceIdle ==
    ASSUME NEW q \in Seq(Command), NEW u \in Seq(Command), OpensOnce(q),
           \A i \in 1 .. Len(u) : u[i] = 0
    PROVE  OpensOnce(q \o u)
<1> DEFINE w == q \o u
           n == Len(q)
           m == Len(u)
<1>1. /\ n \in Nat /\ m \in Nat /\ DOMAIN q = 1 .. n /\ DOMAIN w = 1 .. (n + m)
      /\ \A i \in 1 .. (n + m) : w[i] = IF i <= n THEN q[i] ELSE u[i - n]
  BY ConcatProperties
<1>2. ASSUME NEW i \in 1 .. (n + m), w[i] \in Lease PROVE i \in 1 .. n /\ w[i] = q[i]
  <2>1. CASE i <= n
    <3>1. i \in 1 .. n
      <4> HIDE DEF n, m
      <4> QED  BY <1>1, <2>1
    <3> QED  BY <1>1, <2>1, <3>1, Zenon
  <2>2. CASE ~(i <= n)
    <3>1. i - n \in 1 .. m
      <4> HIDE DEF n, m
      <4> QED  BY <1>1, <2>2
    <3>2. w[i] = 0
      BY <1>1, <2>2, <3>1, Zenon
    <3>3. 0 \notin Lease
      BY DEF Lease
    <3> QED  BY <1>2, <3>2, <3>3, Zenon
  <2> QED  BY <2>1, <2>2
<1>3. \A i, j \in DOMAIN w : w[i] \in Lease /\ w[i] = w[j] => i = j
  BY <1>1, <1>2, Zenon DEF OpensOnce
<1> HIDE DEF w
<1>4. OpensOnce(w)
  BY <1>3, Zenon DEF OpensOnce
<1> QED  BY <1>4 DEF w

-----------------------------------------------------------------------------
(* What the files stand for.                                               *)

\* The committed commands q after one more record with command c.
Extend(q, c) == IF c = None THEN q ELSE Append(q, c)

\* D[i] are the commands committed by the first i lines of the journal and
\* whatever came before it: L bare commands, then the records a + 1, a + 2
\* and so on.
History(D, a, L) ==
    /\ L <= Len(log) /\ (L > 0 => a = 0)
    /\ \A i \in 1 .. Len(log) :
           /\ D[i] = Extend(D[i - 1], log[i].command)
           /\ log[i].sequence = IF i <= L THEN 0 ELSE a + (i - L)

\* The line up to which snapshot s covers the journal.
Mark(s, a, L) == IF IsV2(s) THEN L + (s.sequence - a) ELSE 0

\* Snapshot s holds what the lines up to its mark commit.
Anchored(s, D, a, L) ==
    \/ s = None /\ a = 0 /\ D[0] = <<>>
    \/ s \in V1Snapshots /\ a = 0 /\ D[0] = s.cluster
    \/ /\ IsV2(s) /\ a <= s.sequence /\ s.sequence <= a + (Len(log) - L)
       /\ s.cluster = D[Mark(s, a, L)]

Prefix(p, q) == Len(p) <= Len(q) /\ \A i \in 1 .. Len(p) : q[i] = p[i]

\* Replay from either snapshot file recovers what was acted on.
Recoverable(D, a, L) ==
    /\ History(D, a, L)
    /\ Anchored(snapshot, D, a, L) /\ Anchored(durable, D, a, L)
    /\ Prefix(acted, D[Len(log)])

SequenceAt(q, a, L) == IF q <= L THEN a ELSE a + (q - L)

\* The lines replayed so far, or covered by the snapshot.
Reached(a, L) == AtLeast(Mark(snapshot, a, L), position - 1)

\* What the process has in memory, at the three points of its life.
InMemory(D, a, L) ==
    /\ phase = "Booting" =>
           /\ position <= Len(log) + 1
           /\ compacted = IF snapshot = None THEN 0 ELSE snapshot.sequence
           /\ cluster = D[Reached(a, L)]
           /\ sequence = SequenceAt(Reached(a, L), a, L)
    /\ phase = "Up" =>
           /\ sequence = SequenceAt(Len(log), a, L)
           /\ cluster = IF writing = None THEN D[Len(log)]
                        ELSE Extend(D[Len(log)], writing.command)
           /\ writing # None => writing.sequence = sequence + 1

\* The requests of a state; none that was acknowledged is missing.
Tracked(st) == st.queue \cup {p[2] : p \in st.requests}

Kept(st) == accepted \subseteq Tracked(st)

\* A version-2 snapshot is consistent, and when it is newer than every record
\* it has the acknowledged requests; none was acknowledged before the first
\* record.
SnapshotConsistent(s, a, L) ==
    /\ IsV2(s) => /\ Consistent(s.cluster, s.state)
                  /\ Mark(s, a, L) = Len(log) => Kept(s.state)
    /\ ~IsV2(s) /\ Len(log) = L => accepted = {}

\* Every record has a state that is consistent with the commands up to it,
\* and the newest one has the acknowledged requests.
FilesConsistent(D, a, L) ==
    /\ \A i \in 0 .. L : OpensOnce(D[i])
    /\ \A i \in 1 .. Len(log) : i > L => Consistent(D[i], log[i].state)
    /\ Len(log) > L => Kept(log[Len(log)].state)
    /\ SnapshotConsistent(snapshot, a, L) /\ SnapshotConsistent(durable, a, L)

\* So has the process, once it has replayed the newest record.
MemoryConsistent(a, L) ==
    /\ phase = "Booting" => /\ Consistent(cluster, state)
                            /\ Reached(a, L) = Len(log) => Kept(state)
    /\ phase = "Up" => /\ Consistent(cluster, state) /\ Kept(state)
                       /\ writing # None => writing.state = state

\* Boot refuses a lease that was opened after a version-1 snapshot.
Unreadable ==
    /\ snapshot \in V1Snapshots /\ durable = snapshot /\ phase # "Up"
    /\ \E i \in 1 .. Len(log) : /\ log[i].sequence = 0 /\ log[i].command # 0
                                /\ phase = "Booting" => position <= i

Carries(D, a, L) == Unreadable \/ (FilesConsistent(D, a, L) /\ MemoryConsistent(a, L))

Replays ==
    \E D \in [Nat -> Seq(Command)], a \in Nat, L \in Nat :
        Recoverable(D, a, L) /\ InMemory(D, a, L) /\ Carries(D, a, L)

\* A compaction truncates what its snapshot holds, once that is durable.
CompactionSound ==
    /\ compacting # "Idle" => /\ IsV2(snapshot) /\ snapshot.sequence = sequence
                              /\ snapshot.cluster = cluster
    /\ compacting = "Truncate" => durable = snapshot

\* The inductive invariant.
JournalInv == JournalShape /\ Replays /\ CompactionSound /\ BootsAgain

\* A version-2 snapshot is none of an older version.
LEMMA V2IsNew == \A s : IsV2(s) => s # None /\ s \notin V1Snapshots
<1>1. \A s \in V1Snapshots : s.version = 1
  BY JournalAssumption, Zenon
<1>2. 1 # 2
  OBVIOUS
<1> QED  BY <1>1, <1>2, Zenon DEF IsV2

\* The line index of a snapshot lies in the journal.
LEMMA MarkType ==
    ASSUME JournalShape, NEW D \in [Nat -> Seq(Command)], NEW a \in Nat, NEW L \in Nat,
           L <= Len(log), NEW s \in SnapshotEnvelope \cup {None}, Anchored(s, D, a, L)
    PROVE  /\ Mark(s, a, L) \in 0 .. Len(log) /\ Mark(s, a, L) \in Nat
           /\ IsV2(s) => L <= Mark(s, a, L) /\ s.sequence = a + (Mark(s, a, L) - L)
           /\ ~IsV2(s) => /\ a = 0 /\ D[0] = (IF s = None THEN <<>> ELSE s.cluster)
                          /\ s # None => s \in V1Snapshots /\ s.sequence = 0
<1>0. Len(log) \in Nat
  BY DEF JournalShape, JournalTypeOK
<1>1. CASE IsV2(s)
  <2>1. s.sequence \in Nat
    BY <1>1, JournalAssumption DEF IsV2, SnapshotEnvelope, Sequence
  <2>2. a <= s.sequence /\ s.sequence <= a + (Len(log) - L)
    BY <1>1, V2IsNew, Zenon DEF Anchored
  <2>3. Mark(s, a, L) = L + (s.sequence - a)
    BY <1>1, Zenon DEF Mark
  <2> DEFINE m == Mark(s, a, L)
             n == Len(log)
             q == s.sequence
  <2>4. m \in 0 .. n /\ m \in Nat /\ L <= m /\ q = a + (m - L)
    <3>1. n \in Nat /\ q \in Nat /\ a <= q /\ q <= a + (n - L) /\ m = L + (q - a)
      BY <1>0, <2>1, <2>2, <2>3, Zenon
    <3> HIDE DEF m, n, q
    <3> QED  BY <3>1
  <2> QED  BY <1>1, <2>4, Zenon
<1>2. CASE ~IsV2(s)
  <2>1. Mark(s, a, L) = 0
    BY <1>2, Zenon DEF Mark
  <2>2. \/ s = None /\ a = 0 /\ D[0] = <<>>
        \/ s \in V1Snapshots /\ a = 0 /\ D[0] = s.cluster
    BY <1>2, Zenon DEF Anchored
  <2>3. s \in V1Snapshots => s # None /\ s.sequence = 0
    BY JournalAssumption
  <2>4. 0 \in 0 .. Len(log) /\ 0 \in Nat
    BY <1>0
  <2> QED  BY <1>2, <2>1, <2>2, <2>3, <2>4, Zenon
<1> QED  BY <1>1, <1>2

\* One more command at the end.
LEMMA ConcatAppended ==
    ASSUME NEW q \in Seq(Command), NEW u \in Seq(Command), NEW c \in Command
    PROVE  q \o (u \o <<c>>) = Append(q \o u, c)
<1>1. <<c>> \in Seq(Command) /\ q \o u \in Seq(Command)
  BY ConcatProperties
<1>2. (q \o u) \o <<c>> = q \o (u \o <<c>>)
  BY <1>1, ConcatAssociative
<1>3. Append(q \o u, c) = (q \o u) \o <<c>>
  BY <1>1, AppendIsConcat
<1> QED  BY <1>2, <1>3

\* At the start the journal is a legacy log and the snapshot an old one.
LEMMA InitReplays == JournalInit => Replays
<1> SUFFICES ASSUME JournalInit PROVE Replays
  OBVIOUS
<1>1. PICK l \in LegacyLogs : log = [i \in DOMAIN l |-> Legacy(l[i])]
  BY Zenon DEF JournalInit
<1>2. l \in Seq(Command) /\ Len(l) \in Nat /\ DOMAIN l = 1 .. Len(l)
  BY JournalAssumption
<1>3. log \in Seq(JournalRecord) /\ Len(log) \in Nat
  BY InitShape DEF JournalShape, JournalTypeOK
<1>4. Len(log) = Len(l)
  BY <1>1, <1>2, <1>3
<1> DEFINE base == IF snapshot = None THEN <<>> ELSE snapshot.cluster
           D == [i \in Nat |-> IF i <= Len(l) THEN base \o SubSeq(l, 1, i) ELSE <<>>]
<1>5. base \in Seq(Command)
  BY JournalAssumption DEF JournalInit, SnapshotEnvelope
<1>6. \A i \in 0 .. Len(l) : SubSeq(l, 1, i) \in Seq(Command)
  BY <1>2
<1>7. D \in [Nat -> Seq(Command)]
  <2>1. ASSUME NEW i \in Nat, i <= Len(l) PROVE base \o SubSeq(l, 1, i) \in Seq(Command)
    BY <1>2, <1>5, <1>6, <2>1, ConcatProperties
  <2> HIDE DEF base
  <2> QED  BY <2>1
<1>8. D[0] = base
  <2>1. SubSeq(l, 1, 0) = <<>>
    BY <1>2
  <2>2. D[0] = base \o SubSeq(l, 1, 0)
    BY <1>2
  <2> QED  BY <1>5, <2>1, <2>2, ConcatEmptySeq
<1>9. ASSUME NEW i \in 1 .. Len(l)
      PROVE  D[i] = Append(D[i - 1], l[i]) /\ log[i] = Legacy(l[i])
  <2>1. SubSeq(l, 1, i) = SubSeq(l, 1, i - 1) \o <<l[i]>>
    BY <1>2, SubSeqRecursiveSecond
  <2>0. i \in Nat /\ i - 1 \in Nat /\ i <= Len(l) /\ i - 1 <= Len(l) /\ l[i] \in Command
    BY <1>2
  <2>2. /\ D[i] = base \o SubSeq(l, 1, i) /\ D[i - 1] = base \o SubSeq(l, 1, i - 1)
        /\ i - 1 \in 0 .. Len(l) /\ l[i] \in Command
    <3> HIDE DEF base
    <3> QED  BY <1>2, <2>0
  <2>3. base \o (SubSeq(l, 1, i - 1) \o <<l[i]>>) = Append(base \o SubSeq(l, 1, i - 1), l[i])
    <3>1. SubSeq(l, 1, i - 1) \in Seq(Command)
      BY <1>6, <2>2, Zenon
    <3> QED  BY <1>5, <2>0, <3>1, ConcatAppended
  <2>4. log[i] = Legacy(l[i])
    BY <1>1, <1>2
  <2> QED  BY <2>1, <2>2, <2>3, <2>4, Zenon
<1>10. \A i \in 0 .. Len(l) : D[i] = base \o SubSeq(l, 1, i)
  <2> HIDE DEF base
  <2> QED  BY <1>2
<1> HIDE DEF D
<1>11. \A i \in 1 .. Len(l) : D[i] = Extend(D[i - 1], log[i].command) /\ log[i].sequence = 0
  <2>1. \A c \in Command : c # None
    BY NoneIsNoCommand
  <2>2. ASSUME NEW i \in 1 .. Len(l)
        PROVE  D[i] = Extend(D[i - 1], log[i].command) /\ log[i].sequence = 0
    <3>1. log[i].command = l[i] /\ log[i].sequence = 0
      <4>1. log[i] = Legacy(l[i])
        BY <1>9, <2>2, Zenon
      <4> QED  BY <4>1 DEF Legacy
    <3>2. l[i] # None
      BY <1>2, <2>1, <2>2
    <3> QED  BY <1>9, <2>2, <3>1, <3>2, Zenon DEF Extend
  <2> QED  BY <2>2
<1>12. History(D, 0, Len(l))
  BY <1>2, <1>4, <1>11 DEF History
<1>13. Anchored(snapshot, D, 0, Len(l)) /\ Anchored(durable, D, 0, Len(l))
  BY <1>8 DEF Anchored, JournalInit
<1>14. Prefix(acted, D[Len(log)])
  <2>1. D[Len(log)] \in Seq(Command)
    BY <1>3, <1>7
  <2> QED  BY <2>1 DEF Prefix, JournalInit
<1>15. InMemory(D, 0, Len(l))
  BY DEF InMemory, JournalInit
<1>16. Carries(D, 0, Len(l))
  <2>0. /\ phase = "Down" /\ phase # "Up" /\ phase # "Booting" /\ accepted = {}
        /\ durable = snapshot /\ (snapshot \in V1Snapshots \/ snapshot = None)
    BY DEF JournalInit
  <2>1. CASE snapshot # None /\ \E i \in 1 .. Len(l) : l[i] # 0
    <3>1. PICK i \in 1 .. Len(log) : log[i].sequence = 0 /\ log[i].command # 0
      <4>1. PICK i \in 1 .. Len(l) : l[i] # 0
        BY <2>1
      <4>2. log[i] = Legacy(l[i])
        BY <1>9, Zenon
      <4>3. log[i].sequence = 0 /\ log[i].command # 0
        BY <4>1, <4>2 DEF Legacy
      <4> QED  BY <1>4, <4>3, Zenon
    <3> QED  BY <2>0, <2>1, <3>1, Zenon DEF Carries, Unreadable
  <2>2. CASE ~(snapshot # None /\ \E i \in 1 .. Len(l) : l[i] # 0)
    <3>1. ASSUME NEW i \in 0 .. Len(l) PROVE OpensOnce(D[i])
      <4>1. D[i] = base \o SubSeq(l, 1, i) /\ SubSeq(l, 1, i) \in Seq(Command)
        BY <1>6, <1>10, Zenon
      <4>2. CASE snapshot = None
        <5>1. OpensOnce(SubSeq(l, 1, i))
          BY <1>2, OldFilesAssumption, OpensOncePart
        <5>2. <<>> \o SubSeq(l, 1, i) = SubSeq(l, 1, i)
          BY <4>1, ConcatEmptySeq
        <5> QED  BY <4>1, <4>2, <5>1, <5>2, Zenon
      <4>3. CASE snapshot # None
        <5>1. OpensOnce(snapshot.cluster) /\ base = snapshot.cluster
          BY <2>0, <4>3, OldFilesAssumption, Zenon DEF Consistent
        <5>2. \A j \in 1 .. Len(SubSeq(l, 1, i)) : SubSeq(l, 1, i)[j] = 0
          <6>1. Len(SubSeq(l, 1, i)) = i /\ \A j \in 1 .. i : SubSeq(l, 1, i)[j] = l[j]
            BY <1>2
          <6>2. \A j \in 1 .. i : j \in 1 .. Len(l)
            BY <1>2
          <6> QED  BY <2>2, <4>3, <6>1, <6>2, Zenon
        <5> HIDE DEF base
        <5>3. OpensOnce(base \o SubSeq(l, 1, i))
          BY <1>5, <4>1, <5>1, <5>2, OpensOnceIdle
        <5> QED  BY <4>1, <5>3, Zenon
      <4> QED  BY <4>2, <4>3
    <3>2. ~IsV2(snapshot)
      BY <2>0, V2IsNew, Zenon
    <3>3. SnapshotConsistent(snapshot, 0, Len(l)) /\ SnapshotConsistent(durable, 0, Len(l))
      BY <2>0, <3>2, Zenon DEF SnapshotConsistent
    <3>4. (\A i \in 1 .. Len(log) : ~(i > Len(l))) /\ ~(Len(log) > Len(l))
      BY <1>2, <1>4
    <3> QED  BY <2>0, <3>1, <3>3, <3>4, Zenon DEF Carries, FilesConsistent, MemoryConsistent
  <2> QED  BY <2>1, <2>2
<1> QED  BY <1>2, <1>7, <1>12, <1>13, <1>14, <1>15, <1>16 DEF Replays, Recoverable

-----------------------------------------------------------------------------
(* What the steps do to the files.                                         *)

\* A step that leaves the journal alone, or undoes a rename.
LEMMA FilesStay ==
    ASSUME NEW D, NEW a, NEW L, Recoverable(D, a, L),
           log' = log, acted' = acted,
           snapshot' \in {snapshot, durable}, durable' \in {snapshot, durable}
    PROVE  Recoverable(D, a, L)'
<1>1. History(D, a, L)' /\ Prefix(acted', D[Len(log')])
  BY Zenon DEF Recoverable, History, Prefix
<1>2. \A s : Anchored(s, D, a, L) => Anchored(s, D, a, L)'
  BY Zenon DEF Anchored
<1>3. Anchored(snapshot, D, a, L)' /\ Anchored(durable, D, a, L)'
  BY <1>2, Zenon DEF Recoverable
<1> QED  BY <1>1, <1>3, Zenon DEF Recoverable

\* One more command extends what was committed.
LEMMA ExtendType ==
    ASSUME NEW q \in Seq(Command), NEW c \in Command \cup {None}
    PROVE  Extend(q, c) \in Seq(Command) /\ Prefix(q, Extend(q, c)) /\ Prefix(q, q)
<1>1. CASE c = None
  BY <1>1 DEF Extend, Prefix
<1>2. CASE c # None
  <2>1. c \in Command /\ Extend(q, c) = Append(q, c)
    BY <1>2 DEF Extend
  <2> QED  BY <2>1, AppendProperties DEF Prefix
<1> QED  BY <1>1, <1>2

\* Past the bare commands, every line has the next number.
LEMMA SequenceAtEnd ==
    ASSUME NEW n \in Nat, NEW a \in Nat, NEW L \in Nat, L <= n
    PROVE  /\ SequenceAt(n, a, L) = a + (n - L)
           /\ SequenceAt(n + 1, a, L) = a + ((n + 1) - L)
           /\ (a + (n - L)) + 1 = a + ((n + 1) - L)
<1>1. CASE n = L
  BY <1>1 DEF SequenceAt
<1>2. CASE L < n
  BY <1>2 DEF SequenceAt
<1> QED  BY <1>1, <1>2

\* A prefix of a prefix is one.
LEMMA PrefixTransitive ==
    ASSUME NEW p \in Seq(Command), NEW q \in Seq(Command), NEW u \in Seq(Command),
           Prefix(p, q), Prefix(q, u)
    PROVE  Prefix(p, u)
<1>1. Len(p) \in Nat /\ Len(q) \in Nat /\ Len(u) \in Nat
  OBVIOUS
<1> QED  BY <1>1 DEF Prefix

\* The journal grows by the record of the newest command.
LEMMA FilesGrow ==
    ASSUME JournalShape, NEW D \in [Nat -> Seq(Command)], NEW a \in Nat, NEW L \in Nat,
           Recoverable(D, a, L), InMemory(D, a, L),
           phase = "Up", writing # None,
           log' = Append(log, writing), acted' \in {acted, cluster},
           snapshot' \in {snapshot, durable}, durable' \in {snapshot, durable}
    PROVE  \E E \in [Nat -> Seq(Command)] :
               /\ Recoverable(E, a, L)'
               /\ cluster = E[Len(log')] /\ \A i \in 0 .. Len(log) : E[i] = D[i]
               /\ writing.sequence = SequenceAt(Len(log'), a, L)
<1> DEFINE n == Len(log)
           q == D[n]
           e == Extend(q, writing.command)
<1>1. /\ log \in Seq(JournalRecord) /\ n \in Nat /\ L <= n
      /\ writing \in JournalRecord /\ writing.command \in Command \cup {None}
      /\ acted \in Seq(Command) /\ cluster \in Seq(Command)
  BY DEF JournalShape, JournalTypeOK, Recoverable, History, JournalRecord
<1>0. n \in Nat /\ L <= n
  BY <1>1, Zenon
<1>2. q \in Seq(Command)
  BY <1>1
<1>3. e \in Seq(Command) /\ Prefix(q, e) /\ Prefix(e, e)
  BY <1>1, <1>2, ExtendType
<1>4. cluster = e /\ sequence = SequenceAt(n, a, L) /\ writing.sequence = sequence + 1
  BY Zenon DEF InMemory
<1> HIDE DEF e
<1>5. PICK E \in [Nat -> Seq(Command)] : E = [D EXCEPT ![n + 1] = e]
  BY <1>1, <1>3
<1>6. /\ \A i \in 0 .. n : E[i] = D[i]
      /\ E[n + 1] = e
  BY <1>1, <1>5
<1>7. /\ Len(log') = n + 1 /\ log'[n + 1] = writing
      /\ \A i \in 1 .. n : log'[i] = log[i]
  BY <1>1
<1>8. writing.sequence = a + ((n + 1) - L) /\ SequenceAt(n + 1, a, L) = a + ((n + 1) - L)
  <2>1. /\ SequenceAt(n, a, L) = a + (n - L)
        /\ SequenceAt(n + 1, a, L) = a + ((n + 1) - L)
        /\ (a + (n - L)) + 1 = a + ((n + 1) - L)
    <3> HIDE DEF n
    <3> QED  BY <1>0, SequenceAtEnd, Zenon
  <2> QED  BY <1>4, <2>1, Zenon
<1>9. History(E, a, L)'
  <2>1. ASSUME NEW i \in 1 .. n + 1
        PROVE  /\ E[i] = Extend(E[i - 1], log'[i].command)
               /\ log'[i].sequence = IF i <= L THEN 0 ELSE a + (i - L)
    <3>1. CASE i = n + 1
      <4>0. i - 1 = n /\ n \in 0 .. n /\ ~(i <= L)
        <5> HIDE DEF n
        <5> QED  BY <1>0, <3>1
      <4>1. E[i - 1] = q /\ E[i] = e /\ ~(i <= L) /\ log'[i] = writing
        BY <1>6, <1>7, <3>1, <4>0, Zenon
      <4>2. E[i] = Extend(E[i - 1], log'[i].command)
        BY <4>1, Zenon DEF e
      <4> QED  BY <1>8, <3>1, <4>1, <4>2
    <3>2. CASE i \in 1 .. n
      <4>0. i \in 0 .. n /\ i - 1 \in 0 .. n
        <5> HIDE DEF n
        <5> QED  BY <1>0, <3>2
      <4>1. E[i] = D[i] /\ E[i - 1] = D[i - 1] /\ log'[i] = log[i]
        BY <1>6, <1>7, <3>2, <4>0, Zenon
      <4> QED  BY <3>2, <4>1, Zenon DEF Recoverable, History
    <3>3. i = n + 1 \/ i \in 1 .. n
      <4> HIDE DEF n
      <4> QED  BY <1>0
    <3> QED  BY <3>1, <3>2, <3>3
  <2>2. L <= n + 1 /\ (L > 0 => a = 0)
    BY <1>1 DEF Recoverable, History
  <2> QED  BY <1>7, <2>1, <2>2, Zenon DEF History
<1>10. ASSUME NEW s \in SnapshotEnvelope \cup {None}, Anchored(s, D, a, L)
       PROVE  Anchored(s, E, a, L)'
  <2>1. Mark(s, a, L) \in 0 .. n
    BY <1>1, <1>10, MarkType
  <2>2. D[0] = E[0] /\ D[Mark(s, a, L)] = E[Mark(s, a, L)]
    <3>1. 0 \in 0 .. n
      BY <1>0
    <3> QED  BY <1>6, <2>1, <3>1, Zenon
  <2>3. CASE IsV2(s)
    <3>1. a <= s.sequence /\ s.sequence <= a + (n - L) /\ s.cluster = D[Mark(s, a, L)]
      <4>1. s # None /\ s \notin V1Snapshots
        BY <2>3, V2IsNew, Zenon
      <4> QED  BY <1>10, <4>1, Zenon DEF Anchored
    <3>2. s.sequence \in Nat
      BY <2>3, JournalAssumption DEF IsV2, SnapshotEnvelope, Sequence
    <3>3. s.sequence <= a + (Len(log') - L)
      <4>1. s.sequence <= a + ((n + 1) - L)
        <5> DEFINE k == s.sequence
        <5>1. k \in Nat /\ k <= a + (n - L)
          BY <3>1, <3>2, Zenon
        <5> HIDE DEF n, k
        <5>2. k <= a + ((n + 1) - L)
          BY <1>0, <5>1
        <5> QED  BY <5>2 DEF k
      <4> QED  BY <1>7, <4>1, Zenon
    <3> QED  BY <2>2, <2>3, <3>1, <3>3, Zenon DEF Anchored
  <2>4. CASE ~IsV2(s)
    BY <1>10, <2>2, <2>4, Zenon DEF Anchored
  <2> QED  BY <2>3, <2>4
<1>11. Anchored(snapshot, E, a, L)' /\ Anchored(durable, E, a, L)'
  <2>1. snapshot \in SnapshotEnvelope \cup {None} /\ durable \in SnapshotEnvelope \cup {None}
    BY DEF JournalShape, JournalTypeOK
  <2>2. Anchored(snapshot, D, a, L) /\ Anchored(durable, D, a, L)
    BY Zenon DEF Recoverable
  <2> QED  BY <1>10, <2>1, <2>2, Zenon
<1>12. Prefix(acted', E[n + 1])
  <2>1. Prefix(acted, q)
    BY Zenon DEF Recoverable
  <2>2. CASE acted' = acted
    BY <1>1, <1>2, <1>3, <1>6, <2>1, <2>2, PrefixTransitive
  <2>3. CASE acted' = cluster
    BY <1>3, <1>4, <1>6, <2>3, Zenon
  <2> QED  BY <2>2, <2>3
<1>13. Recoverable(E, a, L)'
  BY <1>7, <1>9, <1>11, <1>12, Zenon DEF Recoverable
<1> QED  BY <1>4, <1>6, <1>7, <1>8, <1>13

\* The journal is emptied once the snapshot holds everything.
LEMMA FilesEmpty ==
    ASSUME JournalShape, NEW D \in [Nat -> Seq(Command)], NEW a \in Nat, NEW L \in Nat,
           Recoverable(D, a, L), InMemory(D, a, L), CompactionSound,
           phase = "Up", compacting = "Truncate",
           log' = <<>>, acted' = acted, UNCHANGED <<snapshot, durable>>
    PROVE  \E E \in [Nat -> Seq(Command)], k \in Nat :
               Recoverable(E, k, 0)' /\ k = sequence /\ cluster = E[0]
<1>1. /\ cluster \in Seq(Command) /\ sequence \in Nat /\ writing = None
      /\ IsV2(snapshot) /\ snapshot.sequence = sequence /\ snapshot.cluster = cluster
      /\ durable = snapshot
  BY JournalAssumption DEF JournalShape, JournalTypeOK, Sequence, CompactionSound
<1>2. PICK k \in Nat : k = sequence
  BY <1>1
<1>3. PICK E \in [Nat -> Seq(Command)] : E = [i \in Nat |-> cluster]
  BY <1>1
<1>4. E[0] = cluster
  BY <1>3
<1>5. Len(log') = 0
  OBVIOUS
<1>6. History(E, k, 0)'
  BY <1>5 DEF History
<1>7. Anchored(snapshot, E, k, 0)'
  <2>1. Mark(snapshot, k, 0) = 0
    BY <1>1, <1>2 DEF Mark
  <2>2. k <= snapshot.sequence /\ snapshot.sequence <= k + (Len(log') - 0)
    BY <1>1, <1>2, <1>5
  <2> QED  BY <1>1, <1>4, <2>1, <2>2, Zenon DEF Anchored
<1>8. Prefix(acted, cluster)
  BY <1>1, Zenon DEF Recoverable, InMemory
<1>9. Recoverable(E, k, 0)'
  BY <1>1, <1>4, <1>5, <1>6, <1>7, <1>8, Zenon DEF Recoverable
<1> QED  BY <1>2, <1>4, <1>9, Zenon

-----------------------------------------------------------------------------
(* What the steps do to the process.                                       *)

\* The numbers of a state.
LEMMA Numbers ==
    ASSUME JournalShape, NEW D \in [Nat -> Seq(Command)], NEW a \in Nat, NEW L \in Nat,
           Recoverable(D, a, L)
    PROVE  /\ Len(log) \in Nat /\ L <= Len(log) /\ (L > 0 => a = 0)
           /\ position \in Nat \ {0} /\ sequence \in Nat /\ compacted \in Nat
           /\ snapshot \in SnapshotEnvelope \cup {None}
           /\ Anchored(snapshot, D, a, L)
<1>1. Len(log) \in Nat /\ position \in Nat \ {0} /\ sequence \in Nat /\ compacted \in Nat
      /\ snapshot \in SnapshotEnvelope \cup {None}
  BY JournalAssumption DEF JournalShape, JournalTypeOK, Sequence
<1> QED  BY <1>1, Zenon DEF Recoverable, History

\* The mark of the snapshot the process sees.
LEMMA SnapshotMark ==
    ASSUME JournalShape, NEW D \in [Nat -> Seq(Command)], NEW a \in Nat, NEW L \in Nat,
           Recoverable(D, a, L)
    PROVE  /\ Mark(snapshot, a, L) \in Nat
           /\ IsV2(snapshot) => L <= Mark(snapshot, a, L)
                                /\ snapshot.sequence = a + (Mark(snapshot, a, L) - L)
           /\ ~IsV2(snapshot) =>
                  /\ a = 0 /\ D[0] = (IF snapshot = None THEN <<>> ELSE snapshot.cluster)
                  /\ snapshot # None => snapshot \in V1Snapshots /\ snapshot.sequence = 0
<1>1. L <= Len(log) /\ Anchored(snapshot, D, a, L)
      /\ snapshot \in SnapshotEnvelope \cup {None}
  BY Numbers, Zenon
<1>2. PICK s \in SnapshotEnvelope \cup {None} : s = snapshot
  BY <1>1
<1>3. Anchored(s, D, a, L)
  BY <1>1, <1>2, Zenon
<1>4. /\ Mark(s, a, L) \in Nat
      /\ IsV2(s) => L <= Mark(s, a, L) /\ s.sequence = a + (Mark(s, a, L) - L)
      /\ ~IsV2(s) => /\ a = 0 /\ D[0] = (IF s = None THEN <<>> ELSE s.cluster)
                     /\ s # None => s \in V1Snapshots /\ s.sequence = 0
  BY <1>1, <1>3, MarkType
<1> QED  BY <1>2, <1>4, Zenon

\* The maximum of two numbers.
LEMMA AtLeastMax ==
    ASSUME NEW n \in Nat, NEW m \in Nat
    PROVE  /\ n <= m => AtLeast(n, m) = m
           /\ m <= n => AtLeast(n, m) = n
BY DEF AtLeast

\* Boot starts from the snapshot's mark.
LEMMA BootReplays ==
    ASSUME JournalShape, NEW D \in [Nat -> Seq(Command)], NEW a \in Nat, NEW L \in Nat,
           Recoverable(D, a, L), Boot
    PROVE  InMemory(D, a, L)'
<1> DEFINE m == Mark(snapshot, a, L)
<1>1. /\ Len(log) \in Nat /\ L <= Len(log) /\ Anchored(snapshot, D, a, L)
      /\ snapshot \in SnapshotEnvelope \cup {None}
  BY Numbers
<1>2. /\ m \in Nat
      /\ IsV2(snapshot) => L <= m /\ snapshot.sequence = a + (m - L)
      /\ ~IsV2(snapshot) =>
             /\ a = 0 /\ D[0] = (IF snapshot = None THEN <<>> ELSE snapshot.cluster)
             /\ snapshot # None => snapshot \in V1Snapshots /\ snapshot.sequence = 0
  BY SnapshotMark, Zenon
<1>3. Reached(a, L)' = m
  <2>1. AtLeast(m, 0) = m
    BY <1>2, AtLeastMax
  <2>2. 1 - 1 = 0
    OBVIOUS
  <2> QED  BY <2>1, <2>2, Zenon DEF Reached, Boot, Mark, IsV2
<1>4. cluster' = D[m]
  <2>1. CASE IsV2(snapshot)
    <3>1. snapshot \notin V1Snapshots /\ snapshot # None
      BY <2>1, V2IsNew, Zenon
    <3>2. snapshot.cluster = D[m]
      BY <1>1, <3>1, Zenon DEF Anchored
    <3> QED  BY <3>1, <3>2, Zenon DEF Boot
  <2>2. CASE ~IsV2(snapshot)
    <3>1. m = 0
      BY <2>2, Zenon DEF Mark
    <3> QED  BY <1>2, <2>2, <3>1, Zenon DEF Boot
  <2> QED  BY <2>1, <2>2
<1>5. sequence' = SequenceAt(m, a, L)
  <2>1. CASE IsV2(snapshot)
    <3>1. SequenceAt(m, a, L) = a + (m - L)
      BY <1>2, <2>1, SequenceAtEnd
    <3> QED  BY <1>2, <2>1, <3>1, Zenon DEF Boot, IsV2
  <2>2. CASE ~IsV2(snapshot)
    <3>1. m = 0
      BY <2>2, Zenon DEF Mark
    <3>2. SequenceAt(0, a, L) = a
      BY DEF SequenceAt
    <3> QED  BY <1>2, <2>2, <3>1, <3>2, Zenon DEF Boot
  <2> QED  BY <2>1, <2>2
<1>6. 1 <= Len(log) + 1
  BY <1>1
<1> HIDE DEF m
<1>7. phase' = "Booting" /\ position' = 1 /\ log' = log /\ snapshot' = snapshot
      /\ compacted' = (IF snapshot = None THEN 0 ELSE snapshot.sequence)
  BY Zenon DEF Boot
<1> QED  BY <1>3, <1>4, <1>5, <1>6, <1>7 DEF InMemory

\* The line that replay is at: the snapshot covers it, or it is the next one
\* to apply.
LEMMA ReplayedLine ==
    ASSUME JournalShape, NEW D \in [Nat -> Seq(Command)], NEW a \in Nat, NEW L \in Nat,
           Recoverable(D, a, L), InMemory(D, a, L), ReplayLine
    PROVE  /\ position \in 1 .. Len(log) /\ position - 1 \in Nat
           /\ log[position] \in JournalRecord /\ log[position] # Corrupt
           /\ D[position] = Extend(D[position - 1], log[position].command)
           /\ log[position].sequence = (IF position <= L THEN 0 ELSE a + (position - L))
           /\ Covered(log[position]) => Reached(a, L)' = Reached(a, L)
           /\ ~Covered(log[position]) =>
                  Reached(a, L)' = position /\ Reached(a, L) = position - 1
<1> DEFINE m == Mark(snapshot, a, L)
           n == Len(log)
           p == position
           r == log[position]
<1>1. /\ n \in Nat /\ L <= n /\ (L > 0 => a = 0) /\ Anchored(snapshot, D, a, L)
      /\ snapshot \in SnapshotEnvelope \cup {None} /\ p \in Nat \ {0} /\ compacted \in Nat
  BY Numbers
<1>2. /\ m \in Nat
      /\ IsV2(snapshot) => L <= m /\ snapshot.sequence = a + (m - L)
      /\ ~IsV2(snapshot) => a = 0 /\ (snapshot # None => snapshot \in V1Snapshots
                                                          /\ snapshot.sequence = 0)
  BY SnapshotMark, Zenon
<1>3. ~IsV2(snapshot) => m = 0
  BY Zenon DEF Mark
<1>4. /\ phase = "Booting" /\ p <= n /\ position' = p + 1 /\ compacted' = compacted
      /\ log' = log /\ snapshot' = snapshot
  BY Zenon DEF ReplayLine
<1>5. /\ compacted = (IF snapshot = None THEN 0 ELSE snapshot.sequence)
      /\ cluster = D[AtLeast(m, p - 1)] /\ sequence = SequenceAt(AtLeast(m, p - 1), a, L)
  BY <1>4, Zenon DEF InMemory, Reached
<1>6. p \in 1 .. n /\ p - 1 \in Nat /\ (p + 1) - 1 = p
  <2> HIDE DEF p, n
  <2> QED  BY <1>1, <1>4
<1>7. D[p] = Extend(D[p - 1], r.command) /\ r.sequence = (IF p <= L THEN 0 ELSE a + (p - L))
  BY <1>6, Zenon DEF Recoverable, History
<1>8. r \in JournalRecord /\ r # Corrupt /\ log \in Seq(JournalRecord)
  <2>1. log \in Seq(JournalRecord) /\ Corrupt \notin JournalRecord
    BY JournalAssumption DEF JournalShape, JournalTypeOK
  <2>2. r \in JournalRecord
    BY <1>6, <2>1, ElementOfSeq
  <2> QED  BY <2>1, <2>2, Zenon
<1>9. Reached(a, L)' = AtLeast(m, p)
  BY <1>4, <1>6, Zenon DEF Reached, Mark
<1>10. Covered(r) => p <= m
  <2>1. CASE p <= L
    <3>1. Covered(r) => IsV2(snapshot)
      BY <1>7, <2>1, Zenon DEF Covered
    <3> HIDE DEF p, m
    <3> QED  BY <1>1, <1>2, <2>1, <3>1
  <2>2. CASE ~(p <= L)
    <3>1. r.sequence = a + (p - L) /\ a + (p - L) # 0
      <4>1. r.sequence = a + (p - L)
        BY <1>7, <2>2, Zenon
      <4> HIDE DEF p, r
      <4> QED  BY <1>1, <2>2, <4>1
    <3>2. Covered(r) => a + (p - L) <= compacted
      BY <3>1, Zenon DEF Covered
    <3> DEFINE k == snapshot.sequence
    <3>3. compacted = (IF snapshot = None THEN 0 ELSE k)
          /\ (IsV2(snapshot) => L <= m /\ k = a + (m - L) /\ snapshot # None)
          /\ (~IsV2(snapshot) /\ snapshot # None => k = 0)
      BY <1>2, <1>5, Zenon DEF IsV2
    <3>4. CASE IsV2(snapshot)
      <4>1. Covered(r) => a + (p - L) <= a + (m - L)
        BY <3>2, <3>3, <3>4, Zenon
      <4> HIDE DEF p, m, r
      <4> QED  BY <1>1, <1>2, <4>1
    <3>5. CASE ~IsV2(snapshot)
      <4>1. Covered(r) => a + (p - L) <= 0
        BY <3>2, <3>3, <3>5, Zenon
      <4> HIDE DEF p, r
      <4> QED  BY <1>1, <2>2, <4>1
    <3> QED  BY <3>4, <3>5
  <2> QED  BY <2>1, <2>2
<1>11. ~Covered(r) => m <= p - 1
  <2>1. CASE ~IsV2(snapshot)
    <3> HIDE DEF p, m
    <3> QED  BY <1>3, <1>6, <2>1
  <2>2. CASE IsV2(snapshot)
    <3>1. r.sequence # 0 => (Covered(r) <=> r.sequence <= compacted)
      BY Zenon DEF Covered
    <3>2. r.sequence = 0 => Covered(r)
      BY <2>2, Zenon DEF Covered
    <3>3. compacted = a + (m - L) /\ L <= m
      BY <1>2, <1>5, <2>2, Zenon DEF IsV2
    <3>4. ~Covered(r) => ~(p <= L) /\ r.sequence = a + (p - L) /\ ~(r.sequence <= compacted)
      BY <1>7, <3>1, <3>2, Zenon
    <3>5. ~Covered(r) => ~(a + (p - L) <= a + (m - L))
      BY <3>3, <3>4, Zenon
    <3> HIDE DEF p, m, r
    <3> QED  BY <1>1, <1>2, <3>5
  <2> QED  BY <2>1, <2>2
<1>12. ASSUME Covered(r) PROVE AtLeast(m, p) = m /\ AtLeast(m, p - 1) = m
  <2>1. p <= m /\ p \in Nat
    BY <1>1, <1>10, <1>12
  <2>2. p - 1 <= m
    <3> HIDE DEF p, m
    <3> QED  BY <1>2, <2>1
  <2> QED  BY <1>2, <1>6, <2>1, <2>2, AtLeastMax
<1>13. ASSUME ~Covered(r) PROVE AtLeast(m, p) = p /\ AtLeast(m, p - 1) = p - 1
  <2>1. m <= p - 1
    BY <1>11, <1>13
  <2>2. m <= p
    <3> HIDE DEF p, m
    <3> QED  BY <1>1, <1>2, <2>1
  <2> QED  BY <1>1, <1>2, <1>6, <2>1, <2>2, AtLeastMax
<1>14. Reached(a, L) = AtLeast(m, p - 1)
  BY Zenon DEF Reached
<1> QED  BY <1>6, <1>7, <1>8, <1>9, <1>12, <1>13, <1>14, Zenon

\* Replay skips what the snapshot covers and applies the rest; it refuses
\* only bare commands beside a version-1 snapshot.
LEMMA ReplayReplays ==
    ASSUME JournalShape, NEW D \in [Nat -> Seq(Command)], NEW a \in Nat, NEW L \in Nat,
           Recoverable(D, a, L), InMemory(D, a, L), ReplayLine
    PROVE  InMemory(D, a, L)' /\ BootsAgain'
<1> DEFINE n == Len(log)
           p == position
           r == log[position]
<1>1. n \in Nat /\ L <= n /\ (L > 0 => a = 0) /\ p \in Nat \ {0}
  BY Numbers
<1>2. ~IsV2(snapshot) /\ snapshot # None => snapshot \in V1Snapshots
  BY SnapshotMark, Zenon
<1>3. /\ phase = "Booting" /\ p <= n /\ position' = p + 1 /\ compacted' = compacted
      /\ log' = log /\ snapshot' = snapshot
  BY Zenon DEF ReplayLine
<1>4. /\ compacted = (IF snapshot = None THEN 0 ELSE snapshot.sequence)
      /\ cluster = D[Reached(a, L)] /\ sequence = SequenceAt(Reached(a, L), a, L)
  BY <1>3, Zenon DEF InMemory
<1>5. p \in 1 .. n /\ p - 1 \in Nat
  BY ReplayedLine
<1>6. D[p] = Extend(D[p - 1], r.command) /\ r.sequence = (IF p <= L THEN 0 ELSE a + (p - L))
  BY ReplayedLine, Zenon
<1>7. r \in JournalRecord /\ r # Corrupt /\ log \in Seq(JournalRecord)
  <2>1. log \in Seq(JournalRecord)
    BY DEF JournalShape, JournalTypeOK
  <2> QED  BY <2>1, ReplayedLine, Zenon
<1>8. /\ Covered(r) => Reached(a, L)' = Reached(a, L)
      /\ ~Covered(r) => Reached(a, L)' = p /\ Reached(a, L) = p - 1
  BY ReplayedLine, Zenon
<1>9. CASE Covered(r)
  <2>1. Reached(a, L)' = Reached(a, L)
    BY <1>8, <1>9
  <2>2. UNCHANGED <<phase, cluster, sequence>>
    BY <1>7, <1>9, Zenon DEF ReplayLine
  <2>3. p + 1 <= n + 1
    <3> HIDE DEF p, n
    <3> QED  BY <1>1, <1>3
  <2>4. InMemory(D, a, L)'
    <3>1. phase' = "Booting"
      BY <1>3, <2>2, Zenon
    <3>2. phase' # "Up"
      BY <3>1
    <3> QED  BY <1>3, <1>4, <1>8, <2>1, <2>2, <2>3, <3>2, Zenon DEF InMemory
  <2> QED  BY <1>3, <2>2, <2>4 DEF BootsAgain
<1>10. CASE ~Covered(r)
  <2>1. Reached(a, L)' = p /\ Reached(a, L) = p - 1
    BY <1>8, <1>10
  <2>2. cluster = D[p - 1] /\ sequence = SequenceAt(p - 1, a, L)
    BY <1>4, <2>1, Zenon
  <2>3. r.sequence = SequenceAt(p, a, L)
        /\ (r.sequence = 0 => sequence = 0 /\ ~IsV2(snapshot))
        /\ (r.sequence # 0 => r.sequence = sequence + 1)
    <3>1. CASE p <= L
      <4>1. r.sequence = 0 /\ a = 0 /\ ~IsV2(snapshot)
        <5>1. r.sequence = 0
          BY <1>6, <3>1, Zenon
        <5>2. a = 0
          <6> HIDE DEF p
          <6> QED  BY <1>1, <3>1
        <5> QED  BY <1>10, <5>1, <5>2, Zenon DEF Covered
      <4>2. SequenceAt(p, a, L) = a /\ SequenceAt(p - 1, a, L) = a
        <5> HIDE DEF p
        <5> QED  BY <1>1, <1>5, <3>1 DEF SequenceAt
      <4> QED  BY <2>2, <4>1, <4>2, Zenon
    <3>2. CASE ~(p <= L)
      <4>1. r.sequence = a + (p - L)
        BY <1>6, <3>2, Zenon
      <4>2. /\ SequenceAt(p, a, L) = a + (p - L)
            /\ SequenceAt(p - 1, a, L) = a + ((p - 1) - L)
            /\ a + (p - L) # 0 /\ a + (p - L) = (a + ((p - 1) - L)) + 1
        <5> HIDE DEF p
        <5>1. p - 1 \in Nat /\ L <= p - 1 /\ (p - 1) + 1 = p
          BY <1>1, <1>5, <3>2
        <5>2. SequenceAt(p, a, L) = a + (p - L) /\ SequenceAt(p - 1, a, L) = a + ((p - 1) - L)
          <6> DEFINE o == p - 1
          <6>1. o \in Nat /\ L <= o /\ o + 1 = p
            BY <5>1
          <6> HIDE DEF o
          <6>2. SequenceAt(o, a, L) = a + (o - L)
                /\ SequenceAt(o + 1, a, L) = a + ((o + 1) - L)
            BY <6>1, SequenceAtEnd
          <6> QED  BY <6>1, <6>2, Zenon DEF o
        <5>3. a + (p - L) # 0 /\ a + (p - L) = (a + ((p - 1) - L)) + 1
          BY <1>1, <5>1
        <5> QED  BY <5>2, <5>3
      <4> QED  BY <2>2, <4>1, <4>2, Zenon
    <3> QED  BY <3>1, <3>2
  <2>4. CASE Replayable(r)
    <3>1. phase' = phase /\ cluster' = Extend(cluster, r.command) /\ sequence' = r.sequence
      BY <1>7, <1>10, <2>4, Zenon DEF ReplayLine, Extend
    <3>2. p + 1 <= n + 1
      <4> HIDE DEF p, n
      <4> QED  BY <1>1, <1>3
    <3>3. phase' = "Booting" /\ phase' # "Up" /\ phase' # "Refused"
      BY <1>3, <3>1
    <3>4. cluster' = D[p] /\ sequence' = SequenceAt(p, a, L)
      BY <1>6, <2>2, <2>3, <3>1, Zenon
    <3>5. InMemory(D, a, L)'
      BY <1>3, <1>4, <1>8, <2>1, <3>2, <3>3, <3>4, Zenon DEF InMemory
    <3> QED  BY <3>3, <3>5, Zenon DEF BootsAgain
  <2>5. CASE ~Replayable(r)
    <3>1. phase' = "Refused"
      BY <1>7, <1>10, <2>5, Zenon DEF ReplayLine
    <3>2. InMemory(D, a, L)'
      BY <3>1 DEF InMemory
    <3>3. r.sequence = 0 /\ snapshot # None /\ r.command # 0
      BY <1>7, <2>3, <2>5, Zenon DEF Replayable
    <3>4. snapshot \in V1Snapshots
      BY <1>2, <2>3, <3>3, Zenon
    <3>5. position \in DOMAIN log
      BY <1>5, <1>7
    <3> QED  BY <1>3, <1>7, <3>2, <3>3, <3>4, <3>5, Zenon DEF BootsAgain
  <2> QED  BY <2>4, <2>5
<1> QED  BY <1>9, <1>10

\* The whole journal is replayed when the controller starts to serve.
LEMMA ServeReaches ==
    ASSUME JournalShape, NEW D \in [Nat -> Seq(Command)], NEW a \in Nat, NEW L \in Nat,
           Recoverable(D, a, L), InMemory(D, a, L), Serve
    PROVE  Reached(a, L) = Len(log)
<1> DEFINE m == Mark(snapshot, a, L)
           n == Len(log)
<1>1. n \in Nat /\ L <= n /\ position \in Nat \ {0} /\ Anchored(snapshot, D, a, L)
      /\ snapshot \in SnapshotEnvelope \cup {None}
  BY Numbers
<1>2. m \in 0 .. n /\ m \in Nat
  BY <1>1, MarkType
<1>3. phase = "Booting" /\ position > n
  BY Zenon DEF Serve
<1>4. position <= n + 1
  BY <1>3, Zenon DEF InMemory
<1>5. position - 1 = n /\ m <= n
  <2> HIDE DEF m, n
  <2> QED  BY <1>1, <1>2, <1>3, <1>4
<1>6. AtLeast(m, n) = n
  BY <1>1, <1>2, <1>5, AtLeastMax
<1> QED  BY <1>5, <1>6, Zenon DEF Reached

\* Serve: the last line is replayed, and memory is what the files hold.
LEMMA ServeReplays ==
    ASSUME JournalShape, NEW D \in [Nat -> Seq(Command)], NEW a \in Nat, NEW L \in Nat,
           Recoverable(D, a, L), InMemory(D, a, L), Serve
    PROVE  InMemory(D, a, L)'
<1>1. /\ phase = "Booting" /\ phase' = "Up" /\ writing' = writing
      /\ log' = log /\ cluster' = cluster /\ sequence' = sequence
  BY Zenon DEF Serve
<1>2. writing = None /\ phase' # "Booting"
  BY <1>1 DEF JournalShape
<1>3. cluster = D[Reached(a, L)] /\ sequence = SequenceAt(Reached(a, L), a, L)
  BY <1>1, Zenon DEF InMemory
<1>4. Reached(a, L) = Len(log)
  BY ServeReaches
<1> QED  BY <1>1, <1>2, <1>3, <1>4, Zenon DEF InMemory

\* A change of the state prepares its record under the lock.
LEMMA ChangeReplays ==
    ASSUME JournalShape, NEW D, NEW a, NEW L, InMemory(D, a, L), Ready,
           NEW c \in Command \cup {None}, NEW st \in ServiceState, Persist(c, st),
           cluster' = Extend(cluster, c), UNCHANGED <<phase, sequence, log>>
    PROVE  InMemory(D, a, L)'
<1>1. phase' = "Up" /\ phase' # "Booting" /\ writing = None
  BY DEF Ready
<1>2. sequence = SequenceAt(Len(log), a, L) /\ cluster = D[Len(log)]
  BY <1>1, Zenon DEF InMemory
<1>3. CASE writing' = None
  <2>1. c = None
    <3>1. [sequence |-> sequence + 1, command |-> c, state |-> st] \in JournalRecord
          \/ ~(sequence < MaxSequence)
      BY JournalAssumption DEF JournalRecord, JournalShape, JournalTypeOK, Sequence
    <3>2. None \notin JournalRecord
      BY JournalAssumption, Zenon
    <3> QED  BY <1>3, <3>1, <3>2, Zenon DEF Persist
  <2>2. cluster' = cluster
    BY <2>1, Zenon DEF Extend
  <2> QED  BY <1>1, <1>2, <1>3, <2>2, Zenon DEF InMemory
<1>4. CASE writing' # None
  <2>0. sequence \in Sequence
    BY DEF JournalShape, JournalTypeOK
  <2>1. writing'.sequence = sequence + 1 /\ writing'.command = c
    BY <1>4, <2>0, PersistType
  <2> QED  BY <1>1, <1>2, <1>4, <2>1, Zenon DEF InMemory
<1> QED  BY <1>3, <1>4

\* The new snapshot holds what the whole journal commits.
LEMMA RenameReplays ==
    ASSUME JournalShape, NEW D \in [Nat -> Seq(Command)], NEW a \in Nat, NEW L \in Nat,
           Recoverable(D, a, L), InMemory(D, a, L), RenameSnapshot
    PROVE  Recoverable(D, a, L)' /\ InMemory(D, a, L)' /\ CompactionSound'
<1> DEFINE n == Len(log)
<1>1. n \in Nat /\ L <= n /\ sequence \in Nat
  BY Numbers
<1>2. /\ phase = "Up" /\ phase # "Booting" /\ writing = None
      /\ snapshot' = Envelope /\ compacting' = "Sync"
      /\ UNCHANGED <<log, durable, phase, cluster, sequence, writing, acted>>
  BY DEF RenameSnapshot, Ready
<1>3. sequence = SequenceAt(n, a, L) /\ cluster = D[n]
  BY <1>2, Zenon DEF InMemory
<1>4. /\ Envelope.version = 2 /\ Envelope.sequence = sequence
      /\ Envelope.cluster = cluster /\ Envelope # None
  <2>1. Envelope \in SnapshotEnvelope
    BY JournalAssumption DEF Envelope, SnapshotEnvelope, JournalShape, JournalTypeOK, Sequence
  <2> QED  BY <2>1, JournalAssumption DEF Envelope
<1>5. sequence = a + (n - L)
  BY <1>1, <1>3, SequenceAtEnd
<1>6. a <= sequence /\ sequence <= a + (n - L) /\ L + (sequence - a) = n
  <2> HIDE DEF n
  <2> QED  BY <1>1, <1>5
<1>7. IsV2(snapshot') /\ Mark(snapshot', a, L) = n
  BY <1>2, <1>4, <1>6, Zenon DEF Mark, IsV2
<1>8. Anchored(snapshot, D, a, L)'
  BY <1>2, <1>3, <1>4, <1>6, <1>7, Zenon DEF Anchored
<1>9. Anchored(durable, D, a, L)' /\ History(D, a, L)' /\ Prefix(acted', D[Len(log')])
  BY <1>2, Zenon DEF Recoverable, Anchored, History, Prefix
<1>10. Recoverable(D, a, L)'
  BY <1>8, <1>9, Zenon DEF Recoverable
<1>11. InMemory(D, a, L)'
  BY <1>2, <1>3, Zenon DEF InMemory
<1>12. CompactionSound'
  BY <1>2, <1>4, <1>7 DEF CompactionSound, IsV2
<1> QED  BY <1>10, <1>11, <1>12

-----------------------------------------------------------------------------
(* What the steps do to the requests and the identities.                   *)

\* Files that boot refuses are never changed.
LEMMA UnreadableStays ==
    ASSUME JournalShape, Unreadable, [JournalNext]_journal_vars
    PROVE  Unreadable'
<1>1. PICK i \in 1 .. Len(log) : /\ log[i].sequence = 0 /\ log[i].command # 0
                                 /\ phase = "Booting" => position <= i
  BY Zenon DEF Unreadable
<1>2. snapshot \in V1Snapshots /\ durable = snapshot /\ phase # "Up"
  BY Zenon DEF Unreadable
<1>3. Len(log) \in Nat /\ position \in Nat /\ i \in Nat /\ i <= Len(log)
  BY DEF JournalShape, JournalTypeOK
<1>4. ~IsV2(snapshot) /\ snapshot # None
  <2>1. snapshot # None
    BY <1>2, JournalAssumption
  <2> QED  BY <1>2, <2>1, V2IsNew, Zenon
<1>5. CASE UNCHANGED journal_vars
  BY <1>1, <1>2, <1>5, Zenon DEF journal_vars, Unreadable
<1>6. CASE Boot
  <2>1. phase' = "Booting" /\ phase' # "Up" /\ position' = 1 /\ 1 <= i
    BY <1>3, <1>6 DEF Boot
  <2> QED  BY <1>1, <1>2, <1>6, <2>1, Zenon DEF Boot, Unreadable
<1>7. CASE ReplayLine
  <2>1. phase = "Booting" /\ position <= i /\ position' = position + 1
        /\ log' = log /\ snapshot' = snapshot /\ durable' = durable
    BY <1>1, <1>7, Zenon DEF ReplayLine
  <2>2. phase' # "Up" /\ (phase' = "Booting" => position' <= i)
    <3>1. CASE position = i
      <4>1. ~Covered(log[i])
        BY <1>1, <1>4, Zenon DEF Covered
      <4>2. ~Replayable(log[i])
        BY <1>1, <1>4, Zenon DEF Replayable
      <4>3. phase' = "Refused"
        BY <1>7, <3>1, <4>1, <4>2, Zenon DEF ReplayLine
      <4> QED  BY <4>3
    <3>2. CASE position # i
      <4>1. position' <= i
        BY <1>3, <2>1, <3>2
      <4>2. phase' = phase \/ phase' = "Refused"
        BY <1>7, Zenon DEF ReplayLine
      <4> QED  BY <1>2, <4>1, <4>2
    <3> QED  BY <3>1, <3>2
  <2> QED  BY <1>1, <1>2, <2>1, <2>2, Zenon DEF Unreadable
<1>8. CASE Crash
  <2>1. writing = None
    BY <1>2 DEF JournalShape
  <2>2. log' = log /\ snapshot' = snapshot /\ durable' = durable /\ phase' = "Down"
    BY <1>2, <1>8, <2>1, Zenon DEF Crash
  <2>3. phase' # "Up" /\ phase' # "Booting"
    BY <2>2
  <2> QED  BY <1>1, <1>2, <2>2, <2>3, Zenon DEF Unreadable
<1>9. ~Serve
  <2>1. Serve => phase = "Booting" /\ position > Len(log)
    BY Zenon DEF Serve
  <2> QED  BY <1>1, <1>3, <2>1
<1>10. /\ ~Submit /\ ~PersistUnchanged /\ ~CommitOther /\ ~SyncRecord
       /\ \A r \in Request : ~AdmitOne(r) /\ ~AdmitRefused(r)
       /\ ~RenameSnapshot /\ ~SyncParent /\ ~Truncate /\ ~CompactFails
  BY <1>2, Zenon DEF Submit, PersistUnchanged, CommitOther, SyncRecord, AdmitOne,
     AdmitRefused, RenameSnapshot, SyncParent, Truncate, CompactFails, Ready
<1> QED  BY <1>5, <1>6, <1>7, <1>8, <1>9, <1>10, Zenon DEF JournalNext

\* What holds of files that boot reads is enough.
LEMMA CarriesOn ==
    ASSUME JournalShape, [JournalNext]_journal_vars,
           NEW D, NEW a, NEW L, Carries(D, a, L), NEW E, NEW k, NEW m,
           FilesConsistent(D, a, L) /\ MemoryConsistent(a, L) =>
               FilesConsistent(E, k, m)' /\ MemoryConsistent(k, m)'
    PROVE  Carries(E, k, m)'
<1>1. Unreadable => Unreadable'
  BY UnreadableStays
<1> QED  BY <1>1, Zenon DEF Carries

\* A step that leaves the journal alone, or undoes a rename.
LEMMA FilesStayConsistent ==
    ASSUME NEW D, NEW a, NEW L, FilesConsistent(D, a, L),
           log' = log, accepted' = accepted,
           snapshot' \in {snapshot, durable}, durable' \in {snapshot, durable}
    PROVE  FilesConsistent(D, a, L)'
<1>1. \A st : Kept(st) => Kept(st)'
  BY Zenon DEF Kept
<1>2. \A s : SnapshotConsistent(s, a, L) => SnapshotConsistent(s, a, L)'
  BY <1>1, Zenon DEF SnapshotConsistent
<1>3. SnapshotConsistent(snapshot, a, L)' /\ SnapshotConsistent(durable, a, L)'
  BY <1>2, Zenon DEF FilesConsistent
<1> QED  BY <1>1, <1>3, Zenon DEF FilesConsistent

\* Boot starts from a consistent snapshot.
LEMMA BootCarries ==
    ASSUME JournalShape, NEW D \in [Nat -> Seq(Command)], NEW a \in Nat, NEW L \in Nat,
           Recoverable(D, a, L), FilesConsistent(D, a, L), Boot
    PROVE  MemoryConsistent(a, L)'
<1> DEFINE m == Mark(snapshot, a, L)
<1>1. /\ phase' = "Booting" /\ phase' # "Up" /\ position' = 1 /\ log' = log
      /\ snapshot' = snapshot /\ accepted' = accepted
      /\ cluster' = (IF snapshot = None THEN <<>> ELSE snapshot.cluster)
      /\ state' = (IF snapshot = None THEN NewState ELSE snapshot.state)
  BY DEF Boot
<1>2. Len(log) \in Nat /\ L <= Len(log)
  BY Numbers
<1>3. /\ m \in Nat
      /\ ~IsV2(snapshot) /\ snapshot # None => snapshot \in V1Snapshots
  BY SnapshotMark, Zenon
<1>4. Reached(a, L)' = m
  <2>1. AtLeast(m, 0) = m
    BY <1>3, AtLeastMax
  <2>2. 1 - 1 = 0
    OBVIOUS
  <2> QED  BY <1>1, <2>1, <2>2, Zenon DEF Reached, Mark, IsV2
<1>5. CASE IsV2(snapshot)
  <2>1. snapshot # None
    BY <1>5, V2IsNew, Zenon
  <2>2. Consistent(snapshot.cluster, snapshot.state)
        /\ (m = Len(log) => Kept(snapshot.state))
    BY <1>5, Zenon DEF FilesConsistent, SnapshotConsistent
  <2> QED  BY <1>1, <1>4, <2>1, <2>2, Zenon DEF MemoryConsistent, Kept
<1>6. CASE ~IsV2(snapshot)
  <2>1. m = 0
    BY <1>6, Zenon DEF Mark
  <2>2. m = Len(log) => accepted = {}
    <3>1. m = Len(log) => Len(log) = L
      <4> HIDE DEF m
      <4> QED  BY <1>2, <2>1
    <3> QED  BY <1>6, <3>1, Zenon DEF FilesConsistent, SnapshotConsistent
  <2>3. Consistent(cluster', state')
    <3>1. CASE snapshot = None
      <4>1. Consistent(<<>>, NewState)
        BY DEF Consistent, OpensOnce, NewState
      <4> QED  BY <1>1, <3>1, <4>1, Zenon
    <3>2. CASE snapshot # None
      <4>1. Consistent(snapshot.cluster, snapshot.state)
        BY <1>3, <1>6, <3>2, OldFilesAssumption, Zenon
      <4> QED  BY <1>1, <3>2, <4>1, Zenon
    <3> QED  BY <3>1, <3>2
  <2>4. m = Len(log) => Kept(state)'
    BY <1>1, <2>2, Zenon DEF Kept
  <2> QED  BY <1>1, <1>4, <2>3, <2>4, Zenon DEF MemoryConsistent
<1> QED  BY <1>5, <1>6

\* A bare command raises the allocators; a record brings its state.
LEMMA ReplayCarries ==
    ASSUME JournalShape, JournalShape', NEW D \in [Nat -> Seq(Command)],
           NEW a \in Nat, NEW L \in Nat,
           Recoverable(D, a, L), InMemory(D, a, L), FilesConsistent(D, a, L),
           MemoryConsistent(a, L), ReplayLine
    PROVE  MemoryConsistent(a, L)'
<1> DEFINE n == Len(log)
           p == position
           r == log[position]
<1>1. /\ phase = "Booting" /\ log' = log /\ accepted' = accepted
  BY Zenon DEF ReplayLine
<1>2. /\ p \in 1 .. n /\ p - 1 \in Nat /\ r # Corrupt
      /\ D[p] = Extend(D[p - 1], r.command)
      /\ r.sequence = (IF p <= L THEN 0 ELSE a + (p - L))
      /\ Covered(r) => Reached(a, L)' = Reached(a, L)
      /\ ~Covered(r) => Reached(a, L)' = p /\ Reached(a, L) = p - 1
  BY ReplayedLine, Zenon
<1>3. /\ cluster \in Seq(Command) /\ state \in ServiceState /\ state' \in ServiceState
      /\ n \in Nat /\ LineOK(r)
  <2>1. JournalTypeOK /\ JournalTypeOK'
    BY Zenon DEF JournalShape
  <2>2. /\ log \in Seq(JournalRecord)
        /\ cluster \in Seq(Command) /\ state \in ServiceState /\ state' \in ServiceState
    BY <2>1, Zenon DEF JournalTypeOK
  <2>3. n \in Nat
    BY <2>2
  <2>4. LineOK(r)
    BY <1>2, Zenon DEF JournalShape
  <2> QED  BY <2>2, <2>3, <2>4, Zenon
<1>4. Consistent(cluster, state) /\ (Reached(a, L) = n => Kept(state))
      /\ cluster = D[Reached(a, L)]
  BY <1>1, Zenon DEF MemoryConsistent, InMemory
<1>5. CASE Covered(r)
  <2>1. phase' = phase /\ cluster' = cluster /\ state' = state
    BY <1>2, <1>5, Zenon DEF ReplayLine
  <2>2. phase' # "Up"
    BY <1>1, <2>1
  <2> QED  BY <1>1, <1>2, <1>4, <1>5, <2>1, <2>2, Zenon DEF MemoryConsistent, Kept
<1>6. CASE ~Covered(r) /\ ~Replayable(r)
  <2>1. phase' = "Refused"
    BY <1>2, <1>6, Zenon DEF ReplayLine
  <2> QED  BY <2>1 DEF MemoryConsistent
<1>7. CASE ~Covered(r) /\ Replayable(r)
  <2>1. /\ phase' = phase /\ cluster' = Extend(cluster, r.command)
        /\ state' = RestoredState(r)
    BY <1>2, <1>7, Zenon DEF ReplayLine, Extend
  <2>2. phase' # "Up" /\ phase' = "Booting"
    BY <1>1, <2>1
  <2>3. cluster = D[p - 1] /\ cluster' = D[p] /\ Reached(a, L)' = p
    BY <1>2, <1>4, <1>7, <2>1, Zenon
  <2>4. CASE p <= L
    <3>1. r.sequence = 0
      BY <1>2, <2>4, Zenon
    <3>2. ~IsV2(snapshot)
      BY <1>7, <3>1, Zenon DEF Covered
    <3>3. r.command \in Command /\ r.command # None
      BY <1>3, <3>1, NoneIsNoCommand DEF LineOK
    <3>4. D[p] = Append(cluster, r.command)
      BY <1>2, <2>3, <3>3, Zenon DEF Extend
    <3>5. OpensOnce(Append(cluster, r.command))
      <4>0. p \in 1 .. n
        BY <1>2, Zenon
      <4>1. p \in 0 .. L
        <5> HIDE DEF p, n
        <5> QED  BY <1>3, <2>4, <4>0
      <4> QED  BY <3>4, <4>1, Zenon DEF FilesConsistent
    <3> DEFINE N == AtLeast(state.next_lease, r.command + 1)
               M == AtLeast(state.next_request, r.command + 1)
    <3>6. state' = [state EXCEPT !.next_lease = N, !.next_request = M]
      BY <2>1, <3>1, Zenon DEF RestoredState
    <3>7. /\ state.next_lease <= N /\ state.next_request <= M /\ r.command < N
      <4>1. state.next_lease \in Nat /\ state.next_request \in Nat /\ r.command \in Nat
        <5>1. \A c \in Command : c \in Nat
          BY JournalAssumption DEF Command, Lease
        <5> QED  BY <1>3, <3>3, <5>1, PartTypes
      <4> DEFINE u == state.next_lease
                 v == state.next_request
                 c == r.command
      <4>2. u \in Nat /\ v \in Nat /\ c \in Nat
        BY <4>1
      <4> HIDE DEF u, v, c
      <4>3. u <= AtLeast(u, c + 1) /\ v <= AtLeast(v, c + 1) /\ c < AtLeast(u, c + 1)
        BY <4>2 DEF AtLeast
      <4> QED  BY <4>3 DEF u, v, c
    <3> HIDE DEF N, M
    <3>8. /\ state'.queue = state.queue /\ state'.requests = state.requests
          /\ state'.next_lease = N /\ state'.next_request = M
      BY <1>3, <3>6 DEF ServiceState
    <3>9. Consistent(cluster, state')
      BY <1>3, <1>4, <3>7, <3>8, ConsistentLater
    <3>10. Consistent(Append(cluster, r.command), state')
      <4>1. r.command < state'.next_lease
        BY <3>7, <3>8
      <4> QED  BY <1>3, <3>3, <3>5, <3>9, <4>1, ConsistentMore
    <3>11. p = n => accepted = {}
      <4>1. p = n => n = L
        <5>1. L <= n
          BY Numbers
        <5> HIDE DEF n, p
        <5> QED  BY <1>2, <1>3, <2>4, <5>1
      <4> QED  BY <3>2, <4>1, Zenon DEF FilesConsistent, SnapshotConsistent
    <3>12. p = n => Kept(state)'
      BY <1>1, <3>11, Zenon DEF Kept
    <3> QED  BY <1>1, <2>2, <2>3, <3>4, <3>10, <3>12, Zenon DEF MemoryConsistent
  <2>5. CASE ~(p <= L)
    <3>1. r.sequence # 0
      <4>1. r.sequence = a + (p - L)
        BY <1>2, <2>5, Zenon
      <4> DEFINE k == r.sequence
      <4>2. k = a + (p - L)
        BY <4>1
      <4> HIDE DEF p, k
      <4>3. k # 0
        BY <1>2, <2>5, <4>2
      <4> QED  BY <4>3 DEF k
    <3>2. state' = r.state
      BY <2>1, <3>1, Zenon DEF RestoredState
    <3>3. p > L
      <4> HIDE DEF p
      <4> QED  BY <1>2, <2>5
    <3>4. Consistent(D[p], r.state) /\ (p = n => Kept(r.state))
      BY <1>2, <3>3, Zenon DEF FilesConsistent
    <3> QED  BY <1>1, <2>2, <2>3, <3>2, <3>4, Zenon DEF MemoryConsistent, Kept
  <2> QED  BY <2>4, <2>5
<1> QED  BY <1>5, <1>6, <1>7

\* The newest record is replayed when the controller starts to serve.
LEMMA ServeCarries ==
    ASSUME JournalShape, NEW D \in [Nat -> Seq(Command)], NEW a \in Nat, NEW L \in Nat,
           Recoverable(D, a, L), InMemory(D, a, L), MemoryConsistent(a, L), Serve
    PROVE  MemoryConsistent(a, L)'
<1>1. /\ phase = "Booting" /\ phase' = "Up" /\ writing' = writing
      /\ cluster' = cluster /\ state' = state /\ accepted' = accepted
  BY Zenon DEF Serve
<1>2. writing = None /\ phase' # "Booting"
  BY <1>1 DEF JournalShape
<1>3. Reached(a, L) = Len(log)
  BY ServeReaches
<1>4. Consistent(cluster, state) /\ Kept(state)
  BY <1>1, <1>3, Zenon DEF MemoryConsistent
<1> QED  BY <1>1, <1>2, <1>4, Zenon DEF MemoryConsistent, Kept

\* A change of the state, and the record prepared for it.
LEMMA ChangeCarries ==
    ASSUME JournalShape, NEW a, NEW L, MemoryConsistent(a, L), Ready,
           NEW c \in Command \cup {None}, Persist(c, state'), UNCHANGED <<phase, accepted>>,
           Consistent(cluster', state'), Tracked(state) \subseteq Tracked(state')
    PROVE  MemoryConsistent(a, L)'
<1>1. phase = "Up" /\ phase' = "Up" /\ phase' # "Booting"
  BY DEF Ready
<1>2. Kept(state)'
  BY <1>1, Zenon DEF MemoryConsistent, Kept
<1>3. writing' # None => writing'.state = state'
  BY DEF Persist
<1> QED  BY <1>1, <1>2, <1>3, Zenon DEF MemoryConsistent

\* The indices of a journal that grew by one line.
LEMMA LastIndex ==
    ASSUME NEW n \in Nat, NEW L \in Nat, L <= n
    PROVE  /\ \A i \in 1 .. (n + 1) : i = n + 1 \/ i \in 1 .. n
           /\ \A i \in 0 .. L : i \in 0 .. n
           /\ \A i \in 1 .. n : i \in 0 .. n
           /\ n + 1 # L /\ n + 1 > L
OBVIOUS

\* The record that the journal grows by has the state in memory.
LEMMA GrowCarries ==
    ASSUME JournalShape, NEW D \in [Nat -> Seq(Command)], NEW a \in Nat, NEW L \in Nat,
           Recoverable(D, a, L), FilesConsistent(D, a, L), MemoryConsistent(a, L),
           phase = "Up", writing # None, log' = Append(log, writing),
           snapshot' \in {snapshot, durable}, durable' \in {snapshot, durable},
           accepted' \subseteq Tracked(state),
           NEW E, cluster = E[Len(log')], \A i \in 0 .. Len(log) : E[i] = D[i]
    PROVE  FilesConsistent(E, a, L)'
<1> DEFINE n == Len(log)
<1>1. /\ log \in Seq(JournalRecord) /\ n \in Nat /\ writing \in JournalRecord
      /\ snapshot \in SnapshotEnvelope \cup {None} /\ durable \in SnapshotEnvelope \cup {None}
  <2>1. /\ log \in Seq(JournalRecord) /\ writing \in JournalRecord \cup {None}
        /\ snapshot \in SnapshotEnvelope \cup {None} /\ durable \in SnapshotEnvelope \cup {None}
    BY Zenon DEF JournalShape, JournalTypeOK
  <2>2. n \in Nat
    BY <2>1
  <2> QED  BY <2>1, <2>2, Zenon
<1>2. L <= n /\ Anchored(snapshot, D, a, L) /\ Anchored(durable, D, a, L)
  BY Zenon DEF Recoverable, History
<1>3. Consistent(cluster, state) /\ writing.state = state
  BY Zenon DEF MemoryConsistent
<1>4. /\ Len(log') = n + 1 /\ log'[n + 1] = writing
      /\ \A i \in 1 .. n : log'[i] = log[i]
  BY <1>1
<1>5. /\ \A i \in 1 .. (n + 1) : i = n + 1 \/ i \in 1 .. n
      /\ \A i \in 0 .. L : i \in 0 .. n
      /\ \A i \in 1 .. n : i \in 0 .. n
      /\ n + 1 # L /\ n + 1 > L
  BY <1>1, <1>2, LastIndex
<1>6. \A i \in 0 .. L : OpensOnce(E[i])
  BY <1>5, Zenon DEF FilesConsistent
<1>7. ASSUME NEW i \in 1 .. (n + 1), i > L PROVE Consistent(E[i], log'[i].state)
  <2>1. CASE i = n + 1
    BY <1>3, <1>4, <2>1, Zenon
  <2>2. CASE i \in 1 .. n
    <3>1. E[i] = D[i] /\ log'[i] = log[i]
      BY <1>4, <1>5, <2>2, Zenon
    <3> QED  BY <1>7, <2>2, <3>1, Zenon DEF FilesConsistent
  <2> QED  BY <1>5, <2>1, <2>2, Zenon
<1>8. Kept(log[Len(log)].state)'
  BY <1>3, <1>4, Zenon DEF Kept
<1>9. ASSUME NEW s \in SnapshotEnvelope \cup {None}, Anchored(s, D, a, L),
             SnapshotConsistent(s, a, L)
      PROVE  SnapshotConsistent(s, a, L)'
  <2>1. Mark(s, a, L) \in 0 .. n
    BY <1>2, <1>9, MarkType
  <2>2. Mark(s, a, L) # n + 1
    <3> DEFINE m == Mark(s, a, L)
    <3>1. m \in 0 .. n
      BY <2>1
    <3> HIDE DEF m, n
    <3>2. m # n + 1
      BY <1>1, <3>1
    <3> QED  BY <3>2 DEF m
  <2> QED  BY <1>4, <1>5, <1>9, <2>2, Zenon DEF SnapshotConsistent
<1>10. SnapshotConsistent(snapshot, a, L)' /\ SnapshotConsistent(durable, a, L)'
  <2>1. SnapshotConsistent(snapshot, a, L) /\ SnapshotConsistent(durable, a, L)
    BY Zenon DEF FilesConsistent
  <2> QED  BY <1>1, <1>2, <1>9, <2>1, Zenon
<1> QED  BY <1>4, <1>6, <1>7, <1>8, <1>10, Zenon DEF FilesConsistent

\* The snapshot of a compaction has what the process has.
LEMMA RenameCarries ==
    ASSUME JournalShape, NEW D \in [Nat -> Seq(Command)], NEW a \in Nat, NEW L \in Nat,
           FilesConsistent(D, a, L), MemoryConsistent(a, L), RenameSnapshot
    PROVE  FilesConsistent(D, a, L)' /\ MemoryConsistent(a, L)'
<1>1. /\ phase = "Up" /\ phase # "Booting" /\ snapshot' = Envelope
      /\ UNCHANGED <<log, durable, phase, cluster, state, writing, accepted>>
  BY DEF RenameSnapshot, Ready
<1>2. Consistent(cluster, state) /\ Kept(state)
  BY <1>1, Zenon DEF MemoryConsistent
<1>3. Envelope.version = 2 /\ Envelope.cluster = cluster /\ Envelope.state = state /\ Envelope # None
  <2>1. Envelope \in SnapshotEnvelope
    BY JournalAssumption DEF Envelope, SnapshotEnvelope, JournalShape, JournalTypeOK, Sequence
  <2> QED  BY <2>1, JournalAssumption DEF Envelope
<1>4. SnapshotConsistent(snapshot, a, L)'
  BY <1>1, <1>2, <1>3, Zenon DEF SnapshotConsistent, IsV2, Kept
<1>5. SnapshotConsistent(durable, a, L)'
  BY <1>1, Zenon DEF FilesConsistent, SnapshotConsistent, Kept
<1>6. FilesConsistent(D, a, L)'
  BY <1>1, <1>4, <1>5, Zenon DEF FilesConsistent, Kept
<1>7. MemoryConsistent(a, L)'
  BY <1>1, Zenon DEF MemoryConsistent, Kept
<1> QED  BY <1>6, <1>7

\* The snapshot alone has the acknowledged requests.
LEMMA EmptyCarries ==
    ASSUME JournalShape, NEW D \in [Nat -> Seq(Command)], NEW a \in Nat, NEW L \in Nat,
           Recoverable(D, a, L), InMemory(D, a, L), CompactionSound,
           FilesConsistent(D, a, L), MemoryConsistent(a, L),
           phase = "Up", compacting = "Truncate",
           log' = <<>>, UNCHANGED <<snapshot, durable, phase, cluster, state, writing, accepted>>,
           NEW E, NEW k \in Nat, k = sequence, cluster = E[0]
    PROVE  FilesConsistent(E, k, 0)' /\ MemoryConsistent(k, 0)'
<1> DEFINE n == Len(log)
<1>1. /\ n \in Nat /\ L <= n /\ sequence \in Nat /\ phase # "Booting"
  BY Numbers
<1>2. /\ IsV2(snapshot) /\ snapshot.sequence = sequence /\ durable = snapshot
  BY DEF CompactionSound
<1>3. Mark(snapshot, a, L) = n
  <2>1. sequence = SequenceAt(n, a, L)
    BY Zenon DEF InMemory
  <2>2. sequence = a + (n - L)
    BY <1>1, <2>1, SequenceAtEnd
  <2>3. L + (sequence - a) = n
    <3> HIDE DEF n
    <3> QED  BY <1>1, <2>2
  <2> QED  BY <1>2, <2>3, Zenon DEF Mark
<1>4. Consistent(snapshot.cluster, snapshot.state) /\ Kept(snapshot.state)
  BY <1>2, <1>3, Zenon DEF FilesConsistent, SnapshotConsistent
<1>5. SnapshotConsistent(snapshot, k, 0)' /\ SnapshotConsistent(durable, k, 0)'
  BY <1>2, <1>4, Zenon DEF SnapshotConsistent, Kept
<1>6. Len(log') = 0 /\ (\A i \in 0 .. 0 : i = 0) /\ 1 .. 0 = {} /\ ~(0 > 0)
  OBVIOUS
<1>7. OpensOnce(E[0])
  BY Zenon DEF MemoryConsistent, Consistent
<1>8. FilesConsistent(E, k, 0)'
  BY <1>5, <1>6, <1>7, Zenon DEF FilesConsistent
<1>9. MemoryConsistent(k, 0)'
  BY <1>1, Zenon DEF MemoryConsistent, Kept
<1> QED  BY <1>8, <1>9

-----------------------------------------------------------------------------
(* Every step.                                                             *)

\* The witnesses of one state serve for the next.
LEMMA Witnesses ==
    ASSUME NEW D \in [Nat -> Seq(Command)], NEW a \in Nat, NEW L \in Nat,
           Recoverable(D, a, L)', InMemory(D, a, L)', Carries(D, a, L)'
    PROVE  Replays'
BY Zenon DEF Replays

\* Every step keeps the inductive invariant.
LEMMA NextInv == JournalInv /\ [JournalNext]_journal_vars => JournalInv'
<1> SUFFICES ASSUME JournalInv, [JournalNext]_journal_vars PROVE JournalInv'
  OBVIOUS
<1>0. JournalShape /\ JournalShape' /\ CompactionSound /\ BootsAgain
  BY NextShape, Zenon DEF JournalInv
<1>1. PICK D \in [Nat -> Seq(Command)], a \in Nat, L \in Nat :
          Recoverable(D, a, L) /\ InMemory(D, a, L) /\ Carries(D, a, L)
  BY Zenon DEF JournalInv, Replays
<1> DEFINE Sound == FilesConsistent(D, a, L) /\ MemoryConsistent(a, L)
<1>2. ASSUME NEW E, NEW k, NEW m,
              Sound => FilesConsistent(E, k, m)' /\ MemoryConsistent(k, m)'
       PROVE  Carries(E, k, m)'
  BY <1>0, <1>1, <1>2, CarriesOn
<1>3. phase = "Up" => Sound
  BY <1>1, Zenon DEF Carries, Unreadable
<1> SUFFICES Replays' /\ CompactionSound' /\ BootsAgain'
  BY <1>0, Zenon DEF JournalInv
<1>4. CASE UNCHANGED journal_vars
  <2>1. Recoverable(D, a, L)'
    BY <1>1, <1>4, FilesStay, Zenon DEF journal_vars
  <2>2. InMemory(D, a, L)'
    BY <1>1, <1>4, Zenon DEF journal_vars, InMemory, Reached
  <2>3. CompactionSound' /\ BootsAgain'
    BY <1>0, <1>4, Zenon DEF journal_vars, CompactionSound, BootsAgain
  <2>4. Sound => FilesConsistent(D, a, L)' /\ MemoryConsistent(a, L)'
    <3>1. FilesConsistent(D, a, L) => FilesConsistent(D, a, L)'
      BY <1>4, FilesStayConsistent, Zenon DEF journal_vars
    <3>2. MemoryConsistent(a, L) => MemoryConsistent(a, L)'
      BY <1>4, Zenon DEF journal_vars, MemoryConsistent, Reached, Kept
    <3> QED  BY <3>1, <3>2
  <2> QED  BY <1>2, <2>1, <2>2, <2>3, <2>4, Witnesses
<1>5. CASE Boot
  <2>1. Recoverable(D, a, L)'
    BY <1>1, <1>5, FilesStay, Zenon DEF Boot
  <2>2. InMemory(D, a, L)'
    BY <1>0, <1>1, <1>5, BootReplays
  <2>3. phase' # "Refused" /\ compacting' = "Idle"
    BY <1>0, <1>5 DEF Boot, JournalShape
  <2>4. CompactionSound' /\ BootsAgain'
    BY <2>3 DEF CompactionSound, BootsAgain
  <2>5. Sound => FilesConsistent(D, a, L)' /\ MemoryConsistent(a, L)'
    <3>1. FilesConsistent(D, a, L) => FilesConsistent(D, a, L)'
      BY <1>5, FilesStayConsistent, Zenon DEF Boot
    <3> QED  BY <1>0, <1>1, <1>5, <3>1, BootCarries
  <2> QED  BY <1>2, <2>1, <2>2, <2>4, <2>5, Witnesses
<1>6. CASE ReplayLine
  <2>1. Recoverable(D, a, L)'
    BY <1>1, <1>6, FilesStay, Zenon DEF ReplayLine
  <2>2. InMemory(D, a, L)' /\ BootsAgain'
    BY <1>0, <1>1, <1>6, ReplayReplays
  <2>3. compacting' = "Idle"
    BY <1>0, <1>6 DEF ReplayLine, JournalShape
  <2>4. CompactionSound'
    BY <2>3 DEF CompactionSound
  <2>5. Sound => FilesConsistent(D, a, L)' /\ MemoryConsistent(a, L)'
    <3>1. FilesConsistent(D, a, L) => FilesConsistent(D, a, L)'
      BY <1>6, FilesStayConsistent, Zenon DEF ReplayLine
    <3> QED  BY <1>0, <1>1, <1>6, <3>1, ReplayCarries
  <2> QED  BY <1>2, <2>1, <2>2, <2>4, <2>5, Witnesses
<1>7. CASE Serve
  <2>1. Recoverable(D, a, L)'
    BY <1>1, <1>7, FilesStay, Zenon DEF Serve
  <2>2. InMemory(D, a, L)'
    BY <1>0, <1>1, <1>7, ServeReplays
  <2>3. phase' # "Refused" /\ compacting' = "Idle"
    BY <1>0, <1>7 DEF Serve, JournalShape
  <2>4. CompactionSound' /\ BootsAgain'
    BY <2>3 DEF CompactionSound, BootsAgain
  <2>5. Sound => FilesConsistent(D, a, L)' /\ MemoryConsistent(a, L)'
    <3>1. FilesConsistent(D, a, L) => FilesConsistent(D, a, L)'
      BY <1>7, FilesStayConsistent, Zenon DEF Serve
    <3> QED  BY <1>0, <1>1, <1>7, <3>1, ServeCarries
  <2> QED  BY <1>2, <2>1, <2>2, <2>4, <2>5, Witnesses
<1>8. /\ state' \in ServiceState /\ state \in ServiceState /\ cluster \in Seq(Command)
  BY <1>0 DEF JournalShape, JournalTypeOK
<1>9. Ready => Consistent(cluster, state)
  BY <1>3, Zenon DEF Ready, MemoryConsistent
<1>10. ASSUME Ready, NEW c \in Command \cup {None}, Persist(c, state'),
             cluster' = Extend(cluster, c),
             UNCHANGED <<disk_vars, phase, sequence, compacting, promise_vars>>,
             Consistent(cluster', state'), Tracked(state) \subseteq Tracked(state')
      PROVE  Replays' /\ CompactionSound' /\ BootsAgain'
  <2>1. Recoverable(D, a, L)'
    BY <1>1, <1>10, FilesStay, Zenon
  <2>2. InMemory(D, a, L)'
    BY <1>0, <1>1, <1>10, <1>8, ChangeReplays, Zenon
  <2>3. phase' # "Refused" /\ compacting' = "Idle"
    BY <1>10 DEF Ready
  <2>4. CompactionSound' /\ BootsAgain'
    BY <2>3 DEF CompactionSound, BootsAgain
  <2>5. Sound => FilesConsistent(D, a, L)' /\ MemoryConsistent(a, L)'
    <3>1. FilesConsistent(D, a, L) => FilesConsistent(D, a, L)'
      BY <1>10, FilesStayConsistent, Zenon
    <3>2. MemoryConsistent(a, L) => MemoryConsistent(a, L)'
      BY <1>0, <1>10, ChangeCarries, Zenon
    <3> QED  BY <3>1, <3>2
  <2> QED  BY <1>2, <2>1, <2>2, <2>4, <2>5, Witnesses
<1>11. Extend(cluster, None) = cluster
  BY Zenon DEF Extend
<1>12. \A c \in Command : Extend(cluster, c) = Append(cluster, c)
  BY NoneIsNoCommand, Zenon DEF Extend
<1>13. CASE Submit
  <2> DEFINE N == state.next_request
  <2>1. state' = [state EXCEPT !.queue = @ \cup {N}, !.next_request = @ + 1]
    BY <1>13, Zenon DEF Submit
  <2>2. /\ state'.queue = state.queue \cup {N} /\ state'.requests = state.requests
        /\ state'.next_lease = state.next_lease /\ state'.next_request = N + 1
    <3> HIDE DEF N
    <3>1. /\ state'.queue = state.queue \cup {N} /\ state'.requests = state.requests
          /\ state'.next_lease = state.next_lease
          /\ state'.next_request = state.next_request + 1
      BY <1>8, <2>1 DEF ServiceState
    <3> QED  BY <3>1 DEF N
  <2>3. Consistent(cluster, state')
    <3>1. Consistent(cluster, state)
      BY <1>13, <1>9, Zenon DEF Submit
    <3> QED  BY <1>8, <2>2, <3>1, ConsistentQueues
  <2>4. Tracked(state) \subseteq Tracked(state')
    BY <2>2, Zenon DEF Tracked
  <2> QED  BY <1>10, <1>11, <1>13, <2>3, <2>4, Zenon DEF Submit
<1>14. CASE PersistUnchanged
  BY <1>10, <1>11, <1>14, <1>9, Zenon DEF PersistUnchanged
<1>15. CASE CommitOther
  <2>1. 0 \in Command /\ 0 \notin Lease
    BY DEF Command, Lease
  <2>2. Consistent(cluster, state) /\ state' = state /\ cluster' = Append(cluster, 0)
    BY <1>15, <1>9, Zenon DEF CommitOther
  <2>3. OpensOnce(Append(cluster, 0))
    <3>1. OpensOnce(cluster)
      BY <2>2, Zenon DEF Consistent
    <3> QED  BY <1>8, <2>1, <3>1, OpensOnceMore
  <2>4. 0 < state.next_lease
    BY <1>8, PartTypes
  <2>5. Consistent(cluster', state')
    <3>1. Consistent(Append(cluster, 0), state)
      BY <1>8, <2>1, <2>2, <2>3, <2>4, ConsistentMore
    <3> QED  BY <2>2, <3>1, Zenon
  <2> QED  BY <1>10, <1>12, <1>15, <2>1, <2>2, <2>5, Zenon DEF CommitOther
<1>16. ASSUME NEW r \in Request, AdmitOne(r)
       PROVE  Replays' /\ CompactionSound' /\ BootsAgain'
  <2> DEFINE l == state.next_lease
  <2>1. l <= MaxLease /\ l \in Nat /\ r \in state.queue /\ Ready
    BY <1>8, <1>16, PartTypes, Zenon DEF AdmitOne
  <2>2. l \in Command
    <3>1. l <= MaxLease /\ l \in 1 .. MaxLease + 1 /\ l \in Nat /\ MaxLease \in Nat
      BY <1>8, <2>1, PartTypes, JournalAssumption, Zenon
    <3> HIDE DEF l
    <3> QED  BY <3>1 DEF Command, Lease
  <2>3. /\ state'.queue = state.queue \ {r}
        /\ state'.requests = state.requests \cup {<<l, r>>}
        /\ state'.next_lease = l + 1 /\ state'.next_request = state.next_request
    <3>1. state' = [state EXCEPT !.queue = @ \ {r}, !.requests = @ \cup {<<l, r>>},
                                 !.next_lease = @ + 1]
      BY <1>16, Zenon DEF AdmitOne, Admitted
    <3> HIDE DEF l
    <3>2. /\ state'.queue = state.queue \ {r}
          /\ state'.requests = state.requests \cup {<<l, r>>}
          /\ state'.next_lease = state.next_lease + 1
          /\ state'.next_request = state.next_request
      BY <1>8, <3>1 DEF ServiceState
    <3> QED  BY <3>2 DEF l
  <2>4. Consistent(cluster', state')
    <3>1. Consistent(cluster, state) /\ cluster' = Append(cluster, l)
      BY <1>16, <1>9, <2>1, Zenon DEF AdmitOne
    <3>2. Consistent(Append(cluster, l), state')
      BY <1>8, <2>1, <2>3, <3>1, ConsistentAdmits
    <3> QED  BY <3>1, <3>2, Zenon
  <2>5. Tracked(state) \subseteq Tracked(state')
    <3>1. <<l, r>>[2] = r
      OBVIOUS
    <3> HIDE DEF l
    <3> QED  BY <2>3, <3>1 DEF Tracked
  <2> QED  BY <1>10, <1>12, <1>16, <2>2, <2>4, <2>5, Zenon DEF AdmitOne
<1>17. ASSUME NEW r \in Request, AdmitRefused(r)
       PROVE  Replays' /\ CompactionSound' /\ BootsAgain'
  <2>1. Recoverable(D, a, L)'
    BY <1>1, <1>17, FilesStay, Zenon DEF AdmitRefused
  <2>2. InMemory(D, a, L)'
    BY <1>1, <1>17, Zenon DEF AdmitRefused, InMemory, Reached
  <2>3. CompactionSound' /\ BootsAgain'
    BY <1>0, <1>17, Zenon DEF AdmitRefused, CompactionSound, BootsAgain
  <2>4. /\ phase = "Up" /\ phase' = "Up" /\ phase' # "Booting" /\ writing = None /\ writing' = None
        /\ accepted' = accepted /\ cluster' = cluster
        /\ state' = [state EXCEPT !.next_lease = @ + 1]
    BY <1>17 DEF AdmitRefused, Ready
  <2>5. /\ state'.queue = state.queue /\ state'.requests = state.requests
        /\ state'.next_lease = state.next_lease + 1
        /\ state'.next_request = state.next_request
    BY <1>8, <2>4 DEF ServiceState
  <2>6. Consistent(cluster, state')
    <3>1. Consistent(cluster, state)
      BY <1>3, <2>4, Zenon DEF MemoryConsistent
    <3>2. state.next_lease <= state'.next_lease /\ state.next_request <= state'.next_request
      <4>1. state.next_lease \in Nat /\ state.next_request \in Nat
        BY <1>8, PartTypes
      <4>2. \A u \in Nat : u <= u + 1 /\ u <= u
        OBVIOUS
      <4> QED  BY <2>5, <4>1, <4>2, Zenon
    <3> QED  BY <1>8, <2>5, <3>1, <3>2, ConsistentLater
  <2>7. Sound => FilesConsistent(D, a, L)' /\ MemoryConsistent(a, L)'
    <3>1. FilesConsistent(D, a, L) => FilesConsistent(D, a, L)'
      BY <1>17, FilesStayConsistent, Zenon DEF AdmitRefused
    <3>2. Tracked(state') = Tracked(state)
      BY <2>5, Zenon DEF Tracked
    <3>3. MemoryConsistent(a, L) => MemoryConsistent(a, L)'
      BY <2>4, <2>6, <3>2, Zenon DEF MemoryConsistent, Kept
    <3> QED  BY <3>1, <3>3
  <2> QED  BY <1>2, <2>1, <2>2, <2>3, <2>7, Witnesses
<1>18. CASE SyncRecord
  <2>1. /\ phase = "Up" /\ writing # None /\ torn = FALSE
        /\ log' = Append(log, writing) /\ acted' = cluster
        /\ UNCHANGED <<snapshot, durable, phase, cluster, compacting>>
        /\ sequence' = writing.sequence /\ writing' = None /\ state' = state
        /\ accepted' = accepted \cup state.queue \cup {p[2] : p \in state.requests}
    BY <1>0, <1>18 DEF SyncRecord, Appended, JournalShape
  <2>2. PICK E \in [Nat -> Seq(Command)] :
            /\ Recoverable(E, a, L)' /\ cluster = E[Len(log')]
            /\ \A i \in 0 .. Len(log) : E[i] = D[i]
            /\ writing.sequence = SequenceAt(Len(log'), a, L)
    BY <1>0, <1>1, <2>1, FilesGrow
  <2>3. phase' # "Booting" /\ phase' # "Refused" /\ compacting' = "Idle"
    BY <1>0, <2>1 DEF JournalShape, JournalTypeOK
  <2>4. InMemory(E, a, L)'
    BY <2>1, <2>2, <2>3, Zenon DEF InMemory
  <2>5. CompactionSound' /\ BootsAgain'
    BY <2>3 DEF CompactionSound, BootsAgain
  <2>6. Sound => FilesConsistent(E, a, L)' /\ MemoryConsistent(a, L)'
    <3>1. MemoryConsistent(a, L) => accepted' \subseteq Tracked(state)
      BY <2>1, Zenon DEF MemoryConsistent, Kept, Tracked
    <3>2. Sound => FilesConsistent(E, a, L)'
      BY <1>0, <1>1, <2>1, <2>2, <3>1, GrowCarries
    <3>3. MemoryConsistent(a, L) => MemoryConsistent(a, L)'
      BY <2>1, <2>3, <3>1, Zenon DEF MemoryConsistent, Kept
    <3> QED  BY <3>2, <3>3
  <2> QED  BY <1>2, <2>2, <2>4, <2>5, <2>6, Witnesses
<1>19. CASE RenameSnapshot
  <2>1. Recoverable(D, a, L)' /\ InMemory(D, a, L)' /\ CompactionSound'
    BY <1>0, <1>1, <1>19, RenameReplays
  <2>2. BootsAgain'
    BY <1>19 DEF RenameSnapshot, Ready, BootsAgain
  <2>3. Sound => FilesConsistent(D, a, L)' /\ MemoryConsistent(a, L)'
    BY <1>0, <1>19, RenameCarries
  <2> QED  BY <1>2, <2>1, <2>2, <2>3, Witnesses
<1>20. CASE SyncParent
  <2>1. Recoverable(D, a, L)'
    BY <1>1, <1>20, FilesStay, Zenon DEF SyncParent
  <2>2. InMemory(D, a, L)'
    BY <1>1, <1>20, Zenon DEF SyncParent, InMemory, Reached
  <2>3. compacting # "Idle" /\ phase' # "Refused"
    BY <1>20 DEF SyncParent
  <2>4. CompactionSound' /\ BootsAgain'
    BY <1>0, <1>20, <2>3, Zenon DEF SyncParent, CompactionSound, BootsAgain
  <2>5. Sound => FilesConsistent(D, a, L)' /\ MemoryConsistent(a, L)'
    <3>1. FilesConsistent(D, a, L) => FilesConsistent(D, a, L)'
      BY <1>20, FilesStayConsistent, Zenon DEF SyncParent
    <3>2. MemoryConsistent(a, L) => MemoryConsistent(a, L)'
      BY <1>20, Zenon DEF SyncParent, MemoryConsistent, Reached, Kept
    <3> QED  BY <3>1, <3>2
  <2> QED  BY <1>2, <2>1, <2>2, <2>4, <2>5, Witnesses
<1>21. ASSUME phase = "Up", compacting = "Truncate", log' = <<>>, compacting' = "Idle",
              UNCHANGED <<snapshot, durable, phase, cluster, state, sequence, writing,
                          promise_vars>>
       PROVE  Replays' /\ CompactionSound' /\ BootsAgain'
  <2>1. PICK E \in [Nat -> Seq(Command)], k \in Nat :
            Recoverable(E, k, 0)' /\ k = sequence /\ cluster = E[0]
    BY <1>0, <1>1, <1>21, FilesEmpty
  <2>2. writing = None /\ phase' # "Booting" /\ phase' # "Refused"
    BY <1>0, <1>21 DEF JournalShape
  <2>3. Len(log') = 0 /\ SequenceAt(0, k, 0) = k
    BY <1>21 DEF SequenceAt
  <2>4. InMemory(E, k, 0)'
    <3>1. sequence' = SequenceAt(Len(log'), k, 0)
      BY <1>21, <2>1, <2>3, Zenon
    <3>2. writing' = None /\ cluster' = E[Len(log')]
      BY <1>21, <2>1, <2>2, <2>3, Zenon
    <3> QED  BY <2>2, <3>1, <3>2, Zenon DEF InMemory
  <2>5. CompactionSound' /\ BootsAgain'
    BY <1>21, <2>2 DEF CompactionSound, BootsAgain
  <2>6. 0 \in Nat
    OBVIOUS
  <2>7. Sound => FilesConsistent(E, k, 0)' /\ MemoryConsistent(k, 0)'
    BY <1>0, <1>1, <1>21, <2>1, EmptyCarries
  <2> QED  BY <1>2, <2>1, <2>4, <2>5, <2>6, <2>7, Witnesses
<1>22. CASE Truncate
  BY <1>21, <1>22, Zenon DEF Truncate
<1>23. CASE CompactFails
  <2>1. CASE log' = log
    <3>1. Recoverable(D, a, L)'
      BY <1>1, <1>23, <2>1, FilesStay, Zenon DEF CompactFails
    <3>2. InMemory(D, a, L)'
      BY <1>1, <1>23, <2>1, Zenon DEF CompactFails, InMemory, Reached
    <3>3. phase' # "Refused" /\ compacting' = "Idle"
      BY <1>23 DEF CompactFails
    <3>4. CompactionSound' /\ BootsAgain'
      BY <3>3 DEF CompactionSound, BootsAgain
    <3>5. Sound => FilesConsistent(D, a, L)' /\ MemoryConsistent(a, L)'
      <4>1. FilesConsistent(D, a, L) => FilesConsistent(D, a, L)'
        BY <1>23, <2>1, FilesStayConsistent, Zenon DEF CompactFails
      <4>2. MemoryConsistent(a, L) => MemoryConsistent(a, L)'
        BY <1>23, <2>1, Zenon DEF CompactFails, MemoryConsistent, Reached, Kept
      <4> QED  BY <4>1, <4>2
    <3> QED  BY <1>2, <3>1, <3>2, <3>4, <3>5, Witnesses
  <2>2. CASE compacting = "Truncate" /\ log' = <<>>
    BY <1>21, <1>23, <2>2, Zenon DEF CompactFails
  <2> QED  BY <1>23, <2>1, <2>2, Zenon DEF CompactFails
<1>24. CASE Crash
  <2>1. phase' = "Down" /\ compacting' = "Idle" /\ durable' = durable
        /\ acted' = acted /\ accepted' = accepted
        /\ snapshot' \in {snapshot, durable} /\ torn = FALSE
    BY <1>0, <1>24 DEF Crash, JournalShape
  <2>2. phase' # "Booting" /\ phase' # "Up" /\ phase' # "Refused"
    BY <2>1
  <2>3. CompactionSound' /\ BootsAgain'
    BY <2>1, <2>2 DEF CompactionSound, BootsAgain
  <2>4. CASE log' = log
    <3>1. Recoverable(D, a, L)'
      BY <1>1, <2>1, <2>4, FilesStay, Zenon
    <3>2. InMemory(D, a, L)'
      BY <2>2, Zenon DEF InMemory
    <3>3. Sound => FilesConsistent(D, a, L)' /\ MemoryConsistent(a, L)'
      <4>1. FilesConsistent(D, a, L) => FilesConsistent(D, a, L)'
        BY <2>1, <2>4, FilesStayConsistent, Zenon
      <4> QED  BY <2>2, <4>1, Zenon DEF MemoryConsistent
    <3> QED  BY <1>2, <2>3, <3>1, <3>2, <3>3, Witnesses
  <2>5. CASE log' # log
    <3>1. writing # None /\ log' = Append(log, writing) /\ phase = "Up"
      BY <1>0, <1>24, <2>1, <2>5 DEF Crash, Appended, JournalShape
    <3>2. PICK E \in [Nat -> Seq(Command)] :
              /\ Recoverable(E, a, L)' /\ cluster = E[Len(log')]
              /\ \A i \in 0 .. Len(log) : E[i] = D[i]
      BY <1>0, <1>1, <2>1, <3>1, FilesGrow
    <3>3. InMemory(E, a, L)'
      BY <2>2, Zenon DEF InMemory
    <3>4. Sound => FilesConsistent(E, a, L)' /\ MemoryConsistent(a, L)'
      <4>1. MemoryConsistent(a, L) => accepted' \subseteq Tracked(state)
        BY <2>1, <3>1, Zenon DEF MemoryConsistent, Kept
      <4>2. Sound => FilesConsistent(E, a, L)'
        BY <1>0, <1>1, <2>1, <3>1, <3>2, <4>1, GrowCarries
      <4> QED  BY <2>2, <4>2, Zenon DEF MemoryConsistent
    <3> QED  BY <1>2, <2>3, <3>2, <3>3, <3>4, Witnesses
  <2> QED  BY <2>4, <2>5
<1> QED
  BY <1>4, <1>5, <1>6, <1>7, <1>13, <1>14, <1>15, <1>16, <1>17, <1>18, <1>19, <1>20,
     <1>22, <1>23, <1>24, Zenon DEF JournalNext

\* The inductive invariant holds at the start and is kept by every step.
LEMMA JournalInvariant == JournalSpec => []JournalInv
<1>1. JournalInit => JournalInv
  <2>1. JournalInit => CompactionSound /\ BootsAgain
    BY DEF JournalInit, CompactionSound, BootsAgain
  <2> QED  BY <2>1, InitShape, InitReplays DEF JournalInv
<1> QED  BY <1>1, NextInv, PTL DEF JournalSpec

-----------------------------------------------------------------------------
(* The theorems.                                                           *)

\* Whatever files a crash leaves, the cluster that the next boot replays
\* begins with every command the controller had acted on (append_value,
\* boot, compact): ActedSurvives.
THEOREM ActedCommandsSurvive == JournalSpec => []ActedSurvives
<1>1. JournalInv => ActedSurvives
  <2> SUFFICES ASSUME JournalInv, phase = "Up"
               PROVE  Len(acted) <= Len(cluster) /\ \A i \in DOMAIN acted : cluster[i] = acted[i]
    BY DEF ActedSurvives
  <2>1. PICK D \in [Nat -> Seq(Command)], a \in Nat, L \in Nat :
            Recoverable(D, a, L) /\ InMemory(D, a, L)
    BY Zenon DEF JournalInv, Replays
  <2>2. /\ acted \in Seq(Command) /\ cluster \in Seq(Command) /\ Len(log) \in Nat
        /\ writing # None => writing.command \in Command \cup {None}
    BY DEF JournalInv, JournalShape, JournalTypeOK, LineOK, JournalRecord
  <2>3. Prefix(acted, D[Len(log)]) /\ D[Len(log)] \in Seq(Command)
    <3>1. Prefix(acted, D[Len(log)])
      BY <2>1, Zenon DEF Recoverable
    <3> QED  BY <2>2, <3>1
  <2>4. Prefix(D[Len(log)], cluster)
    <3>1. CASE writing = None
      <4>1. cluster = D[Len(log)]
        BY <2>1, <3>1, Zenon DEF InMemory
      <4>2. None \in Command \cup {None}
        OBVIOUS
      <4> QED  BY <2>2, <4>1, <4>2, ExtendType
    <3>2. CASE writing # None
      <4>1. cluster = Extend(D[Len(log)], writing.command)
        BY <2>1, <3>2, Zenon DEF InMemory
      <4> QED  BY <2>2, <2>3, <3>2, <4>1, ExtendType
    <3> QED  BY <3>1, <3>2
  <2>5. Prefix(acted, cluster)
    BY <2>2, <2>3, <2>4, PrefixTransitive
  <2>6. DOMAIN acted = 1 .. Len(acted)
    BY <2>2
  <2> QED  BY <2>5, <2>6, Zenon DEF Prefix
<1> QED  BY <1>1, JournalInvariant, PTL

\* The controller boots from whatever files it and its crashes leave; it
\* refuses only an older version's files whose lineage is unknown (boot,
\* read_records): BootsAgain.
THEOREM ControllerBootsAgain == JournalSpec => []BootsAgain
<1>1. JournalInv => BootsAgain
  BY DEF JournalInv
<1> QED  BY <1>1, JournalInvariant, PTL

\* While the controller serves, its state is consistent with its cluster and
\* has every acknowledged request.
LEMMA ServesConsistent ==
    ASSUME JournalInv, phase = "Up"
    PROVE  Consistent(cluster, state) /\ Kept(state)
<1>1. PICK D \in [Nat -> Seq(Command)], a \in Nat, L \in Nat : Carries(D, a, L)
  BY Zenon DEF JournalInv, Replays
<1> QED  BY <1>1, Zenon DEF Carries, Unreadable, MemoryConsistent

\* Through every crash and replay an acknowledged request waits in the queue
\* or is carried by exactly one opened lease (submit, admit_one,
\* restore_state): AdmittedExactlyOnce.
THEOREM RequestsAdmittedOnce == JournalSpec => []AdmittedExactlyOnce
<1>1. JournalInv => AdmittedExactlyOnce
  <2> SUFFICES ASSUME JournalInv, phase = "Up", NEW r \in accepted
               PROVE  LET carriers == {l \in Lease : <<l, r>> \in state.requests
                                                    /\ Opened(l) # {}}
                      IN  IF r \in state.queue THEN carriers = {}
                          ELSE \E l \in Lease : carriers = {l}
    BY Zenon DEF AdmittedExactlyOnce
  <2> DEFINE carriers == {l \in Lease : <<l, r>> \in state.requests /\ Opened(l) # {}}
  <2>1. Consistent(cluster, state) /\ Kept(state)
    BY ServesConsistent
  <2>2. state.requests \in SUBSET (Lease \X Request)
    BY PartTypes DEF JournalInv, JournalShape, JournalTypeOK
  <2>3. \A l : <<l, r>>[1] = l /\ <<l, r>>[2] = r
    OBVIOUS
  <2>4. CASE r \in state.queue
    <3>1. \A l : <<l, r>> \notin state.requests
      BY <2>1, <2>3, <2>4, Zenon DEF Consistent
    <3> QED  BY <2>4, <3>1
  <2>5. CASE r \notin state.queue
    <3>1. PICK p \in state.requests : p[2] = r
      BY <2>1, <2>5 DEF Kept, Tracked
    <3>2. p = <<p[1], r>> /\ p[1] \in Lease
      BY <2>2, <3>1
    <3>3. Opened(p[1]) # {}
      BY <2>1, Zenon DEF Consistent, Opened
    <3>4. ASSUME NEW l \in Lease, <<l, r>> \in state.requests PROVE l = p[1]
      <4>1. <<l, r>> = p
        BY <2>1, <2>3, <3>1, <3>4, Zenon DEF Consistent
      <4> QED  BY <2>3, <4>1, Zenon
    <3>5. carriers = {p[1]}
      BY <3>2, <3>3, <3>4
    <3> QED  BY <2>5, <3>2, <3>5, Zenon
  <2> QED  BY <2>4, <2>5
<1> QED  BY <1>1, JournalInvariant, PTL

\* No lease is opened twice, and the allocator is past every lease that was
\* ever opened, whatever was lost in a crash (replay, restore_state):
\* LeaseIdentitiesFresh.
THEOREM LeasesFresh == JournalSpec => []LeaseIdentitiesFresh
<1>1. JournalInv => LeaseIdentitiesFresh
  <2> SUFFICES ASSUME JournalInv, phase = "Up", NEW l \in Lease,
                      NEW i \in Opened(l), NEW j \in Opened(l)
               PROVE  i = j /\ l < state.next_lease
    BY Zenon DEF LeaseIdentitiesFresh
  <2>1. Consistent(cluster, state)
    BY ServesConsistent
  <2>2. i \in DOMAIN cluster /\ j \in DOMAIN cluster /\ cluster[i] = l /\ cluster[j] = l
    BY Zenon DEF Opened
  <2> QED  BY <2>1, <2>2, Zenon DEF Consistent, OpensOnce
<1> QED  BY <1>1, JournalInvariant, PTL

\* Every record, snapshot and restored state is well formed (JournalRecord,
\* SnapshotEnvelope, restore_state): JournalTypeOK.
THEOREM JournalTypeCorrect == JournalSpec => []JournalTypeOK
<1>1. JournalInv => JournalTypeOK
  BY DEF JournalInv, JournalShape
<1> QED  BY <1>1, JournalInvariant, PTL
=============================================================================
