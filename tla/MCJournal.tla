----------------------------- MODULE MCJournal -----------------------------
(***************************************************************************)
(* A first boot finds no files, a command-only log, or a snapshot of the   *)
(* older version with or without commands after it.                        *)
(***************************************************************************)
EXTENDS Journal

\* Nothing, one lease, or another command.
OldLogs == {<<>>, <<1>>, <<0>>}

\* A request was queued before the older version's snapshot.
OldSnapshots == {[version |-> 1, sequence |-> 0, cluster |-> <<0>>,
                  state |-> [queue |-> {1}, requests |-> {},
                             next_lease |-> 1, next_request |-> 2]]}
=============================================================================
