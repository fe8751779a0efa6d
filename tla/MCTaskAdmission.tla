-------------------------- MODULE MCTaskAdmission --------------------------
(* Small instances of TaskAdmission for TLC.                                *)
EXTENDS TaskAdmission

\* One request with a nonce that waits for a slot, and one without that fails
\* fast, both for the same task: replays, duplicates and queueing all happen.
FewInputs ==
  { [nonce |-> n, task |-> t, queues |-> TRUE]  : n \in Nonces, t \in TaskIds } \cup
  { [nonce |-> None, task |-> t, queues |-> FALSE] : t \in TaskIds }
============================================================================
