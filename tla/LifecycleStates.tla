--------------------------- MODULE LifecycleStates ---------------------------
(***************************************************************************)
(* The states of an asynchronous task and its legal transitions             *)
(* (service_lifecycle.py, TERMINAL_STATES and TRANSITIONS).                 *)
(***************************************************************************)
TerminalStates == {"rejected", "completed", "failed", "cancelled", "expired"}

ActiveStates == {"submitted", "accepted", "queued", "running", "waiting", "streaming"}

States == TerminalStates \cup ActiveStates

Stops == {"cancelled", "failed", "expired"}

Transitions ==
  [s \in States |->
     CASE s = "submitted" -> {"accepted", "rejected", "expired"}
       [] s = "accepted"  -> Stops \cup {"queued", "running", "completed"}
       [] s = "queued"    -> Stops \cup {"running", "waiting"}
       [] s = "running"   -> Stops \cup {"waiting", "streaming", "completed"}
       [] s = "waiting"   -> Stops \cup {"queued", "running"}
       [] s = "streaming" -> Stops \cup {"streaming", "waiting", "completed"}
       [] OTHER           -> {}]

\* The deprecated name callers may still use for "expired".
Canonical(s) == IF s = "timed_out" THEN "expired" ELSE s
=============================================================================
