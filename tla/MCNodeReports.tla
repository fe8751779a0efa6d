--------------------------- MODULE MCNodeReports ---------------------------
(* What a node tells of itself: its registration and the tasks it reports to *)
(* the directory, and the state of its backend in heartbeats and in the      *)
(* health file.  The two share no state, so a behaviour is one of either;    *)
(* the other one stays where it starts.                                      *)
EXTENDS DirectorySession, BackendHealth

VARIABLE subject   \* the component that moves

\* A backend nobody named that is LM Studio, MeshLLM and Ollama.
McServers ==
  { [flavor |-> "none", kind |-> "lmstudio", expects |-> TRUE],
    [flavor |-> "meshllm", kind |-> "meshllm", expects |-> TRUE],
    [flavor |-> "ollama", kind |-> "ollama", expects |-> TRUE] }

reportsVars == <<subject, vars, bhVars>>

ReportsInit ==
    /\ subject \in {"session", "health"}
    /\ Init /\ BhInit
    \* Of a component that does not move, one initial state is enough.
    /\ subject # "health" => bhBackend = "ready" /\ bhServer.kind = "ollama"

ReportsNext ==
    \/ subject = "session" /\ Next /\ UNCHANGED <<subject, bhVars>>
    \/ subject = "health" /\ BhNext /\ UNCHANGED <<subject, vars>>

ReportsSpec ==
    ReportsInit /\ [][ReportsNext]_reportsVars /\ (subject = "session" => Fairness)
=============================================================================
