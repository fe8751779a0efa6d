----------------------------- MODULE MCServing -----------------------------
(* What a serving node does for many at once: HTTP requests that compete for *)
(* its slots, and processes of its host that compete for Cloudflare's leave   *)
(* to open a tunnel.  The two share no state, so a behaviour is one of either;*)
(* the other one stays where it starts.                                      *)
EXTENDS MCTaskAdmission, TunnelGate

CONSTANTS r1, r3   \* a request that queues, and one that keeps a slot busy

VARIABLE subject   \* the component that moves

servingVars == <<subject, vars, tgVars>>

\* Either any two requests share the slots; or one that queues and one that fails
\* fast arrive while a third one waits for a handler that hangs, and find a slot less.
Arrivals ==
    /\ \A r \in Requests : pc[r] = "idle" /\ pc'[r] # "idle" =>
          IF subject = "task" THEN r # r3
          ELSE (r = r3 \/ pc[r3] = "wait") /\ (req'[r].queues <=> r = r1)
    /\ subject = "busy" => loopOpen' /\ result'[r3] = "none"

ServingInit == subject \in {"task", "busy", "gate"} /\ Init /\ TgInit

ServingNext ==
    \/ subject # "gate" /\ Next /\ Arrivals /\ UNCHANGED <<subject, tgVars>>
    \/ subject = "gate" /\ TgNext /\ UNCHANGED <<subject, vars>>

ServingFairness ==
    \/ subject # "gate" /\ Fairness
    \/ subject = "gate" /\ TgFairness

ServingSpec == ServingInit /\ [][ServingNext]_servingVars /\ ServingFairness

\* OpenersProceed, of the behaviours in which processes ask for a tunnel: no
\* cooldown, gate or lease that a process left behind keeps the others waiting.
EveryOpenerProceeds == subject = "gate" => OpenersProceed
=============================================================================
