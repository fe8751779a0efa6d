--------------------------- MODULE MCPeerContact ---------------------------
(* The nodes of MCPeerGossip, each with one round in every interval of       *)
(* gossip_loop, and with how long a peer has been listed by a node without a *)
(* message passing between the two.                                          *)
EXTENDS MCPeerGossip

VARIABLES
    pgDone,    \* the nodes whose round of this interval is over
    pgSince    \* intervals since m was first listed by n or last in contact with it

pcVars == <<pgVars, pgDone, pgSince>>

PcInit ==
    /\ PgInit
    /\ pgDone = {}
    /\ pgSince = [n \in PgNodes |-> [m \in PgNodes |-> 0]]

\* The exchange of n reaches m in this step.
Reaches(n, m) ==
    pgCall[n].at = "sent" /\ pgCall[n].to = m /\ pgCall'[n].at \in {"answered", "refused"}

\* The answer of m comes back to n in this step.
AnswersTo(n, m) == pgCall[n].at = "answered" /\ pgCall[n].to = m /\ pgCall'[n] = Idle

Contact(n, m) == Reaches(n, m) \/ Reaches(m, n) \/ AnswersTo(n, m)

\* The round of n begins, and ends in this step with prune as its last call.
RoundBegins(n) == pgCall[n] = Idle /\ n \in pgUp /\ pgCall'[n] # Idle
RoundEnds(n) ==
    pgCall[n].at \in {"sent", "answered", "refused"} /\ pgCall'[n] = Idle /\ n \in pgUp'

\* Requests give up after 5 seconds, so an interval of 30 ends with every round
\* of it over.
PcNext ==
    /\ PgNext
    /\ \A n \in PgNodes : RoundBegins(n) => n \notin pgDone
    /\ PgTick => \A n \in pgUp : pgCall[n] = Idle /\ (n \in PgMesh => n \in pgDone)
    /\ pgDone' = IF PgTick THEN {} ELSE (pgDone \union {n \in PgNodes : RoundEnds(n)}) \intersect pgUp'
    /\ pgSince' = [n \in PgNodes |-> [m \in PgNodes |->
                      IF m \notin Listed(n) \/ Contact(n, m) THEN 0
                      ELSE IF PgTick /\ pgSince[n][m] <= PgExpiry THEN pgSince[n][m] + 1
                      ELSE pgSince[n][m]]]

PcSpec == PcInit /\ [][PcNext]_pcVars

\* "Peers are pruned after 90s without contact" (the header of peer_manager.py):
\* a peer that is gone and that the prune of a round leaves listed was first
\* listed, or exchanged a message with the node in either direction, within the
\* expiry window.
PrunedWithoutContact ==
    [][\A n \in PgNodes : RoundEnds(n) =>
          \A m \in Listed(n)' \ pgUp' : pgSince'[n][m] <= PgExpiry]_pcVars
=============================================================================
