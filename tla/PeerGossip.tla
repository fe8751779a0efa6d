------------------------------ MODULE PeerGossip ------------------------------
(***************************************************************************)
(* The mesh layer of the nodes (peer_manager.py) and its endpoint          *)
(* POST /v1/peers (node.py).  Every node keeps the peers it knows with the *)
(* time since their last contact and, when it has a path for it, a file of *)
(* them.  A node that runs the mesh exchanges its list with a peer drawn   *)
(* at random and then prunes; a node that does not still answers           *)
(* exchanges.                                                              *)
(*                                                                         *)
(* Of a peer entry only the id is kept; time is counted in gossip          *)
(* intervals.                                                              *)
(***************************************************************************)
EXTENDS FiniteSets, Naturals

CONSTANTS
    PgNodes,
    PgMesh,        \* the nodes with enable_mesh
    PgKeepers,     \* the nodes with a peer_persist_path
    PgKey,         \* the node_hmac_key each was started with, NoKey for none
    NoKey,
    PgExpiry,      \* _PEER_EXPIRY_S
    BootstrapLimit,
    PgMaxCrashes,  \* bound: crashes of nodes
    PgMaxLosses    \* bound: lost requests and answers between live nodes

VARIABLES
    pgUp,      \* the nodes that run
    pgAge,     \* _peers: time since last_contact of each peer, Unknown if not listed
    pgFile,    \* the persisted ids
    pgCall,    \* the gossip coroutine of each node
    pgCrashes,
    pgLosses

pgVars == <<pgUp, pgAge, pgFile, pgCall, pgCrashes, pgLosses>>

Unknown == PgExpiry + 2
Listed(n) == {m \in PgNodes : pgAge[n][m] # Unknown}

Idle == [at |-> "sleep"]
Bootstrapping == [at |-> "bootstrap"]

PgInit ==
    /\ pgUp = {}
    /\ pgAge = [n \in PgNodes |-> [m \in PgNodes |-> Unknown]]
    /\ pgFile = [n \in PgNodes |-> {}]
    /\ pgCall = [n \in PgNodes |-> Idle]
    /\ pgCrashes = 0 /\ pgLosses = 0

-----------------------------------------------------------------------------
\* merge_peers: every entry but the node's own counts as contact now.  _own_id
\* is set by start(), which only a mesh node calls.
Merged(n, ids) ==
    [m \in PgNodes |-> IF m \in ids /\ ~(m = n /\ n \in PgMesh) THEN 0 ELSE pgAge[n][m]]

\* _persist, when the list grew: a snapshot is taken under the lock and written
\* outside it, so the file holds the new list, or what it held if the write
\* fails or an older snapshot is written last.
Persist(n, age) ==
    LET now == {m \in PgNodes : age[m] # Unknown}
    IN  IF n \notin PgKeepers \/ now \subseteq Listed(n) THEN UNCHANGED pgFile
        ELSE pgFile' \in {pgFile, [pgFile EXCEPT ![n] = now]}

\* prune: peers whose last contact is older than the expiry window.
Prune(age) == [m \in PgNodes |-> IF age[m] > PgExpiry THEN Unknown ELSE age[m]]

\* verify_exchange: the receiver computes the signature with its own key; a
\* receiver without one accepts everything.
VerifyExchange(m, n) == PgKey[m] = NoKey \/ PgKey[m] = PgKey[n]

-----------------------------------------------------------------------------
\* start, for a mesh node: the persisted peers count as contacted now, then
\* the directory is asked.
PgStart(n) ==
    /\ n \notin pgUp
    /\ pgUp' = pgUp \union {n}
    /\ IF n \in PgMesh
       THEN /\ pgAge' = [pgAge EXCEPT ![n] =
                            [m \in PgNodes |-> IF m \in pgFile[n] \ {n} THEN 0 ELSE Unknown]]
            /\ pgCall' = [pgCall EXCEPT ![n] = Bootstrapping]
       ELSE UNCHANGED <<pgAge, pgCall>>
    /\ UNCHANGED <<pgFile, pgCrashes, pgLosses>>

\* _bootstrap answered: the directory names some of the running nodes, possibly
\* the caller itself.
BootstrapOk(n) ==
    /\ n \in pgUp /\ pgCall[n].at = "bootstrap"
    /\ \E ids \in SUBSET pgUp :
          /\ Cardinality(ids) <= BootstrapLimit
          /\ pgAge' = [pgAge EXCEPT ![n] = Merged(n, ids)]
          /\ Persist(n, Merged(n, ids))
    /\ pgCall' = [pgCall EXCEPT ![n] = Idle]
    /\ UNCHANGED <<pgUp, pgCrashes, pgLosses>>

BootstrapFails(n) ==
    /\ n \in pgUp /\ pgCall[n].at = "bootstrap" /\ pgLosses < PgMaxLosses
    /\ pgCall' = [pgCall EXCEPT ![n] = Idle]
    /\ pgLosses' = pgLosses + 1
    /\ UNCHANGED <<pgUp, pgAge, pgFile, pgCrashes>>

\* gossip_round with nobody to talk to.
RoundBootstraps(n) ==
    /\ n \in pgUp \intersect PgMesh /\ pgCall[n].at = "sleep" /\ Listed(n) = {}
    /\ pgCall' = [pgCall EXCEPT ![n] = Bootstrapping]
    /\ UNCHANGED <<pgUp, pgAge, pgFile, pgCrashes, pgLosses>>

\* Mutation: the sender leaves itself out.
TellsOthers(n) == Listed(n)

\* The known_peers of an exchange: what is listed, and the sender itself.
Tells(n) == Listed(n) \union {n}

\* gossip_round drew m: the body is put together and sent.
Round(n, m) ==
    /\ n \in pgUp \intersect PgMesh /\ pgCall[n].at = "sleep" /\ m \in Listed(n)
    /\ pgCall' = [pgCall EXCEPT ![n] = [at |-> "sent", to |-> m, ids |-> Tells(n)]]
    /\ UNCHANGED <<pgUp, pgAge, pgFile, pgCrashes, pgLosses>>

\* The handler _peers at the receiver: 401, or merge and answer with the list.
Peers(n) ==
    /\ pgCall[n].at = "sent" /\ pgCall[n].to \in pgUp
    /\ LET m == pgCall[n].to
           age == Merged(m, pgCall[n].ids)
       IN  IF VerifyExchange(m, n)
           THEN /\ pgAge' = [pgAge EXCEPT ![m] = age]
                /\ Persist(m, age)
                /\ pgCall' = [pgCall EXCEPT ![n] =
                      [at |-> "answered", to |-> m, ids |-> {k \in PgNodes : age[k] # Unknown}]]
           ELSE /\ pgCall' = [pgCall EXCEPT ![n] = [at |-> "refused"]]
                /\ UNCHANGED <<pgAge, pgFile>>
    /\ UNCHANGED <<pgUp, pgCrashes, pgLosses>>

\* _exchange succeeded: merge the answer, refresh the peer that gave it, prune.
ExchangeOk(n) ==
    /\ n \in pgUp /\ pgCall[n].at = "answered"
    /\ LET age == Merged(n, pgCall[n].ids)
           met == [age EXCEPT ![pgCall[n].to] = IF @ = Unknown THEN @ ELSE 0]
       IN  /\ pgAge' = [pgAge EXCEPT ![n] = Prune(met)]
           /\ Persist(n, age)
    /\ pgCall' = [pgCall EXCEPT ![n] = Idle]
    /\ UNCHANGED <<pgUp, pgCrashes, pgLosses>>

\* An error status changes nothing; the round still prunes.
ExchangeRefused(n) ==
    /\ n \in pgUp /\ pgCall[n].at = "refused"
    /\ pgAge' = [pgAge EXCEPT ![n] = Prune(@)]
    /\ pgCall' = [pgCall EXCEPT ![n] = Idle]
    /\ UNCHANGED <<pgUp, pgFile, pgCrashes, pgLosses>>

\* No connection, no answer, or the answer was lost: last_contact becomes 0.0,
\* so the prune of the same round drops the peer.
ExchangeFails(n) ==
    /\ n \in pgUp /\ pgCall[n].at \in {"sent", "answered"}
    /\ \/ pgCall[n].to \notin pgUp /\ UNCHANGED pgLosses
       \/ pgLosses < PgMaxLosses /\ pgLosses' = pgLosses + 1
    /\ pgAge' = [pgAge EXCEPT ![n] = Prune([@ EXCEPT ![pgCall[n].to] = Unknown])]
    /\ pgCall' = [pgCall EXCEPT ![n] = Idle]
    /\ UNCHANGED <<pgUp, pgFile, pgCrashes>>

\* An interval passes: monotonic time for every running node.
PgTick ==
    /\ \E n \in pgUp, m \in PgNodes : pgAge[n][m] <= PgExpiry
    /\ pgAge' = [n \in PgNodes |-> [m \in PgNodes |->
                    IF pgAge[n][m] <= PgExpiry THEN pgAge[n][m] + 1 ELSE pgAge[n][m]]]
    /\ UNCHANGED <<pgUp, pgFile, pgCall, pgCrashes, pgLosses>>

\* A crash loses the list and the exchange under way.
PgCrash(n) ==
    /\ n \in pgUp /\ pgCrashes < PgMaxCrashes
    /\ pgUp' = pgUp \ {n}
    /\ pgAge' = [pgAge EXCEPT ![n] = [m \in PgNodes |-> Unknown]]
    /\ pgCall' = [pgCall EXCEPT ![n] = Idle]
    /\ pgCrashes' = pgCrashes + 1
    /\ UNCHANGED <<pgFile, pgLosses>>

PgNext ==
    \/ \E n \in PgNodes :
          \/ PgStart(n) \/ BootstrapOk(n) \/ BootstrapFails(n) \/ RoundBootstraps(n)
          \/ \E m \in PgNodes : Round(n, m)
          \/ Peers(n) \/ ExchangeOk(n) \/ ExchangeRefused(n) \/ ExchangeFails(n)
          \/ PgCrash(n)
    \/ PgTick

\* The loop of a mesh node goes on; random.choice draws every peer that stays
\* listed again and again; live nodes answer.
PgFairness ==
    /\ WF_pgVars(PgTick)
    /\ \A n \in PgMesh : \A m \in PgNodes \ {n} : SF_pgVars(Round(n, m))
    /\ \A n \in PgNodes :
          /\ WF_pgVars(BootstrapOk(n)) /\ WF_pgVars(RoundBootstraps(n)) /\ WF_pgVars(Peers(n))
          /\ WF_pgVars(ExchangeOk(n) \/ ExchangeRefused(n) \/ ExchangeFails(n))

PgSpec == PgInit /\ [][PgNext]_pgVars /\ PgFairness

-----------------------------------------------------------------------------
\* Gossip is mutual: a mesh node that keeps a running peer listed, and whose
\* signature that peer accepts, is in the end listed by the peer too, through
\* lost exchanges, crashes and pruning (_exchange sends the node's own entry,
\* _peers merges it).
GossipIsMutual ==
    \A n \in PgMesh : \A m \in PgNodes \ {n} :
        ({n, m} \subseteq pgUp /\ m \in Listed(n) /\ VerifyExchange(m, n))
            ~> (n \in Listed(m) \/ ~({n, m} \subseteq pgUp) \/ m \notin Listed(n))
=============================================================================
