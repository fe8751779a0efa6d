--------------------------- MODULE ProxyDiscovery ---------------------------
(***************************************************************************)
(* Where the proxy's node lists come from: DirectoryClient.discover (signed *)
(* dispatch tickets, or the legacy list with its redirects to replica      *)
(* directories) and the PeerCache in front of it, filled by request        *)
(* handlers and by a refresh loop.  Coroutines of one event loop share the *)
(* two clients and the cache; every HTTP answer is an await.  The directory *)
(* and its replicas are external and may answer anything.                  *)
(*                                                                         *)
(* The clients are those the proxy builds (proxy/main.py, peer_cache.py):  *)
(* neither has a replica registry or a DID resolver, so a redirect to any  *)
(* https host is followed and a replica's list is taken as it comes.       *)
(***************************************************************************)
EXTENDS Integers

CONSTANTS
    Handlers,       \* request handlers that resolve nodes
    Replicas,       \* replica directories
    PdMode,         \* IICP_ROUTE_DISCOVERY_MODE: auto, ticketed or legacy
    RouteLimit      \* ticketed routes asked for, at most ten

Seed == "seed"
Refresher == "refresher"
MaxRedirectChain == 3
Coroutines == Handlers \cup {Refresher}

\* "seed" and "none" name no replica, "refresher" no handler.
ASSUME NamesAssumption == Replicas \cap {Seed, "none"} = {} /\ Refresher \notin Handlers

\* The app's DirectoryClient and the PeerCache's own.
Clients == {"app", "cache"}

VARIABLES
    pdCall,      \* per coroutine: the discovery under way
    pdKey,       \* DirectoryClient._dispatch_ticket_key, per client
    pdRedirect,  \* DirectoryClient._redirect_cache: the target for the seed, per client
    pdCache,     \* PeerCache._cache for the intent: the list, and whether ttl_s has passed
    pdSigning    \* the key the directory signs tickets with

pdVars == <<pdCall, pdKey, pdRedirect, pdCache, pdSigning>>

-----------------------------------------------------------------------------

Quiet == [pc |-> "idle", purpose |-> "use", client |-> "app", base |-> Seed, turn |-> 0,
          routes |-> 0, key |-> "none"]

PdInit ==
    /\ pdCall = [c \in Coroutines |-> Quiet]
    /\ pdKey = [d \in Clients |-> "none"]
    /\ pdRedirect = [d \in Clients |-> "none"]
    /\ pdCache = [list |-> "none", fresh |-> FALSE]
    /\ pdSigning = "k1"

\* The seed, or the target its last redirect is remembered for.
RedirectTarget(d) == IF pdRedirect[d] = "none" THEN Seed ELSE pdRedirect[d]

\* discover() up to its first await.
Discovering(purpose, client) ==
    LET call == [Quiet EXCEPT !.purpose = purpose, !.client = client]
    IN  IF PdMode = "legacy"
        THEN [call EXCEPT !.pc = "fetch", !.base = RedirectTarget(client)]
        ELSE [call EXCEPT !.pc = "ticket"]

-----------------------------------------------------------------------------
(* PeerCache and the handlers' _resolve_nodes.                              *)

\* A fresh list that is not empty is served at once; else the handler discovers
\* for itself.
GetNodes(h) ==
    /\ pdCall[h].pc = "idle"
    /\ ~(pdCache.fresh /\ pdCache.list = "nodes")
    /\ pdCall' = [pdCall EXCEPT ![h] = Discovering("use", "app")]
    /\ UNCHANGED <<pdKey, pdRedirect, pdCache, pdSigning>>

\* _refresh_loop wakes and fetches every cached intent.
RefreshLoop ==
    /\ pdCall[Refresher].pc = "idle"
    /\ pdCache.list # "none"
    /\ pdCall' = [pdCall EXCEPT ![Refresher] = Discovering("store", "cache")]
    /\ UNCHANGED <<pdKey, pdRedirect, pdCache, pdSigning>>

\* A discovery succeeds.  A handler keeps the list and goes on to fetch_and_cache,
\* a second discovery by the cache's own client; an empty list is stored like any.
Succeed(c, list) ==
    IF pdCall[c].purpose = "use"
    THEN pdCall' = [pdCall EXCEPT ![c] = Discovering("store", "cache")] /\ UNCHANGED pdCache
    ELSE /\ pdCall' = [pdCall EXCEPT ![c] = Quiet]
         /\ pdCache' = [list |-> list, fresh |-> TRUE]

\* A discovery raises.  fetch_and_cache swallows it and leaves the entry; a handler
\* whose own discovery failed goes on without nodes.
DiscoverRaises(c) == pdCall' = [pdCall EXCEPT ![c] = Quiet] /\ UNCHANGED pdCache

-----------------------------------------------------------------------------
(* _ticketed_routes.                                                        *)

\* A verified route is kept; the loop asks for the next one, or has enough.
Routed(c) ==
    LET routes == pdCall[c].routes + 1
    IN  IF routes = RouteLimit THEN Succeed(c, "nodes")
        ELSE /\ pdCall' = [pdCall EXCEPT ![c].pc = "ticket", ![c].routes = routes, ![c].key = "none"]
             /\ UNCHANGED pdCache

\* The directory issued a ticket.  A client without its key fetches that first; a
\* ticket that is malformed or does not verify under the client's key raises.
TicketedRoute(c, wellFormed) ==
    /\ pdCall[c].pc = "ticket"
    /\ LET key == pdKey[pdCall[c].client]
       IN  IF ~wellFormed THEN DiscoverRaises(c)
           ELSE IF key = "none"
           THEN pdCall' = [pdCall EXCEPT ![c].pc = "key", ![c].key = pdSigning] /\ UNCHANGED pdCache
           ELSE IF key = pdSigning THEN Routed(c) ELSE DiscoverRaises(c)
    /\ UNCHANGED <<pdKey, pdRedirect, pdSigning>>

\* The key arrives, as it was when the directory answered, and becomes the client's,
\* whoever set one meanwhile; the ticket, signed when it was issued, must verify.
KeyArrives(c) ==
    /\ pdCall[c].pc = "key"
    /\ \E key \in {pdCall[c].key, pdSigning} :
           /\ pdKey' = [pdKey EXCEPT ![pdCall[c].client] = key]
           /\ IF pdCall[c].key = key THEN Routed(c) ELSE DiscoverRaises(c)
    /\ UNCHANGED <<pdRedirect, pdSigning>>

\* 404 no_route_available ends the loop with the routes there are, maybe none.
NoRouteAvailable(c) ==
    /\ pdCall[c].pc = "ticket"
    /\ Succeed(c, IF pdCall[c].routes = 0 THEN "empty" ELSE "nodes")
    /\ UNCHANGED <<pdKey, pdRedirect, pdSigning>>

\* An older directory lacks the endpoint: routes gathered so far are dropped and
\* the legacy list is asked for, unless tickets are demanded.
TicketsUnsupported(c) ==
    /\ pdCall[c].pc = "ticket"
    /\ IF PdMode = "ticketed" THEN DiscoverRaises(c)
       ELSE /\ pdCall' = [pdCall EXCEPT ![c].pc = "fetch", ![c].routes = 0,
                                        ![c].base = RedirectTarget(pdCall[c].client)]
            /\ UNCHANGED pdCache
    /\ UNCHANGED <<pdKey, pdRedirect, pdSigning>>

\* Any other status, a failed request or a time-out.
RequestFails(c) ==
    /\ pdCall[c].pc \in {"ticket", "key", "fetch"}
    /\ DiscoverRaises(c)
    /\ UNCHANGED <<pdKey, pdRedirect, pdSigning>>

-----------------------------------------------------------------------------
(* The legacy list and its redirects.                                       *)

\* Mutation: the loop goes round as long as it is redirected.
NextTurnUncounted(c, base) ==
    pdCall' = [pdCall EXCEPT ![c].base = base] /\ UNCHANGED pdCache

\* The loop of discover() takes its next turn, or has none left and raises.
NextTurn(c, base) ==
    IF pdCall[c].turn < MaxRedirectChain
    THEN pdCall' = [pdCall EXCEPT ![c].base = base, ![c].turn = @ + 1] /\ UNCHANGED pdCache
    ELSE DiscoverRaises(c)

\* A 307 to a replica over https; the first turn's target is remembered for the
\* seed, also when a remembered replica gave it.
Redirected(c, b) ==
    /\ pdCall[c].pc = "fetch"
    /\ NextTurn(c, b)
    /\ pdRedirect' = IF pdCall[c].turn = 0
                     THEN [pdRedirect EXCEPT ![pdCall[c].client] = b] ELSE pdRedirect
    /\ UNCHANGED <<pdKey, pdSigning>>

\* A relative Location or another scheme: the same base is asked again.
RedirectIgnored(c) ==
    /\ pdCall[c].pc = "fetch"
    /\ NextTurn(c, pdCall[c].base)
    /\ UNCHANGED <<pdKey, pdRedirect, pdSigning>>

\* The base answers a list.
Answers(c, list) ==
    /\ pdCall[c].pc = "fetch"
    /\ Succeed(c, list)
    /\ UNCHANGED <<pdKey, pdRedirect, pdSigning>>

-----------------------------------------------------------------------------
(* Around them.                                                             *)

\* Retry-After of a remembered redirect goes by.
RedirectExpires(d) ==
    /\ pdRedirect[d] # "none"
    /\ pdRedirect' = [pdRedirect EXCEPT ![d] = "none"]
    /\ UNCHANGED <<pdCall, pdKey, pdCache, pdSigning>>

\* The directory rotates the key it signs tickets with; no client notices.
RotateKey ==
    /\ pdSigning = "k1"
    /\ pdSigning' = "k2"
    /\ UNCHANGED <<pdCall, pdKey, pdRedirect, pdCache>>

\* ttl_s goes by since the entry was written.
EntryExpires ==
    /\ pdCache.fresh
    /\ pdCache' = [pdCache EXCEPT !.fresh = FALSE]
    /\ UNCHANGED <<pdCall, pdKey, pdRedirect, pdSigning>>

\* The request coroutine c waits for is answered, or fails.
AnswerArrives(c) ==
    \/ \E ok \in BOOLEAN : TicketedRoute(c, ok)
    \/ KeyArrives(c) \/ NoRouteAvailable(c) \/ TicketsUnsupported(c) \/ RequestFails(c)
    \/ \E b \in Replicas : Redirected(c, b)
    \/ RedirectIgnored(c)
    \/ \E list \in {"nodes", "empty"} : Answers(c, list)

PdNext ==
    \/ \E h \in Handlers : GetNodes(h)
    \/ RefreshLoop
    \/ \E c \in Coroutines : AnswerArrives(c)
    \/ \E d \in Clients : RedirectExpires(d)
    \/ RotateKey
    \/ EntryExpires

\* Every HTTP request has a time limit.  Nothing is assumed of what the directory
\* and its replicas answer, nor of new requests.
PdFairness == \A c \in Coroutines : WF_pdVars(AnswerArrives(c))

PdSpec == PdInit /\ [][PdNext]_pdVars /\ PdFairness

-----------------------------------------------------------------------------
(* Properties.                                                              *)

\* Whatever the directories answer, replicas that send a client round in circles,
\* tickets that run out half-way and keys that change included, every resolution of
\* a handler and every round of the refresh loop ends (DIR-FED-06: "never follow >3
\* consecutive redirects").
ResolutionsEnd == \A c \in Coroutines : pdCall[c].pc # "idle" ~> pdCall[c].pc = "idle"
=============================================================================
