---------------------------- MODULE ProxyRouting ----------------------------
(***************************************************************************)
(* How the proxy gets one task executed by one of several candidate nodes: *)
(* FallbackChain (one candidate after the other), ResultAggregator (several *)
(* at once), TaskRouter, the CircuitBreaker they share, RetryManager and   *)
(* NodeClient.  All of them are coroutines of one event loop, so what lies  *)
(* between two awaits is one step.  The nodes are external: what a POST to *)
(* one may come back with, and that a node may execute what reached it, at *)
(* once or late, is all the model says of them.  Nothing stops a node from *)
(* taking a second copy: NodeConfig.enable_idempotency is off by default.  *)
(***************************************************************************)
EXTENDS Integers, Sequences, FiniteSets

CONSTANTS
    Requests,     \* the requests the proxy serves at a time
    Nodes,        \* the nodes discovery may return
    UnsafeNodes,  \* nodes whose endpoint _is_ssrf_safe rejects
    NativeNodes,  \* nodes used with a transport_endpoint
    Threshold,    \* CircuitBreaker threshold
    MaxRetries,   \* RetryManager max_retries: the attempts in all
    FanOut,       \* ResultAggregator fan_out
    MaxCandidates,\* bound: the candidates of a request
    Statuses      \* the "status" of the replies nodes give

ASSUME ProxyAssumption ==
    /\ UnsafeNodes \subseteq Nodes
    /\ NativeNodes \subseteq Nodes
    /\ Threshold \in Nat \ {0}
    /\ MaxRetries \in Nat \ {0}
    /\ FanOut \in Nat \ {0}
    /\ MaxCandidates \in Nat
    \* the pc of a coroutine that has ended with a reply is the reply's status
    /\ Statuses \cap {"none", "created", "post", "native", "backoff", "raised"} = {}

VARIABLES
    req,       \* per request: how it is served, its candidates and its outcome
    route,     \* per request and node: the coroutine in TaskRouter.route
    failures,  \* CircuitBreaker._failures, counted up to Threshold
    opened,    \* CircuitBreaker._opened_at: absent, within reset_s, or older
    arrived,   \* nodes that took the task
    executed,  \* nodes that executed the task
    lost,      \* nodes whose POST left it open whether the task ran
    errored,   \* nodes that answered with an error status, perhaps after a run
    discarded, \* nodes whose reply failed the proxy's checks
    replied    \* nodes whose reply passed the proxy's checks

breaker == <<failures, opened>>
world == <<arrived, executed, lost, errored, discarded, replied>>
vars == <<req, route, breaker, world>>

-----------------------------------------------------------------------------

\* The errors of a POST.  After an ambiguous one nobody knows whether the node
\* took the task; a refusal says that it did not take this copy; an error status
\* comes before a run (a full node, a bad request, a duplicate), after it or while
\* it goes on (a handler that failed or took too long, a relay that gave up).
Ambiguous == {"timeout", "protocol", "broken"}
Refusals == {"connect", "capacity"}
ErrorStatuses == {"overload", "status"}

\* The errors NodeClient answers with the native endpoint, once.
FallsBack == {"connect", "timeout", "overload", "capacity", "status"}

\* The errors RetryManager tries again.
Retriable == {"connect", "timeout", "protocol", "overload"}

InFlight == {"post", "native"}

\* What selection may return: any nodes, each once, in any order.
Rankings == {s \in UNION {[1..k -> Nodes] : k \in 0..MaxCandidates} :
                \A i, j \in DOMAIN s : s[i] = s[j] => i = j}

NoRoute == [pc |-> "none", attempt |-> 0, native |-> 0, posts |-> 0]

\* A slot without a request, which told the caller of its last one o.
Ended(o) == [mode |-> "idle", cands |-> <<>>, at |-> 0, kept |-> "no", outcome |-> o]

Init ==
    /\ req = [r \in Requests |-> Ended("none")]
    /\ route = [r \in Requests |-> [n \in Nodes |-> NoRoute]]
    /\ failures = [n \in Nodes |-> 0]
    /\ opened = [n \in Nodes |-> "closed"]
    /\ arrived = [r \in Requests |-> {}]
    /\ executed = [r \in Requests |-> {}]
    /\ lost = [r \in Requests |-> {}]
    /\ errored = [r \in Requests |-> {}]
    /\ discarded = [r \in Requests |-> {}]
    /\ replied = [r \in Requests |-> {}]

-----------------------------------------------------------------------------
(* The circuit breaker.                                                    *)

Allow(n, o) == o[n] # "open"

RecordSuccess(n) ==
    /\ failures' = [failures EXCEPT ![n] = 0]
    /\ opened' = [opened EXCEPT ![n] = "closed"]

RecordFailure(n) ==
    LET f == IF failures[n] < Threshold THEN failures[n] + 1 ELSE Threshold
    IN  /\ failures' = [failures EXCEPT ![n] = f]
        /\ opened' = [opened EXCEPT ![n] = IF f >= Threshold THEN "open" ELSE @]

\* reset_s goes by since the breaker of n was last stamped.
ResetElapses(n) ==
    /\ opened[n] = "open"
    /\ opened' = [opened EXCEPT ![n] = "elapsed"]
    /\ UNCHANGED <<req, route, failures, world>>

-----------------------------------------------------------------------------
(* TaskRouter.route up to its first await, and FallbackChain around it.    *)

\* The SSRF guard and the breaker let a POST to n begin.
Passes(n, o) == n \notin UnsafeNodes /\ Allow(n, o)

FirstPost == [pc |-> "post", attempt |-> 1, native |-> 0, posts |-> 1]

\* The position the walk over s stops at, from i on: the first candidate that
\* is tried, or one past the end.
NextStop(s, i, o) ==
    CHOOSE j \in i..(Len(s) + 1) :
        /\ j <= Len(s) => Passes(s[j], o)
        /\ \A k \in i..(j - 1) : ~Passes(s[k], o)

\* FallbackChain.execute from position i of the candidates s on: no await lies
\* between the end of one candidate's route() and the POST of the next.
Walk(r, s, i, o, routes) ==
    LET j == NextStop(s, i, o)
    IN  IF j <= Len(s)
        THEN /\ req' = [req EXCEPT ![r] = [mode |-> "serial", cands |-> s, at |-> j,
                                           kept |-> "no", outcome |-> "none"]]
             /\ route' = [route EXCEPT ![r] = [routes EXCEPT ![s[j]] = FirstPost]]
        ELSE /\ req' = [req EXCEPT ![r] = Ended(IF s = <<>> THEN "empty" ELSE "exhausted")]
             /\ route' = [route EXCEPT ![r] = routes]

\* What became of the previous task of this slot is of no interest any more.
NewTask(r) ==
    /\ req[r].mode = "idle"
    /\ arrived' = [arrived EXCEPT ![r] = {}]
    /\ executed' = [executed EXCEPT ![r] = {}]
    /\ lost' = [lost EXCEPT ![r] = {}]
    /\ errored' = [errored EXCEPT ![r] = {}]
    /\ discarded' = [discarded EXCEPT ![r] = {}]
    /\ replied' = [replied EXCEPT ![r] = {}]
    /\ UNCHANGED breaker

SubmitSerial(r, s) ==
    /\ NewTask(r)
    /\ Walk(r, s, 1, opened, [n \in Nodes |-> NoRoute])

-----------------------------------------------------------------------------
(* ResultAggregator: a task per target, each entering route() when the loop *)
(* first runs it.                                                          *)

\* A request in the aggregator's loop; keep tells whether first_error is set.
Racing(s, keep) == [mode |-> "redundant", cands |-> s, at |-> 0, kept |-> keep, outcome |-> "none"]

SubmitRedundant(r, s) ==
    /\ Len(s) > 1
    /\ NewTask(r)
    /\ req' = [req EXCEPT ![r] = Racing(s, "no")]
    /\ LET targets == {s[i] : i \in {k \in DOMAIN s : k <= FanOut}}
       IN  route' = [route EXCEPT ![r] = [n \in Nodes |->
               IF n \in targets THEN [NoRoute EXCEPT !.pc = "created"] ELSE NoRoute]]

LegStarts(r, n) ==
    /\ route[r][n].pc = "created"
    /\ route' = [route EXCEPT ![r][n] =
           IF Passes(n, opened) THEN FirstPost ELSE [@ EXCEPT !.pc = "raised"]]
    /\ UNCHANGED <<req, breaker, world>>

Pending(r) == {n \in Nodes : route[r][n].pc \in {"created", "backoff"} \cup InFlight}
Finished(r) == {n \in Nodes : route[r][n].pc \in {"raised"} \cup Statuses}
Successes(r) == {n \in Finished(r) : route[r][n].pc = "success"}
Others(r) == {n \in Finished(r) : route[r][n].pc \in Statuses \ {"success"}}

\* Mutation: a reply that is not "success" is not kept in first_error.
CollectForgets(r) ==
    /\ req[r].mode = "redundant"
    /\ Finished(r) # {}
    /\ IF Pending(r) = {}
       THEN req' = [req EXCEPT ![r] = Ended(IF Successes(r) # {} THEN "answer" ELSE "exhausted")]
       ELSE UNCHANGED req
    /\ route' = [route EXCEPT ![r] = [n \in Nodes |->
           IF n \in Finished(r) THEN NoRoute ELSE @[n]]]
    /\ UNCHANGED <<breaker, world>>

\* asyncio.wait returns with every task that has finished by then.  A reply
\* whose status is "success" is returned and the other tasks are cancelled: a
\* POST that is cancelled may have reached its node.
Collect(r) ==
    /\ req[r].mode = "redundant"
    /\ Finished(r) # {}
    /\ IF Successes(r) # {}
       THEN /\ req' = [req EXCEPT ![r] = Ended("answer")]
            /\ route' = [route EXCEPT ![r] = [n \in Nodes |-> NoRoute]]
            /\ \E taken \in SUBSET {n \in Pending(r) : route[r][n].pc \in InFlight} :
                   /\ arrived' = [arrived EXCEPT ![r] = @ \cup taken]
                   /\ lost' = [lost EXCEPT ![r] = @ \cup taken]
       ELSE /\ LET keep == IF Others(r) # {} THEN "yes" ELSE req[r].kept
               IN  req' = [req EXCEPT ![r] =
                       IF Pending(r) # {} THEN Racing(@.cands, keep)
                       ELSE Ended(IF keep = "yes" THEN "answer" ELSE "exhausted")]
            /\ route' = [route EXCEPT ![r] = [n \in Nodes |->
                   IF n \in Finished(r) THEN NoRoute ELSE @[n]]]
            /\ UNCHANGED <<arrived, lost>>
    /\ UNCHANGED <<breaker, executed, errored, discarded, replied>>

-----------------------------------------------------------------------------
(* What a POST comes back with, and what RetryManager, TaskRouter and the  *)
(* caller of route() make of it.                                           *)

\* route() raises after it has recorded the failure.
Raise(r, n) ==
    /\ RecordFailure(n)
    /\ IF req[r].mode = "serial"
       THEN Walk(r, req[r].cands, req[r].at + 1, opened', [route[r] EXCEPT ![n] = NoRoute])
       ELSE /\ route' = [route EXCEPT ![r][n].pc = "raised"]
            /\ UNCHANGED req

\* NodeClient.submit_task fails with e: the native endpoint is next, or
\* RetryManager sleeps, or route() raises.
Failed(r, n, e) ==
    LET c == route[r][n]
    IN  IF c.pc = "post" /\ e \in FallsBack /\ n \in NativeNodes /\ c.native = 0
        THEN /\ route' = [route EXCEPT ![r][n] =
                    [c EXCEPT !.pc = "native", !.native = 1, !.posts = c.posts + 1]]
             /\ UNCHANGED <<req, breaker>>
        ELSE IF e \in Retriable /\ c.attempt < MaxRetries
        THEN /\ route' = [route EXCEPT ![r][n].pc = "backoff"]
             /\ UNCHANGED <<req, breaker>>
        ELSE Raise(r, n)

\* A POST that leaves it open whether the node took the task.
PostLost(r, n, e) ==
    /\ route[r][n].pc \in InFlight
    /\ \E taken \in SUBSET {n} : arrived' = [arrived EXCEPT ![r] = @ \cup taken]
    /\ lost' = [lost EXCEPT ![r] = @ \cup {n}]
    /\ Failed(r, n, e)
    /\ UNCHANGED <<executed, errored, discarded, replied>>

\* A POST that came to nothing: no connection, or the node says it is full.
PostRefused(r, n, e) ==
    /\ route[r][n].pc \in InFlight
    /\ Failed(r, n, e)
    /\ UNCHANGED world

\* A POST answered with an error status: the node did not take the task, or it runs
\* it still, or it has run it.
PostErrored(r, n, e) ==
    /\ route[r][n].pc \in InFlight
    /\ \E taken \in SUBSET {n} : \E ran \in SUBSET taken :
           /\ arrived' = [arrived EXCEPT ![r] = @ \cup taken]
           /\ executed' = [executed EXCEPT ![r] = @ \cup ran]
    /\ errored' = [errored EXCEPT ![r] = @ \cup {n}]
    /\ Failed(r, n, e)
    /\ UNCHANGED <<lost, discarded, replied>>

\* Mutation: the loop of RetryManager does not count its attempts.
RetryUncounted(r, n) ==
    /\ route[r][n].pc = "backoff"
    /\ route' = [route EXCEPT ![r][n].pc = "post"]
    /\ UNCHANGED <<req, breaker, world>>

\* The end of the back-off: the next attempt POSTs to the HTTP endpoint.
Retry(r, n) ==
    /\ route[r][n].pc = "backoff"
    /\ LET c == route[r][n]
       IN  route' = [route EXCEPT ![r][n] =
               [c EXCEPT !.pc = "post", !.attempt = c.attempt + 1, !.posts = c.posts + 1]]
    /\ UNCHANGED <<req, breaker, world>>

\* The node executed this copy of the task, its first or not, and its reply arrives.  route()
\* records the success; FallbackChain returns the reply, or the aggregator
\* finds it when it next runs.
Replies(r, n, s) ==
    /\ route[r][n].pc \in InFlight
    /\ arrived' = [arrived EXCEPT ![r] = @ \cup {n}]
    /\ executed' = [executed EXCEPT ![r] = @ \cup {n}]
    /\ replied' = [replied EXCEPT ![r] = @ \cup {n}]
    /\ RecordSuccess(n)
    /\ IF req[r].mode = "serial"
       THEN /\ route' = [route EXCEPT ![r][n] = NoRoute]
            /\ req' = [req EXCEPT ![r] = Ended("answer")]
       ELSE /\ route' = [route EXCEPT ![r][n].pc = s]
            /\ UNCHANGED req
    /\ UNCHANGED <<lost, errored, discarded>>

\* A reply to a CIP dispatch with the wrong session key or receipt hash: the
\* breaker counts a success, the reply is discarded and the walk goes on.
RepliesMismatched(r, n) ==
    /\ req[r].mode = "serial"
    /\ route[r][n].pc \in InFlight
    /\ arrived' = [arrived EXCEPT ![r] = @ \cup {n}]
    /\ executed' = [executed EXCEPT ![r] = @ \cup {n}]
    /\ discarded' = [discarded EXCEPT ![r] = @ \cup {n}]
    /\ RecordSuccess(n)
    /\ Walk(r, req[r].cands, req[r].at + 1, opened', [route[r] EXCEPT ![n] = NoRoute])
    /\ UNCHANGED <<lost, errored, replied>>

\* A node executes a task whose sender no longer waits for it.
ExecutesLate(r, n) ==
    /\ n \in arrived[r] \ executed[r]
    /\ executed' = [executed EXCEPT ![r] = @ \cup {n}]
    /\ UNCHANGED <<req, route, breaker, arrived, lost, errored, discarded, replied>>

-----------------------------------------------------------------------------

PostEnds(r, n) ==
    \/ \E e \in Ambiguous : PostLost(r, n, e)
    \/ \E e \in Refusals : PostRefused(r, n, e)
    \/ \E e \in ErrorStatuses : PostErrored(r, n, e)
    \/ \E s \in Statuses : Replies(r, n, s)
    \/ RepliesMismatched(r, n)

Next ==
    \/ \E r \in Requests, s \in Rankings : SubmitSerial(r, s) \/ SubmitRedundant(r, s)
    \/ \E r \in Requests : Collect(r)
    \/ \E r \in Requests, n \in Nodes :
           LegStarts(r, n) \/ PostEnds(r, n) \/ Retry(r, n) \/ ExecutesLate(r, n)
    \/ \E n \in Nodes : ResetElapses(n)

Spec == Init /\ [][Next]_vars

\* Every POST has a time limit, every back-off ends and the loop runs what is
\* ready.  Nothing is assumed of the nodes or of new requests.
Fairness ==
    \A r \in Requests :
        /\ WF_vars(Collect(r))
        /\ \A n \in Nodes : /\ WF_vars(LegStarts(r, n))
                            /\ WF_vars(PostEnds(r, n))
                            /\ WF_vars(Retry(r, n))

FairSpec == Spec /\ Fairness

-----------------------------------------------------------------------------
(* Properties.                                                             *)

\* A breaker is open, or half open, exactly when Threshold consecutive failures
\* are on its book, whatever requests end in between: the two maps of
\* CircuitBreaker never drift apart.
BreakerConsistent ==
    \A n \in Nodes : (opened[n] = "closed") <=> (failures[n] < Threshold)

\* The candidates serial fallback has come to.
Tried(q) == {q.cands[i] : i \in 1..q.at}

\* Serial fallback runs the task ahead of nobody and after no usable reply: only the
\* candidates it has come to can have it, none of them gave a reply that it could
\* use, and a node that ran the task, in either mode, lost its reply on the way,
\* answered with an error status, had its reply discarded or was answered from.
NoNeedlessRepeat ==
    \A r \in Requests :
        /\ executed[r] \subseteq lost[r] \cup errored[r] \cup discarded[r] \cup replied[r]
        /\ req[r].mode = "serial" => replied[r] = {} /\ arrived[r] \subseteq Tried(req[r])

\* A caller is told that no node is available only if no acceptable reply had
\* come, and is given a reply only if one had.
OutcomeIsTrue ==
    \A r \in Requests :
        /\ req[r].outcome = "answer" => replied[r] # {}
        /\ req[r].outcome \in {"exhausted", "empty"} => replied[r] = {}

\* A node sees at most max_retries POSTs of a task and one more on its native
\* endpoint; in serial mode at most one POST of it is under way.
RetryBudget ==
    \A r \in Requests :
        /\ \A n \in Nodes : route[r][n].posts <= MaxRetries + route[r][n].native
        /\ req[r].mode = "serial" =>
               {n \in Nodes : route[r][n].pc # "none"} = {req[r].cands[req[r].at]}

\* What routing owes a request and its nodes, in every order of late replies, lost
\* connections and breaker trips: callers are told the truth, no task is sent on
\* after a usable reply, no node sees more POSTs than its budget, and the two maps
\* of the breaker agree.
RoutingSound == OutcomeIsTrue /\ NoNeedlessRepeat /\ RetryBudget /\ BreakerConsistent

\* Every request is answered.
RequestsEnd == \A r \in Requests : req[r].mode # "idle" ~> req[r].mode = "idle"

\* fallback.py: "a duplicate that races with a successful retry returns 409
\* rather than executing twice".  Nodes that reported an error are not counted.
TaskExecutedOnce ==
    \A r \in Requests :
        req[r].mode = "serial" => Cardinality(executed[r] \ (errored[r] \cup discarded[r])) <= 1
=============================================================================
