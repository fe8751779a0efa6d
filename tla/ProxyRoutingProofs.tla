------------------------- MODULE ProxyRoutingProofs -------------------------
(***************************************************************************)
(* The circuit breaker's two maps, serial fallback, the aggregator and the *)
(* retries, for any requests, nodes, rankings, thresholds and limits.      *)
(***************************************************************************)
EXTENDS ProxyRouting, WellFoundedInduction, TLAPS

\* BreakerConsistent with the types of the two maps.
BreakerInv ==
    /\ failures \in [Nodes -> 0..Threshold]
    /\ opened \in [Nodes -> {"closed", "open", "elapsed"}]
    /\ BreakerConsistent

\* What a request does to the breaker at the end of route(): a success or a
\* failure of one node is recorded, or nothing.
BreakerMove ==
    \/ \E n \in Nodes : RecordSuccess(n) \/ RecordFailure(n)
    \/ UNCHANGED breaker

\* The end of a failed POST records a failure or leaves the breaker alone.
LEMMA FailedMovesBreaker ==
    ASSUME NEW r \in Requests, NEW n \in Nodes, NEW e, Failed(r, n, e)
    PROVE  BreakerMove
<1>1. RecordFailure(n) \/ UNCHANGED breaker
  BY Zenon DEF Failed, Raise
<1>2. QED
  BY <1>1 DEF BreakerMove

\* Every step of the proxy moves the breaker in one of these ways, or lets
\* reset_s go by.
LEMMA StepsMoveBreaker ==
    ASSUME [Next]_vars
    PROVE  BreakerMove \/ \E n \in Nodes : ResetElapses(n)
<1>1. ASSUME NEW r \in Requests, NEW n \in Nodes, PostEnds(r, n)
      PROVE  BreakerMove
  <2>1. CASE \E e \in Ambiguous : PostLost(r, n, e)
    BY <2>1, FailedMovesBreaker DEF PostLost
  <2>2. CASE \E e \in Refusals : PostRefused(r, n, e)
    BY <2>2, FailedMovesBreaker DEF PostRefused
  <2>3. CASE \E e \in ErrorStatuses : PostErrored(r, n, e)
    BY <2>3, FailedMovesBreaker DEF PostErrored
  <2>4. CASE \E s \in Statuses : Replies(r, n, s)
    BY <2>4 DEF Replies, BreakerMove
  <2>5. CASE RepliesMismatched(r, n)
    BY <2>5 DEF RepliesMismatched, BreakerMove
  <2>6. QED
    BY <1>1, <2>1, <2>2, <2>3, <2>4, <2>5 DEF PostEnds
<1>2. ASSUME NEW r \in Requests, NEW s \in Rankings, SubmitSerial(r, s) \/ SubmitRedundant(r, s)
      PROVE  BreakerMove
  BY <1>2 DEF SubmitSerial, SubmitRedundant, NewTask, BreakerMove
<1>3. ASSUME NEW r \in Requests, Collect(r)
      PROVE  BreakerMove
  BY <1>3 DEF Collect, BreakerMove
<1>4. ASSUME NEW r \in Requests, NEW n \in Nodes,
             LegStarts(r, n) \/ Retry(r, n) \/ ExecutesLate(r, n)
      PROVE  BreakerMove
  BY <1>4 DEF LegStarts, Retry, ExecutesLate, BreakerMove
<1>5. CASE UNCHANGED vars
  BY <1>5 DEF vars, BreakerMove
<1>6. QED
  BY <1>1, <1>2, <1>3, <1>4, <1>5 DEF Next

\* BreakerInv survives a recorded success, a recorded failure and reset_s.
LEMMA BreakerStep == BreakerInv /\ [Next]_vars => BreakerInv'
<1> SUFFICES ASSUME BreakerInv, [Next]_vars
             PROVE  BreakerInv'
  OBVIOUS
<1> USE ProxyAssumption DEF BreakerInv, BreakerConsistent
<1>1. CASE \E n \in Nodes : RecordSuccess(n)
  BY <1>1 DEF RecordSuccess
<1>2. CASE \E n \in Nodes : RecordFailure(n)
  BY <1>2 DEF RecordFailure
<1>3. CASE UNCHANGED breaker
  BY <1>3 DEF breaker
<1>4. CASE \E n \in Nodes : ResetElapses(n)
  BY <1>4 DEF ResetElapses
<1>5. QED
  BY <1>1, <1>2, <1>3, <1>4, StepsMoveBreaker DEF BreakerMove

\* The breaker of a node is open or half open exactly while Threshold failures
\* are on its book, whatever requests end meanwhile (BreakerConsistent).
THEOREM BreakersConsistent == Spec => []BreakerConsistent
<1>1. Init => BreakerInv
  BY ProxyAssumption DEF Init, BreakerInv, BreakerConsistent
<1>2. BreakerInv => BreakerConsistent
  BY DEF BreakerInv
<1>3. QED
  BY <1>1, <1>2, BreakerStep, PTL DEF Spec

-----------------------------------------------------------------------------
(* Candidates, retries and outcomes.                                       *)

\* A coroutine in route(), and a request's record.
Legs == [pc : {"none", "created", "post", "native", "backoff", "raised"} \cup Statuses,
         attempt : Nat, native : {0, 1}, posts : Nat]
RequestRecords ==
    [mode : {"idle", "serial", "redundant"}, cands : Seq(Nodes), at : Nat, kept : {"no", "yes"},
     outcome : {"none", "answer", "exhausted", "empty"}]

\* A coroutine POSTs once an attempt, and once more natively; it sleeps only before an
\* attempt that is left.
LegOk(c) ==
    /\ c \in Legs
    /\ c.attempt <= MaxRetries /\ c.posts <= c.attempt + c.native
    /\ c.pc = "backoff" => c.attempt < MaxRetries

\* Serial fallback has one coroutine, of the candidate it has come to.  The aggregator
\* has kept, or still has to collect, every usable reply.
RequestOk(q, legs, rep) ==
    /\ q \in RequestRecords /\ legs \in [Nodes -> Legs]
    /\ \A n \in Nodes : LegOk(legs[n])
    /\ q.mode = "idle" =>
           /\ \A n \in Nodes : legs[n].pc = "none"
           /\ q.outcome = "answer" => rep # {}
           /\ q.outcome \in {"exhausted", "empty"} => rep = {}
    /\ q.mode # "idle" => q.outcome = "none"
    /\ q.mode = "serial" =>
           /\ q.at \in 1..Len(q.cands)
           /\ {n \in Nodes : legs[n].pc # "none"} = {q.cands[q.at]}
           /\ rep = {}
    /\ q.mode = "redundant" =>
           /\ q.kept = "yes" => rep # {}
           /\ \A n \in Nodes : legs[n].pc \in Statuses => n \in rep
           /\ q.kept = "no" /\ rep # {} => \E n \in Nodes : legs[n].pc \in Statuses

\* All requests are in order.
RoutingInv ==
    /\ DOMAIN req = Requests /\ DOMAIN route = Requests
    /\ replied \in [Requests -> SUBSET Nodes]
    /\ \A r \in Requests : RequestOk(req[r], route[r], replied[r])

\* A step moves one request.
Moves(r) ==
    /\ DOMAIN req' = Requests /\ DOMAIN route' = Requests
    /\ replied' \in [Requests -> SUBSET Nodes]
    /\ \A q \in Requests \ {r} : req'[q] = req[q] /\ route'[q] = route[q] /\ replied'[q] = replied[q]
    /\ RequestOk(req'[r], route'[r], replied'[r])

\* Every set of naturals has a least one.
LEMMA LeastNatural ==
  ASSUME NEW T \in SUBSET Nat, T # {}
  PROVE  \E x \in T : \A y \in T : x <= y
<1> DEFINE R == {ss \in Nat \X Nat : ss[1] < ss[2]}
<1>1. IsWellFoundedOn(R, Nat)
  BY NatLessThanWellFounded DEF OpToRel
<1>2. \A x, y \in Nat : <<y, x>> \in R <=> y < x
  OBVIOUS
<1> HIDE DEF R
<1>3. PICK x \in T : \A y \in T : ~ (<<y, x>> \in R)
  BY <1>1, WFMin, Zenon
<1>4. ASSUME NEW y \in T PROVE x <= y
  <2>1. ~(y < x) /\ x \in Nat /\ y \in Nat
    BY <1>2, <1>3
  <2> QED BY <2>1
<1> QED BY <1>4

\* The walk over the candidates stops at the first one from i on that passes, or past the end.
LEMMA WalkStops ==
  ASSUME NEW s \in Seq(Nodes), NEW i \in 1..(Len(s) + 1), NEW o
  PROVE  /\ NextStop(s, i, o) \in i..(Len(s) + 1)
         /\ NextStop(s, i, o) <= Len(s) => Passes(s[NextStop(s, i, o)], o)
         /\ \A k \in i..(NextStop(s, i, o) - 1) : ~Passes(s[k], o)
<1> DEFINE T == {j \in i..(Len(s) + 1) : j <= Len(s) => Passes(s[j], o)}
<1>1. Len(s) \in Nat /\ T \in SUBSET Nat /\ Len(s) + 1 \in T
  OBVIOUS
<1>2. PICK x \in T : \A y \in T : x <= y
  BY <1>1, LeastNatural
<1>3. \A k \in i..(x - 1) : ~Passes(s[k], o)
  <2> SUFFICES ASSUME NEW k \in i..(x - 1), Passes(s[k], o) PROVE FALSE
    OBVIOUS
  <2>1. k \in T /\ k < x
    BY <1>1, <1>2
  <2> QED BY <1>1, <1>2, <2>1
<1>4. x \in i..(Len(s) + 1) /\ (x <= Len(s) => Passes(s[x], o))
  BY <1>2
<1> QED BY <1>3, <1>4 DEF NextStop

\* What FallbackChain's walk leaves, when nothing has replied and no coroutine is left.
LEMMA WalkKeeps ==
  ASSUME NEW r \in Requests, NEW s \in Seq(Nodes), NEW i \in 1..(Len(s) + 1), NEW o, NEW routes,
         routes \in [Nodes -> Legs], \A n \in Nodes : LegOk(routes[n]) /\ routes[n].pc = "none",
         DOMAIN req = Requests, DOMAIN route = Requests, Walk(r, s, i, o, routes)
  PROVE  /\ DOMAIN req' = Requests /\ DOMAIN route' = Requests
         /\ \A q \in Requests \ {r} : req'[q] = req[q] /\ route'[q] = route[q]
         /\ RequestOk(req'[r], route'[r], {})
<1> DEFINE j == NextStop(s, i, o)
<1>1. j \in i..(Len(s) + 1)
  BY WalkStops
<1> HIDE DEF j
<1>2. CASE j <= Len(s)
  <2> DEFINE q == [mode |-> "serial", cands |-> s, at |-> j, kept |-> "no", outcome |-> "none"]
             legs == [routes EXCEPT ![s[j]] = FirstPost]
  <2>1. /\ req' = [req EXCEPT ![r] = q] /\ route' = [route EXCEPT ![r] = legs]
    BY <1>2, Zenon DEF Walk, j
  <2>2. j \in 1..Len(s) /\ s[j] \in Nodes /\ j \in Nat
    BY <1>1, <1>2
  <2>3. LegOk(FirstPost) /\ FirstPost.pc = "post" /\ FirstPost \in Legs
    BY ProxyAssumption DEF LegOk, FirstPost, Legs
  <2>4. q \in RequestRecords /\ q.mode = "serial" /\ q.at = j /\ q.cands = s /\ q.outcome = "none"
    BY <2>2 DEF RequestRecords
  <2>5. /\ legs \in [Nodes -> Legs] /\ \A n \in Nodes : LegOk(legs[n])
        /\ \A n \in Nodes : legs[n].pc # "none" <=> n = s[j]
    BY <2>2, <2>3
  <2> HIDE DEF q, legs
  <2>6. RequestOk(q, legs, {})
    BY <2>2, <2>4, <2>5 DEF RequestOk
  <2> QED BY <2>1, <2>6
<1>3. CASE ~(j <= Len(s))
  <2> DEFINE q == Ended(IF s = <<>> THEN "empty" ELSE "exhausted")
  <2>1. /\ req' = [req EXCEPT ![r] = q] /\ route' = [route EXCEPT ![r] = routes]
    BY <1>3, Zenon DEF Walk, j
  <2>2. q \in RequestRecords /\ q.mode = "idle" /\ q.outcome \in {"exhausted", "empty"}
    BY DEF RequestRecords, Ended
  <2> HIDE DEF q
  <2>3. RequestOk(q, routes, {})
    BY <2>2 DEF RequestOk
  <2> QED BY <2>1, <2>3
<1> QED BY <1>2, <1>3

\* When the one coroutine of serial fallback ends, none is left.
LEMMA SerialLegEnds ==
  ASSUME NEW q, NEW legs, NEW rep, RequestOk(q, legs, rep), q.mode = "serial",
         NEW n \in Nodes, legs[n].pc # "none"
  PROVE  LET after == [legs EXCEPT ![n] = NoRoute]
         IN  after \in [Nodes -> Legs] /\ \A m \in Nodes : LegOk(after[m]) /\ after[m].pc = "none"
<1>1. LegOk(NoRoute) /\ NoRoute.pc = "none"
  BY ProxyAssumption DEF LegOk, NoRoute, Legs
<1>2. \A m \in Nodes : legs[m].pc # "none" => m = n
  BY DEF RequestOk
<1> QED BY <1>1, <1>2 DEF RequestOk, LegOk

\* A leg that changes while its request's record stays.
LEMMA LegMoves ==
  ASSUME RoutingInv, NEW r \in Requests, NEW n \in Nodes, NEW c, LegOk(c),
         req' = req, replied' = replied, route' = [route EXCEPT ![r][n] = c],
         route[r][n].pc # "none", route[r][n].pc \notin Statuses,
         c.pc # "none", c.pc \notin Statuses
  PROVE  Moves(r)
<1> DEFINE legs == [route[r] EXCEPT ![n] = c]
<1>1. RequestOk(req[r], route[r], replied[r]) /\ DOMAIN route = Requests
  BY DEF RoutingInv
<1>2. route' = [route EXCEPT ![r] = legs]
  BY <1>1
<1>3. /\ legs \in [Nodes -> Legs] /\ \A m \in Nodes : LegOk(legs[m])
      /\ \A m \in Nodes : legs[m].pc # "none" <=> route[r][m].pc # "none"
      /\ \A m \in Nodes : legs[m].pc \in Statuses <=> route[r][m].pc \in Statuses
  BY <1>1 DEF RequestOk, LegOk
<1> HIDE DEF legs
<1>4. RequestOk(req[r], legs, replied[r])
  BY <1>1, <1>3 DEF RequestOk
<1> QED BY <1>2, <1>4 DEF Moves, RoutingInv

\* A POST more, on the native endpoint or as the next attempt.
LEMMA NativePost ==
  ASSUME NEW c, LegOk(c), c.native = 0
  PROVE  LET d == [c EXCEPT !.pc = "native", !.native = 1, !.posts = c.posts + 1]
         IN  LegOk(d) /\ d.pc = "native"
<1> DEFINE d == [c EXCEPT !.pc = "native", !.native = 1, !.posts = c.posts + 1]
<1>1. c \in Legs
  BY DEF LegOk
<1>2. d \in Legs
  <2>1. c.posts + 1 \in Nat /\ c.attempt + 1 \in Nat
    BY <1>1 DEF Legs
  <2> QED BY <1>1, <2>1 DEF Legs
<1>3. d.pc = "native" /\ d.native = 1 /\ d.posts = c.posts + 1 /\ d.attempt = c.attempt
  BY <1>1 DEF Legs
<1> HIDE DEF d
<1>4. LegOk(d)
  BY <1>1, <1>2, <1>3 DEF LegOk, Legs
<1> QED BY <1>3, <1>4 DEF d

\* The attempt after a back-off is within the limit.
LEMMA NextPost ==
  ASSUME NEW c, LegOk(c), c.pc = "backoff"
  PROVE  LET d == [c EXCEPT !.pc = "post", !.attempt = c.attempt + 1, !.posts = c.posts + 1]
         IN  LegOk(d) /\ d.pc = "post"
<1> DEFINE d == [c EXCEPT !.pc = "post", !.attempt = c.attempt + 1, !.posts = c.posts + 1]
<1>1. c \in Legs
  BY DEF LegOk
<1>2. d \in Legs
  <2>1. c.posts + 1 \in Nat /\ c.attempt + 1 \in Nat
    BY <1>1 DEF Legs
  <2> QED BY <1>1, <2>1 DEF Legs
<1>3. d.pc = "post" /\ d.native = c.native /\ d.posts = c.posts + 1 /\ d.attempt = c.attempt + 1
  BY <1>1 DEF Legs
<1> HIDE DEF d
<1>4. LegOk(d)
  BY <1>1, <1>2, <1>3, ProxyAssumption DEF LegOk, Legs
<1> QED BY <1>3, <1>4 DEF d

\* The failure of a POST: the native endpoint, the back-off, or the end of route().
LEMMA FailedMoves ==
  ASSUME RoutingInv, NEW r \in Requests, NEW n \in Nodes, NEW e, Failed(r, n, e),
         route[r][n].pc \in InFlight, replied' = replied
  PROVE  Moves(r)
<1> DEFINE c == route[r][n]
<1>1. RequestOk(req[r], route[r], replied[r]) /\ DOMAIN route = Requests /\ DOMAIN req = Requests
  BY DEF RoutingInv
<1>2. LegOk(c) /\ c \in Legs /\ c.pc \notin Statuses /\ c.pc # "none"
  BY <1>1, ProxyAssumption DEF RequestOk, LegOk, InFlight
<1>3. CASE c.pc = "post" /\ e \in FallsBack /\ n \in NativeNodes /\ c.native = 0
  <2> DEFINE d == [c EXCEPT !.pc = "native", !.native = 1, !.posts = c.posts + 1]
  <2>1. req' = req /\ route' = [route EXCEPT ![r][n] = d]
    BY <1>3, Zenon DEF Failed
  <2>2. LegOk(d) /\ d.pc = "native"
    BY <1>2, <1>3, NativePost, Zenon
  <2> HIDE DEF d
  <2> QED BY <1>2, <2>1, <2>2, LegMoves, ProxyAssumption
<1>4. CASE ~(c.pc = "post" /\ e \in FallsBack /\ n \in NativeNodes /\ c.native = 0)
           /\ e \in Retriable /\ c.attempt < MaxRetries
  <2> DEFINE d == [c EXCEPT !.pc = "backoff"]
  <2>1. req' = req /\ route' = [route EXCEPT ![r][n] = d]
    <3>1. req' = req /\ route' = [route EXCEPT ![r][n].pc = "backoff"]
      BY <1>4, Zenon DEF Failed
    <3> QED BY <3>1
  <2>2. LegOk(d) /\ d.pc = "backoff"
    BY <1>2, <1>4 DEF LegOk, Legs
  <2> HIDE DEF d
  <2> QED BY <1>2, <2>1, <2>2, LegMoves, ProxyAssumption
<1>5. CASE Raise(r, n) /\ req[r].mode = "serial"
  <2> DEFINE routes == [route[r] EXCEPT ![n] = NoRoute]
             s == req[r].cands
             i == req[r].at + 1
  <2>1. Walk(r, s, i, opened', routes)
    BY <1>5 DEF Raise
  <2>2. s \in Seq(Nodes) /\ i \in 1..(Len(s) + 1) /\ replied[r] = {}
    BY <1>1, <1>5 DEF RequestOk, RequestRecords
  <2>5. routes \in [Nodes -> Legs] /\ \A m \in Nodes : LegOk(routes[m]) /\ routes[m].pc = "none"
    BY <1>1, <1>2, <1>5, SerialLegEnds
  <2> HIDE DEF routes, s, i
  <2>6. /\ DOMAIN req' = Requests /\ DOMAIN route' = Requests
        /\ \A q \in Requests \ {r} : req'[q] = req[q] /\ route'[q] = route[q]
        /\ RequestOk(req'[r], route'[r], {})
    BY <1>1, <2>1, <2>2, <2>5, WalkKeeps
  <2> QED BY <2>2, <2>6 DEF Moves, RoutingInv
<1>6. CASE Raise(r, n) /\ req[r].mode # "serial"
  <2> DEFINE d == [c EXCEPT !.pc = "raised"]
  <2>1. req' = req /\ route' = [route EXCEPT ![r][n] = d]
    <3>1. req' = req /\ route' = [route EXCEPT ![r][n].pc = "raised"]
      BY <1>6, Zenon DEF Raise
    <3> QED BY <3>1
  <2>2. LegOk(d) /\ d.pc = "raised"
    BY <1>2 DEF LegOk, Legs
  <2> HIDE DEF d
  <2> QED BY <1>2, <2>1, <2>2, LegMoves, ProxyAssumption
<1> QED
  <2>1. CASE c.pc = "post" /\ e \in FallsBack /\ n \in NativeNodes /\ c.native = 0
    BY <2>1, <1>3
  <2>2. CASE ~(c.pc = "post" /\ e \in FallsBack /\ n \in NativeNodes /\ c.native = 0)
    <3>1. CASE e \in Retriable /\ c.attempt < MaxRetries
      BY <2>2, <3>1, <1>4
    <3>2. CASE ~(e \in Retriable /\ c.attempt < MaxRetries)
      <4>1. Raise(r, n)
        BY <2>2, <3>2, Zenon DEF Failed
      <4> QED BY <4>1, <1>5, <1>6
    <3> QED BY <3>1, <3>2
  <2> QED BY <2>1, <2>2

\* A request whose record and legs are replaced by good ones.
LEMMA RequestMoves ==
  ASSUME RoutingInv, NEW r \in Requests, NEW q, NEW legs, NEW rep \in SUBSET Nodes,
         req' = [req EXCEPT ![r] = q], route' = [route EXCEPT ![r] = legs],
         replied' = [replied EXCEPT ![r] = rep], RequestOk(q, legs, rep)
  PROVE  Moves(r)
BY DEF Moves, RoutingInv

\* A usable reply: serial fallback ends with it, the aggregator has it to collect.
LEMMA RepliesMoves ==
  ASSUME RoutingInv, NEW r \in Requests, NEW n \in Nodes, NEW s \in Statuses, Replies(r, n, s)
  PROVE  Moves(r)
<1> DEFINE rep == replied[r] \cup {n}
           c == route[r][n]
<1>1. /\ RequestOk(req[r], route[r], replied[r]) /\ DOMAIN route = Requests /\ DOMAIN req = Requests
      /\ rep \in SUBSET Nodes /\ n \in rep /\ replied' = [replied EXCEPT ![r] = rep]
  BY DEF RoutingInv, Replies
<1>2. LegOk(c) /\ c \in Legs /\ c.pc \notin Statuses /\ c.pc # "none"
  BY <1>1, ProxyAssumption DEF RequestOk, LegOk, InFlight, Replies
<1>3. CASE req[r].mode = "serial"
  <2> DEFINE legs == [route[r] EXCEPT ![n] = NoRoute]
             q == Ended("answer")
  <2>1. route' = [route EXCEPT ![r] = legs] /\ req' = [req EXCEPT ![r] = q]
    <3>1. route' = [route EXCEPT ![r][n] = NoRoute] /\ req' = [req EXCEPT ![r] = q]
      BY <1>3, Zenon DEF Replies
    <3> QED BY <1>1, <3>1
  <2>4. legs \in [Nodes -> Legs] /\ \A m \in Nodes : LegOk(legs[m]) /\ legs[m].pc = "none"
    BY <1>1, <1>2, <1>3, SerialLegEnds
  <2>5. q \in RequestRecords /\ q.mode = "idle" /\ q.outcome = "answer"
    BY DEF RequestRecords, Ended
  <2> HIDE DEF legs, q, rep
  <2>6. RequestOk(q, legs, rep)
    BY <1>1, <2>4, <2>5 DEF RequestOk
  <2> QED BY <1>1, <2>1, <2>6, RequestMoves
<1>4. CASE req[r].mode # "serial"
  <2> DEFINE d == [c EXCEPT !.pc = s]
             legs == [route[r] EXCEPT ![n] = d]
  <2>1. route' = [route EXCEPT ![r] = legs] /\ req' = req
    <3>1. route' = [route EXCEPT ![r][n].pc = s] /\ req' = req
      BY <1>4, Zenon DEF Replies
    <3> QED BY <1>1, <3>1
  <2>2. LegOk(d) /\ d.pc = s /\ d \in Legs
    BY <1>2, ProxyAssumption DEF LegOk, Legs
  <2> HIDE DEF d
  <2>3. /\ legs \in [Nodes -> Legs] /\ \A m \in Nodes : LegOk(legs[m])
        /\ legs[n].pc = s /\ \A m \in Nodes \ {n} : legs[m] = route[r][m]
    BY <1>1, <2>2 DEF RequestOk
  <2>4. req[r].mode = "redundant"
    BY <1>1, <1>2, <1>4 DEF RequestOk, RequestRecords
  <2> HIDE DEF legs, rep
  <2>5. RequestOk(req[r], legs, rep)
    <3>1. \A m \in Nodes : legs[m].pc \in Statuses => m \in rep
      BY <1>1, <2>3, <2>4 DEF RequestOk, rep
    <3> QED BY <1>1, <2>3, <2>4, <3>1 DEF RequestOk
  <2> QED BY <1>1, <2>1, <2>5 DEF Moves, RoutingInv
<1> QED BY <1>3, <1>4

\* A reply that is discarded lets serial fallback go on as a failure does.
LEMMA MismatchMoves ==
  ASSUME RoutingInv, NEW r \in Requests, NEW n \in Nodes, RepliesMismatched(r, n)
  PROVE  Moves(r)
<1> DEFINE routes == [route[r] EXCEPT ![n] = NoRoute]
           s == req[r].cands
           i == req[r].at + 1
<1>1. RequestOk(req[r], route[r], replied[r]) /\ DOMAIN route = Requests /\ DOMAIN req = Requests
  BY DEF RoutingInv
<1>2. /\ req[r].mode = "serial" /\ route[r][n].pc # "none" /\ replied' = replied
      /\ Walk(r, s, i, opened', routes)
  BY ProxyAssumption DEF RepliesMismatched, InFlight
<1>3. s \in Seq(Nodes) /\ i \in 1..(Len(s) + 1) /\ replied[r] = {}
  BY <1>1, <1>2 DEF RequestOk, RequestRecords
<1>4. routes \in [Nodes -> Legs] /\ \A m \in Nodes : LegOk(routes[m]) /\ routes[m].pc = "none"
  BY <1>1, <1>2, SerialLegEnds
<1> HIDE DEF routes, s, i
<1>5. /\ DOMAIN req' = Requests /\ DOMAIN route' = Requests
      /\ \A q \in Requests \ {r} : req'[q] = req[q] /\ route'[q] = route[q]
      /\ RequestOk(req'[r], route'[r], {})
  BY <1>1, <1>2, <1>3, <1>4, WalkKeeps
<1> QED BY <1>2, <1>3, <1>5 DEF Moves, RoutingInv

\* A new task begins with nothing replied and no coroutine left.
LEMMA SubmitMoves ==
  ASSUME RoutingInv, NEW r \in Requests, NEW s \in Rankings, SubmitSerial(r, s) \/ SubmitRedundant(r, s)
  PROVE  Moves(r)
<1>1. s \in Seq(Nodes)
  BY DEF Rankings
<1>2. LegOk(NoRoute) /\ NoRoute.pc = "none" /\ NoRoute \in Legs
  BY ProxyAssumption DEF LegOk, NoRoute, Legs
<1>3. DOMAIN route = Requests /\ DOMAIN req = Requests /\ replied' = [replied EXCEPT ![r] = {}]
  BY DEF RoutingInv, SubmitSerial, SubmitRedundant, NewTask
<1>4. CASE SubmitSerial(r, s)
  <2> DEFINE routes == [n \in Nodes |-> NoRoute]
  <2>1. Walk(r, s, 1, opened, routes)
    BY <1>4 DEF SubmitSerial
  <2>2. routes \in [Nodes -> Legs] /\ \A m \in Nodes : LegOk(routes[m]) /\ routes[m].pc = "none"
    BY <1>2
  <2> HIDE DEF routes
  <2>3. 1 \in 1..(Len(s) + 1)
    BY <1>1
  <2>4. /\ DOMAIN req' = Requests /\ DOMAIN route' = Requests
        /\ \A q \in Requests \ {r} : req'[q] = req[q] /\ route'[q] = route[q]
        /\ RequestOk(req'[r], route'[r], {})
    BY <1>1, <1>3, <2>1, <2>2, <2>3, WalkKeeps
  <2> QED BY <1>3, <2>4 DEF Moves, RoutingInv
<1>5. CASE SubmitRedundant(r, s)
  <2> DEFINE created == [NoRoute EXCEPT !.pc = "created"]
             targets == {s[i] : i \in {k \in DOMAIN s : k <= FanOut}}
             legs == [n \in Nodes |-> IF n \in targets THEN created ELSE NoRoute]
             q == Racing(s, "no")
  <2>1. req' = [req EXCEPT ![r] = q] /\ route' = [route EXCEPT ![r] = legs]
    BY <1>5, Zenon DEF SubmitRedundant
  <2>2. LegOk(created) /\ created.pc = "created" /\ created \in Legs
    BY ProxyAssumption DEF LegOk, NoRoute, Legs
  <2> HIDE DEF created, targets
  <2>3. /\ legs \in [Nodes -> Legs]
        /\ \A n \in Nodes : LegOk(legs[n]) /\ legs[n].pc \notin Statuses
    BY <1>2, <2>2, ProxyAssumption
  <2>4. q \in RequestRecords /\ q.mode = "redundant" /\ q.outcome = "none" /\ q.kept = "no"
    BY <1>1 DEF RequestRecords, Racing
  <2> HIDE DEF q, legs
  <2>5. RequestOk(q, legs, {})
    BY <2>3, <2>4 DEF RequestOk
  <2> QED BY <1>3, <2>1, <2>5, RequestMoves
<1> QED BY <1>4, <1>5

\* The aggregator answers with a reply it has, and gives up only when it has none.
LEMMA CollectMoves ==
  ASSUME RoutingInv, NEW r \in Requests, Collect(r)
  PROVE  Moves(r)
<1>1. /\ RequestOk(req[r], route[r], replied[r]) /\ DOMAIN route = Requests /\ DOMAIN req = Requests
      /\ replied' = replied /\ req[r].mode = "redundant" /\ replied[r] \in SUBSET Nodes
  BY DEF RoutingInv, Collect
<1>2. LegOk(NoRoute) /\ NoRoute.pc = "none" /\ NoRoute \in Legs
  BY ProxyAssumption DEF LegOk, NoRoute, Legs
<1>3. replied' = [replied EXCEPT ![r] = replied[r]]
  BY <1>1 DEF RoutingInv
<1>4. \A o : /\ Ended(o).mode = "idle" /\ Ended(o).outcome = o
             /\ o \in {"answer", "exhausted"} => Ended(o) \in RequestRecords
  BY DEF Ended, RequestRecords
<1>5. CASE Successes(r) # {}
  <2> DEFINE legs == [n \in Nodes |-> NoRoute]
  <2>1. req' = [req EXCEPT ![r] = Ended("answer")] /\ route' = [route EXCEPT ![r] = legs]
    BY <1>5, Zenon DEF Collect
  <2>2. legs \in [Nodes -> Legs] /\ \A n \in Nodes : LegOk(legs[n]) /\ legs[n].pc = "none"
    BY <1>2
  <2>3. replied[r] # {}
    <3>1. PICK n \in Nodes : route[r][n].pc = "success" /\ route[r][n].pc \in {"raised"} \cup Statuses
      BY <1>5 DEF Successes, Finished
    <3>2. route[r][n].pc \in Statuses
      BY <3>1
    <3> QED BY <1>1, <3>2 DEF RequestOk
  <2> HIDE DEF legs
  <2>4. RequestOk(Ended("answer"), legs, replied[r])
    BY <1>4, <2>2, <2>3 DEF RequestOk
  <2> QED BY <1>1, <1>3, <2>1, <2>4, RequestMoves
<1>6. CASE Successes(r) = {}
  <2> DEFINE legs == [n \in Nodes |-> IF n \in Finished(r) THEN NoRoute ELSE route[r][n]]
             keep == IF Others(r) # {} THEN "yes" ELSE req[r].kept
             q == IF Pending(r) # {} THEN Racing(req[r].cands, keep)
                  ELSE Ended(IF keep = "yes" THEN "answer" ELSE "exhausted")
  <2>1. req' = [req EXCEPT ![r] = q] /\ route' = [route EXCEPT ![r] = legs]
    BY <1>6, Zenon DEF Collect
  <2>2. /\ legs \in [Nodes -> Legs] /\ \A n \in Nodes : LegOk(legs[n])
        /\ \A n \in Nodes : legs[n].pc \notin Statuses
        /\ Pending(r) = {} => \A n \in Nodes : legs[n].pc = "none"
    BY <1>1, <1>2, ProxyAssumption DEF RequestOk, LegOk, Legs, Finished, Pending, InFlight
  <2>3. keep \in {"no", "yes"} /\ (keep = "yes" <=> replied[r] # {})
    <3>1. CASE Others(r) # {}
      <4>1. PICK n \in Nodes : route[r][n].pc \in Statuses
        BY <3>1 DEF Others, Finished
      <4> QED BY <1>1, <3>1, <4>1 DEF RequestOk
    <3>2. CASE Others(r) = {}
      <4>1. \A n \in Nodes : route[r][n].pc \notin Statuses
        BY <1>6, <3>2 DEF Others, Successes, Finished
      <4> QED BY <1>1, <3>2, <4>1 DEF RequestOk, RequestRecords
    <3> QED BY <3>1, <3>2
  <2> HIDE DEF legs, keep
  <2>4. CASE Pending(r) # {}
    <3>1. q = Racing(req[r].cands, keep)
      BY <2>4
    <3>2. q \in RequestRecords /\ q.mode = "redundant" /\ q.outcome = "none" /\ q.kept = keep
      BY <1>1, <2>3, <3>1 DEF Racing, RequestRecords, RequestOk
    <3> HIDE DEF q
    <3>3. RequestOk(q, legs, replied[r])
      BY <2>2, <2>3, <3>2 DEF RequestOk
    <3> QED BY <1>1, <1>3, <2>1, <3>3, RequestMoves
  <2>5. CASE Pending(r) = {}
    <3>1. q = Ended(IF keep = "yes" THEN "answer" ELSE "exhausted")
      BY <2>5
    <3>2. /\ q \in RequestRecords /\ q.mode = "idle"
          /\ q.outcome = IF keep = "yes" THEN "answer" ELSE "exhausted"
      BY <1>4, <3>1
    <3> HIDE DEF q
    <3>3. RequestOk(q, legs, replied[r])
      BY <2>2, <2>3, <2>5, <3>2 DEF RequestOk
    <3> QED BY <1>1, <1>3, <2>1, <3>3, RequestMoves
  <2> QED BY <2>4, <2>5
<1> QED BY <1>5, <1>6

\* Every step keeps all requests in order.
LEMMA RoutingStep == RoutingInv /\ [Next]_vars => RoutingInv'
<1> SUFFICES ASSUME RoutingInv, [Next]_vars PROVE RoutingInv'
  OBVIOUS
<1>1. ASSUME NEW r \in Requests, Moves(r) PROVE RoutingInv'
  BY <1>1 DEF Moves, RoutingInv
<1>2. CASE UNCHANGED <<req, route, replied>>
  BY <1>2 DEF RoutingInv
<1>3. ASSUME NEW r \in Requests, NEW s \in Rankings, SubmitSerial(r, s) \/ SubmitRedundant(r, s)
      PROVE  RoutingInv'
  BY <1>1, <1>3, SubmitMoves
<1>4. ASSUME NEW r \in Requests, Collect(r) PROVE RoutingInv'
  BY <1>1, <1>4, CollectMoves
<1>5. ASSUME NEW r \in Requests, NEW n \in Nodes, PostEnds(r, n) PROVE RoutingInv'
  <2>1. ASSUME NEW e, PostLost(r, n, e) PROVE Moves(r)
    BY <2>1, FailedMoves DEF PostLost
  <2>2. ASSUME NEW e, PostRefused(r, n, e) PROVE Moves(r)
    BY <2>2, FailedMoves DEF PostRefused, world
  <2>3. ASSUME NEW e, PostErrored(r, n, e) PROVE Moves(r)
    BY <2>3, FailedMoves DEF PostErrored
  <2> QED BY <1>1, <1>5, <2>1, <2>2, <2>3, RepliesMoves, MismatchMoves DEF PostEnds
<1>6. ASSUME NEW r \in Requests, NEW n \in Nodes, LegStarts(r, n) PROVE RoutingInv'
  <2> DEFINE c == route[r][n]
             d == IF Passes(n, opened) THEN FirstPost ELSE [c EXCEPT !.pc = "raised"]
  <2>1. /\ req' = req /\ replied' = replied /\ route' = [route EXCEPT ![r][n] = d]
        /\ c.pc = "created"
    BY <1>6, Zenon DEF LegStarts, world
  <2>2. LegOk(c)
    BY DEF RoutingInv, RequestOk
  <2>3. LegOk(d) /\ d.pc \in {"post", "raised"}
    <3>1. CASE Passes(n, opened)
      BY <3>1, ProxyAssumption DEF FirstPost, LegOk, Legs
    <3>2. CASE ~Passes(n, opened)
      BY <2>2, <3>2 DEF LegOk, Legs
    <3> QED BY <3>1, <3>2
  <2> HIDE DEF d
  <2> QED BY <1>1, <2>1, <2>3, LegMoves, ProxyAssumption
<1>7. ASSUME NEW r \in Requests, NEW n \in Nodes, Retry(r, n) PROVE RoutingInv'
  <2> DEFINE c == route[r][n]
             d == [c EXCEPT !.pc = "post", !.attempt = c.attempt + 1, !.posts = c.posts + 1]
  <2>1. /\ req' = req /\ replied' = replied /\ route' = [route EXCEPT ![r][n] = d]
        /\ c.pc = "backoff"
    BY <1>7, Zenon DEF Retry, world
  <2>2. LegOk(c)
    BY DEF RoutingInv, RequestOk
  <2>3. LegOk(d) /\ d.pc = "post"
    BY <2>1, <2>2, NextPost, Zenon
  <2> HIDE DEF d
  <2> QED BY <1>1, <2>1, <2>3, LegMoves, ProxyAssumption
<1>8. ASSUME NEW r \in Requests, NEW n \in Nodes, ExecutesLate(r, n) PROVE RoutingInv'
  BY <1>2, <1>8 DEF ExecutesLate
<1>9. ASSUME NEW n \in Nodes, ResetElapses(n) PROVE RoutingInv'
  BY <1>2, <1>9 DEF ResetElapses, world
<1>10. CASE UNCHANGED vars
  BY <1>2, <1>10 DEF vars, world
<1> QED BY <1>3, <1>4, <1>5, <1>6, <1>7, <1>8, <1>9, <1>10 DEF Next

\* The requests, their candidates and their coroutines, in every reachable state.
THEOREM RoutingInvariant == Spec => []RoutingInv
<1>1. Init => RoutingInv
  <2> SUFFICES ASSUME Init PROVE RoutingInv
    OBVIOUS
  <2>1. LegOk(NoRoute) /\ NoRoute.pc = "none" /\ NoRoute \in Legs
    BY ProxyAssumption DEF LegOk, NoRoute, Legs
  <2>2. Ended("none") \in RequestRecords /\ Ended("none").mode = "idle" /\ Ended("none").outcome = "none"
    BY DEF Ended, RequestRecords
  <2>3. RequestOk(Ended("none"), [n \in Nodes |-> NoRoute], {})
    BY <2>1, <2>2 DEF RequestOk
  <2> QED BY <2>3 DEF Init, RoutingInv
<1> QED BY <1>1, RoutingStep, PTL DEF Spec

-----------------------------------------------------------------------------
(* No needless repetition.                                                 *)

\* The strengthening of NoNeedlessRepeat: a node that has the task and has not
\* run it left the proxy in doubt or answered with an error.
RepeatInv ==
    /\ arrived \in [Requests -> SUBSET Nodes] /\ executed \in [Requests -> SUBSET Nodes]
    /\ lost \in [Requests -> SUBSET Nodes] /\ errored \in [Requests -> SUBSET Nodes]
    /\ discarded \in [Requests -> SUBSET Nodes]
    /\ \A r \in Requests : arrived[r] \subseteq executed[r] \cup lost[r] \cup errored[r]
    /\ NoNeedlessRepeat

\* What a step may do to the request record of r: other requests keep theirs,
\* and r is serial afterwards only if ok.
ReqMove(r, ok) ==
    /\ \A q \in Requests \ {r} : req'[q] = req[q]
    /\ req'[r].mode = "serial" => ok

\* A serial request that is still one has tried what it had tried.
GoesOn(r) == req[r].mode = "serial" /\ Tried(req[r]) \subseteq Tried(req'[r])

\* FallbackChain's walk touches its own request only, and goes forward.
LEMMA WalkGoesOn ==
    ASSUME RoutingInv, NEW r \in Requests, req[r].mode = "serial", NEW o, NEW routes,
           Walk(r, req[r].cands, req[r].at + 1, o, routes)
    PROVE  ReqMove(r, GoesOn(r))
<1> DEFINE s == req[r].cands
           i == req[r].at + 1
           j == NextStop(s, i, o)
<1>1. s \in Seq(Nodes) /\ req[r].at \in 1..Len(s) /\ DOMAIN req = Requests
  BY DEF RoutingInv, RequestOk, RequestRecords
<1>2. i \in 1..(Len(s) + 1)
  BY <1>1
<1> HIDE DEF s
<1>3. j \in i..(Len(s) + 1)
  BY <1>1, <1>2, WalkStops
<1> HIDE DEF j
<1>4. CASE j <= Len(s)
  <2> DEFINE q == [mode |-> "serial", cands |-> s, at |-> j, kept |-> "no", outcome |-> "none"]
  <2>1. req' = [req EXCEPT ![r] = q]
    BY <1>4, Zenon DEF Walk, j, s
  <2>2. req'[r] = q /\ q.cands = s /\ q.at = j /\ \A p \in Requests \ {r} : req'[p] = req[p]
    BY <1>1, <2>1
  <2> HIDE DEF q
  <2>3. Tried(req[r]) \subseteq Tried(req'[r])
    BY <1>1, <1>3, <2>2 DEF Tried, s
  <2> QED BY <2>2, <2>3 DEF ReqMove, GoesOn
<1>5. CASE ~(j <= Len(s))
  <2>1. PICK out : req' = [req EXCEPT ![r] = Ended(out)]
    BY <1>5, Zenon DEF Walk, j, s
  <2> QED BY <1>1, <2>1 DEF ReqMove, Ended
<1> QED BY <1>4, <1>5

\* A failed POST keeps the request as it is, or lets a serial one walk on.
LEMMA FailedGoesOn ==
    ASSUME RoutingInv, NEW r \in Requests, NEW n \in Nodes, NEW e, Failed(r, n, e)
    PROVE  ReqMove(r, GoesOn(r))
<1>1. CASE req' = req
  BY <1>1 DEF ReqMove, GoesOn
<1>2. CASE req[r].mode = "serial" /\ Raise(r, n)
  BY <1>2, WalkGoesOn DEF Raise
<1>3. QED
  BY <1>1, <1>2, Zenon DEF Failed, Raise

\* The node a serial request is POSTing to is one it has come to.
LEMMA InFlightIsTried ==
    ASSUME RoutingInv, NEW r \in Requests, NEW n \in Nodes, req[r].mode = "serial",
           route[r][n].pc \in InFlight
    PROVE  n \in Tried(req[r])
<1>1. /\ {m \in Nodes : route[r][m].pc # "none"} = {req[r].cands[req[r].at]}
      /\ req[r].at \in 1..Len(req[r].cands) /\ req[r].cands \in Seq(Nodes)
  BY DEF RoutingInv, RequestOk, RequestRecords
<1>2. n = req[r].cands[req[r].at]
  BY <1>1 DEF InFlight
<1> QED BY <1>1, <1>2 DEF Tried

\* RepeatInv survives every step.
LEMMA RepeatStep == RoutingInv /\ RepeatInv /\ [Next]_vars => RepeatInv'
<1> SUFFICES ASSUME RoutingInv, RepeatInv, [Next]_vars
             PROVE  RepeatInv'
  OBVIOUS
<1>0. replied \in [Requests -> SUBSET Nodes] /\ DOMAIN req = Requests
  BY DEF RoutingInv
<1>1. ASSUME NEW r \in Requests, NEW n \in Nodes, NEW e, PostLost(r, n, e)
      PROVE  RepeatInv'
  <2>1. ReqMove(r, GoesOn(r))
    BY <1>1, FailedGoesOn DEF PostLost
  <2>2. req[r].mode = "serial" => n \in Tried(req[r])
    BY <1>1, InFlightIsTried DEF PostLost
  <2>3. QED
    BY <1>0, <1>1, <2>1, <2>2 DEF PostLost, RepeatInv, NoNeedlessRepeat, ReqMove, GoesOn
<1>2. ASSUME NEW r \in Requests, NEW n \in Nodes, NEW e, PostRefused(r, n, e)
      PROVE  RepeatInv'
  <2>1. ReqMove(r, GoesOn(r))
    BY <1>2, FailedGoesOn DEF PostRefused
  <2>2. QED
    BY <1>0, <1>2, <2>1 DEF PostRefused, RepeatInv, NoNeedlessRepeat, ReqMove, GoesOn, world
<1>3. ASSUME NEW r \in Requests, NEW n \in Nodes, NEW e, PostErrored(r, n, e)
      PROVE  RepeatInv'
  <2>1. ReqMove(r, GoesOn(r))
    BY <1>3, FailedGoesOn DEF PostErrored
  <2>2. req[r].mode = "serial" => n \in Tried(req[r])
    BY <1>3, InFlightIsTried DEF PostErrored
  <2>3. QED
    BY <1>0, <1>3, <2>1, <2>2 DEF PostErrored, RepeatInv, NoNeedlessRepeat, ReqMove, GoesOn
<1>4. ASSUME NEW r \in Requests, NEW n \in Nodes, NEW s \in Statuses, Replies(r, n, s)
      PROVE  RepeatInv'
  <2>1. ReqMove(r, FALSE)
    BY <1>0, <1>4 DEF Replies, Ended, ReqMove
  <2>2. QED
    BY <1>0, <1>4, <2>1 DEF Replies, RepeatInv, NoNeedlessRepeat, ReqMove
<1>5. ASSUME NEW r \in Requests, NEW n \in Nodes, RepliesMismatched(r, n)
      PROVE  RepeatInv'
  <2>1. ReqMove(r, GoesOn(r))
    BY <1>5, WalkGoesOn DEF RepliesMismatched
  <2>2. n \in Tried(req[r])
    BY <1>5, InFlightIsTried DEF RepliesMismatched
  <2>3. QED
    BY <1>0, <1>5, <2>1, <2>2 DEF RepliesMismatched, RepeatInv, NoNeedlessRepeat, ReqMove, GoesOn
<1>6. ASSUME NEW r \in Requests, NEW s \in Rankings, SubmitSerial(r, s) \/ SubmitRedundant(r, s)
      PROVE  RepeatInv'
  <2>1. ReqMove(r, TRUE)
    <3>1. Moves(r)
      BY <1>6, SubmitMoves
    <3> QED BY <3>1 DEF Moves, ReqMove
  <2>2. NewTask(r)
    BY <1>6 DEF SubmitSerial, SubmitRedundant
  <2>3. QED
    BY <1>0, <2>1, <2>2 DEF NewTask, RepeatInv, NoNeedlessRepeat, ReqMove
<1>7. ASSUME NEW r \in Requests, Collect(r)
      PROVE  RepeatInv'
  <2>1. ReqMove(r, FALSE)
    <3>1. \/ \E o : req' = [req EXCEPT ![r] = Ended(o)]
          \/ \E s, keep : req' = [req EXCEPT ![r] = Racing(s, keep)]
      <4>1. CASE Successes(r) # {} \/ Pending(r) = {}
        BY <1>7, <4>1, Zenon DEF Collect
      <4>2. CASE Successes(r) = {} /\ Pending(r) # {}
        BY <1>7, <4>2, Zenon DEF Collect
      <4>3. QED
        BY <4>1, <4>2
    <3>2. QED
      BY <1>0, <3>1 DEF Ended, Racing, ReqMove
  <2>2. PICK taken \in SUBSET Nodes :
             /\ arrived' = [arrived EXCEPT ![r] = @ \cup taken]
             /\ lost' = [lost EXCEPT ![r] = @ \cup taken]
    <3>1. CASE Successes(r) # {}
      BY <1>7, <3>1 DEF Collect, Pending
    <3>2. CASE Successes(r) = {}
      <4>1. arrived' = arrived /\ lost' = lost
        BY <1>7, <3>2 DEF Collect
      <4>2. arrived' = [arrived EXCEPT ![r] = @ \cup {}] /\ lost' = [lost EXCEPT ![r] = @ \cup {}]
        BY <4>1 DEF RepeatInv
      <4>3. QED
        BY <4>2
    <3>3. QED
      BY <3>1, <3>2
  <2>3. QED
    BY <1>0, <1>7, <2>1, <2>2 DEF Collect, RepeatInv, NoNeedlessRepeat, ReqMove
<1>8. ASSUME NEW r \in Requests, NEW n \in Nodes, LegStarts(r, n) \/ Retry(r, n)
      PROVE  RepeatInv'
  BY <1>8 DEF LegStarts, Retry, world, RepeatInv, NoNeedlessRepeat
<1>9. ASSUME NEW r \in Requests, NEW n \in Nodes, ExecutesLate(r, n)
      PROVE  RepeatInv'
  BY <1>9 DEF ExecutesLate, RepeatInv, NoNeedlessRepeat
<1>10. ASSUME NEW n \in Nodes, ResetElapses(n)
      PROVE  RepeatInv'
  BY <1>10 DEF ResetElapses, world, RepeatInv, NoNeedlessRepeat
<1>11. CASE UNCHANGED vars
  BY <1>11 DEF vars, world, RepeatInv, NoNeedlessRepeat
<1>12. QED
  BY <1>1, <1>2, <1>3, <1>4, <1>5, <1>6, <1>7, <1>8, <1>9, <1>10, <1>11 DEF Next, PostEnds

\* FallbackChain gives the task to its candidates in their order and to none after a
\* reply it could use, for any ranking, losses and error statuses (NoNeedlessRepeat).
THEOREM NoTaskRepeatedNeedlessly == Spec => []NoNeedlessRepeat
<1>1. Init => RepeatInv
  BY DEF Init, Ended, RepeatInv, NoNeedlessRepeat
<1>2. RepeatInv => NoNeedlessRepeat
  BY DEF RepeatInv
<1>3. QED
  BY <1>1, <1>2, RepeatStep, RoutingInvariant, PTL DEF Spec

-----------------------------------------------------------------------------
\* What routing owes a request and its nodes, in every order of late replies, lost
\* connections and breaker trips, for any number of requests and nodes: callers are told
\* the truth, no task is sent on after a usable reply, no node sees more POSTs than its
\* budget and the breaker's two maps agree (RoutingSound).
THEOREM RoutingStaysSound == Spec => []RoutingSound
<1>1. RoutingInv => OutcomeIsTrue
  BY DEF RoutingInv, RequestOk, RequestRecords, OutcomeIsTrue
<1>2. RoutingInv => RetryBudget
  <2> SUFFICES ASSUME RoutingInv, NEW r \in Requests
               PROVE  /\ \A n \in Nodes : route[r][n].posts <= MaxRetries + route[r][n].native
                      /\ req[r].mode = "serial" =>
                           {n \in Nodes : route[r][n].pc # "none"} = {req[r].cands[req[r].at]}
    BY DEF RetryBudget
  <2>1. RequestOk(req[r], route[r], replied[r])
    BY DEF RoutingInv
  <2>2. ASSUME NEW n \in Nodes PROVE route[r][n].posts <= MaxRetries + route[r][n].native
    <3>1. LegOk(route[r][n])
      BY <2>1 DEF RequestOk
    <3> QED BY <3>1, ProxyAssumption DEF LegOk, Legs
  <2> QED BY <2>1, <2>2 DEF RequestOk
<1> QED
  BY <1>1, <1>2, RoutingInvariant, NoTaskRepeatedNeedlessly, BreakersConsistent, PTL DEF RoutingSound
=============================================================================
