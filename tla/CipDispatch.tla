----------------------------- MODULE CipDispatch -----------------------------
(***************************************************************************)
(* One request through a front end of the proxy and through cooperative     *)
(* inference (CIP): the three compatible surfaces resolve and select nodes, *)
(* read the consumer's balance, pass the dispatch gates, which spend from a *)
(* session budget shared by all requests, and hand the task to the fallback *)
(* chain; a reply is bound to its dispatch by session key and hash, and its *)
(* receipt is forwarded to the credit ledger by a background coroutine.     *)
(* Everything runs on one event loop: what lies between two awaits is one   *)
(* step.  How a POST to a candidate goes is ProxyRouting's subject; here a  *)
(* candidate replies or it does not.                                        *)
(***************************************************************************)
EXTENDS Integers, Sequences, FiniteSets

CONSTANTS
    CdRequests,     \* requests, each served once
    CdBodies,       \* the bodies they may bring
    CdNodes,        \* nodes discovery may return
    CdInfo,         \* what the directory publishes of each
    CdDiscoveries,  \* the ranked lists discovery may return
    CdConfig,       \* CIPDispatchConfig and the selector's threshold
    CdBalances,     \* what a balance fetch may yield; NoValue when it fails
    CdNonces,       \* nonces workers put into receipts
    NoValue         \* Python's None

\* A session_credit_budget is a number of credits or not set.
ASSUME BudgetAssumption == CdConfig.budget \in Nat \cup {NoValue}
ASSUME CdRequestsAssumption == IsFiniteSet(CdRequests)

VARIABLES
    cdReq,       \* per request: where its handler is and what it has gathered
    cdSpent,     \* SessionBudgetTracker._spent
    cdAwards,    \* the _fire_award coroutines still to run or waiting for the ledger
    cdSeen,      \* ReplayCache._seen
    cdForwarded  \* awards POSTed to the ledger, per nonce since it was first seen

cdVars == <<cdReq, cdSpent, cdAwards, cdSeen, cdForwarded>>

-----------------------------------------------------------------------------
(* Selection: directory order is kept, nodes are only dropped.  Loads and   *)
(* reputations are in tenths.                                               *)

\* A node whose reputation is not published counts with the reader's default.
Reputation(n, default) == IF CdInfo[n].reputation = NoValue THEN default ELSE CdInfo[n].reputation

Rank(list, models) ==
    LET keeps(n) == /\ CdInfo[n].available
                    /\ CdInfo[n].load < 8
                    /\ Reputation(n, 10) >= CdConfig.minReputation
        available == SelectSeq(list, keeps)
        matching == SelectSeq(available, LAMBDA n : CdInfo[n].models \cap models # {})
    IN  IF models = {} \/ matching = <<>> THEN available ELSE matching

Cheapest(list) ==
    CHOOSE i \in DOMAIN list : \A j \in DOMAIN list :
        \/ CdInfo[list[i]].multiplier < CdInfo[list[j]].multiplier
        \/ CdInfo[list[i]].multiplier = CdInfo[list[j]].multiplier /\ i <= j

\* The billing block's limits; a missing one is NoValue.  No front end passes
\* requested_models; expected_tokens is the default thousand, one credit a unit.
Select(list, billing) ==
    LET meets(n) ==
            /\ billing.quality # NoValue => CdInfo[n].score >= billing.quality
            /\ billing.multiplier # NoValue => CdInfo[n].multiplier <= billing.multiplier
        fit == SelectSeq(Rank(list, {}), meets)
        cheap == SelectSeq(fit, LAMBDA n : CdInfo[n].multiplier <= billing.credits)
    IN  IF billing.credits = NoValue \/ fit = <<>> THEN fit
        ELSE IF cheap # <<>> THEN cheap
        ELSE <<fit[Cheapest(fit)]>>

-----------------------------------------------------------------------------
(* The gates.                                                               *)

ValidFields(cip) ==
    /\ cip.policy \in {NoValue, "best_of_n", "majority_vote", "map_reduce"}
    /\ cip.replicas # NoValue =>
          /\ cip.replicas \in 1..10
          /\ cip.policy = "majority_vote" => cip.replicas % 2 = 1
    /\ cip.quorum # NoValue =>
          cip.quorum \in 1..(IF cip.replicas = NoValue THEN 1 ELSE cip.replicas)

\* Workers a dispatch counts on: they take remote work, have the reputation and
\* are trusted when the operator lists peers.
Eligible(nodes) ==
    {n \in {nodes[i] : i \in DOMAIN nodes} :
        /\ CdInfo[n].remote
        /\ Reputation(n, 0) >= CdConfig.minReputation
        /\ CdConfig.trusted # {} => n \in CdConfig.trusted}

EstimatedCredits == 1

CanSpend(spent, credits) == CdConfig.budget = NoValue \/ spent + credits <= CdConfig.budget

Blocked(code) == IF CdConfig.strategy = "local-first" THEN "local" ELSE code

Affordability(balance) ==
    IF EstimatedCredits > CdConfig.maxPerTask THEN "local"
    ELSE IF ~CanSpend(cdSpent, EstimatedCredits) THEN "local"
    ELSE IF balance # NoValue /\ EstimatedCredits > balance THEN Blocked("E036")
    ELSE "pass"

\* No caller passes node_list, so the local-first gate 4 never applies.
DecideDispatch(body, nodes, balance, replicas) ==
    LET afford == Affordability(balance)
    IN  IF afford # "pass" THEN afford
        ELSE IF body.sensitive /\ ~CdConfig.sendSensitive THEN "local"
        ELSE IF Cardinality(Eligible(nodes)) < replicas THEN Blocked("E022")
        ELSE "remote"

\* compute_cip_envelope: only the OpenAI surface passes qos.
ComputeEnvelope(body, nodes, balance) ==
    IF \/ ~CdConfig.enabled
       \/ body.surface = "openai" /\ body.realtime
       \/ ~ValidFields(body.cip)
    THEN "local"
    ELSE DecideDispatch(body, nodes, balance,
                        IF body.cip.replicas = NoValue THEN 1 ELSE body.cip.replicas)

\* Mutation: the spend is recorded once the award has gone through.
RecordSpendAtAward(credits) == UNCHANGED cdSpent

RecordSpend(credits) == cdSpent' = IF CdConfig.budget = NoValue THEN cdSpent ELSE cdSpent + credits

-----------------------------------------------------------------------------
(* The handlers of the three surfaces.                                      *)

Waiting == [pc |-> "none", body |-> NoValue, nodes |-> <<>>, at |-> 0,
            envelope |-> FALSE, sent |-> {}, status |-> NoValue]

CdInit ==
    /\ cdReq = [r \in CdRequests |-> Waiting]
    /\ cdSpent = 0
    /\ cdAwards = {}
    /\ cdSeen = {}
    /\ cdForwarded = [n \in CdNonces |-> 0]

\* The handler returns; of what it held only what it did is kept.
Answered(q, status) ==
    [q EXCEPT !.pc = "done", !.status = status, !.body = NoValue, !.nodes = <<>>, !.at = 0]

\* A handler reads its body; an unknown identity mode is refused at once.
Receive(r, body, refuses) ==
    /\ cdReq[r].pc = "none"
    /\ LET q == [Waiting EXCEPT !.body = body, !.pc = "discover"]
       IN  cdReq' = [cdReq EXCEPT ![r] = IF refuses THEN Answered(q, "400") ELSE q]
    /\ UNCHANGED <<cdSpent, cdAwards, cdSeen, cdForwarded>>

ChatCompletions(r, body) == body.surface = "openai" /\ Receive(r, body, body.badIdentity)

ApiChat(r, body) == body.surface = "ollama" /\ Receive(r, body, body.badIdentity)

\* The raw-prompt surface does not read the identity header.
ApiGenerate(r, body) == body.surface = "generate" /\ Receive(r, body, FALSE)

Messages(r, body) == body.surface = "anthropic" /\ Receive(r, body, body.badIdentity)

NoLimits == [quality |-> NoValue, multiplier |-> NoValue, credits |-> NoValue]

BillingConstraints(body) == IF body.billing = NoValue THEN NoLimits ELSE body.billing

\* The peer cache or the directory yields the raw list, a failed discovery none.
Selected(r, raw, limits) ==
    /\ cdReq[r].pc = "discover"
    /\ cdReq' = [cdReq EXCEPT ![r].nodes = Select(raw, limits), ![r].pc = "balance"]
    /\ UNCHANGED <<cdSpent, cdAwards, cdSeen, cdForwarded>>

ResolveNodes(r, raw) ==
    cdReq[r].body.surface = "openai" /\ Selected(r, raw, BillingConstraints(cdReq[r].body))

ExecuteOllama(r, raw) ==
    cdReq[r].body.surface \in {"ollama", "generate"} /\ Selected(r, raw, NoLimits)

ExecuteAnthropic(r, raw) ==
    cdReq[r].body.surface = "anthropic" /\ Selected(r, raw, NoLimits)

\* FallbackChain.execute takes over at candidate i, or has none left.
Chain(q, i) ==
    IF i > Len(q.nodes)
    THEN Answered(q, IF q.nodes = <<>> THEN "E033" ELSE "exhausted")
    ELSE [q EXCEPT !.pc = "route", !.at = i, !.sent = @ \cup {q.nodes[i]}]

\* resolve_consumer_balance returns (NoValue without CIP or token) and the handler
\* runs on to its next await: gates, spend and the first POST are one step.  The
\* aggregator of the realtime path gets no envelope.
PassGates(r, balance) ==
    /\ cdReq[r].pc = "balance"
    /\ ~CdConfig.enabled => balance = NoValue
    /\ LET q == cdReq[r]
           decision == ComputeEnvelope(q.body, q.nodes, balance)
           redundant == q.body.surface = "openai" /\ q.body.realtime /\ Len(q.nodes) > 1
       IN  /\ cdReq' = [cdReq EXCEPT ![r] =
                 IF decision = "E036" THEN Answered(q, "402")
                 ELSE IF decision = "E022" THEN Answered(q, "503")
                 ELSE IF redundant THEN [q EXCEPT !.pc = "race",
                                                  !.sent = {q.nodes[i] : i \in DOMAIN q.nodes}]
                 ELSE Chain([q EXCEPT !.envelope = (decision = "remote")], 1)]
           /\ IF decision = "remote" THEN RecordSpend(EstimatedCredits) ELSE UNCHANGED cdSpent
    /\ UNCHANGED <<cdAwards, cdSeen, cdForwarded>>

RaceEnds(r, status) ==
    /\ cdReq[r].pc = "race"
    /\ cdReq' = [cdReq EXCEPT ![r] = Answered(@, status)]
    /\ UNCHANGED <<cdSpent, cdAwards, cdSeen, cdForwarded>>

\* The candidate fails or its breaker is open.
RouteFails(r) ==
    /\ cdReq[r].pc = "route"
    /\ cdReq' = [cdReq EXCEPT ![r] = Chain(@, @.at + 1)]
    /\ UNCHANGED <<cdSpent, cdAwards, cdSeen, cdForwarded>>

-----------------------------------------------------------------------------
(* Replies, receipts and awards.  A reply and its receipt carry the session *)
(* key made for this dispatch, another one, or none.                        *)

Keys == {"own", "other", NoValue}

Receipts == [nonce : CdNonces, key : Keys, hash : {NoValue, "other", "result"}]

Replies == [key : Keys, receipt : Receipts \cup {NoValue}]

\* _verify_receipt_hash: a receipt must carry the hash of the result it came with.
HashMatches(reply) == reply.receipt # NoValue => reply.receipt.hash = "result"

Accepts(r, reply) == cdReq[r].envelope => reply.key = "own" /\ HashMatches(reply)

Award(r, reply) ==
    [req |-> r, node |-> cdReq[r].nodes[cdReq[r].at], reply |-> reply, posted |-> FALSE]

RouteReplies(r, reply) ==
    /\ cdReq[r].pc = "route"
    /\ cdReq' = [cdReq EXCEPT ![r] = IF Accepts(r, reply) THEN Answered(@, "ok")
                                                          ELSE Chain(@, @.at + 1)]
    /\ cdAwards' = IF Accepts(r, reply) /\ cdReq[r].envelope /\ reply.receipt # NoValue
                   THEN cdAwards \cup {Award(r, reply)} ELSE cdAwards
    /\ UNCHANGED <<cdSpent, cdSeen, cdForwarded>>

\* Mutation: a nonce is looked up and not remembered.
RemembersNothing(nonce) == UNCHANGED cdSeen

Remembers(nonce) == cdSeen' = cdSeen \cup {nonce}

\* submit_award up to its POST: the nonce is spent before the session check.
SubmitAward(a) ==
    /\ a \in cdAwards
    /\ ~a.posted
    /\ LET receipt == a.reply.receipt
           fresh == receipt.nonce \notin cdSeen
           bound == receipt.key = "own"
       IN  /\ Remembers(receipt.nonce)
           /\ cdAwards' = (cdAwards \ {a}) \cup
                 (IF fresh /\ bound THEN {[a EXCEPT !.posted = TRUE]} ELSE {})
           /\ cdForwarded' = IF fresh /\ bound
                             THEN [cdForwarded EXCEPT ![receipt.nonce] = @ + 1] ELSE cdForwarded
    /\ UNCHANGED <<cdReq, cdSpent>>

\* The ledger accepts, refuses or is not reached: nothing is tried again.
AwardEnds(a) ==
    /\ a \in cdAwards
    /\ a.posted
    /\ cdAwards' = cdAwards \ {a}
    /\ UNCHANGED <<cdReq, cdSpent, cdSeen, cdForwarded>>

\* The replay window of a nonce goes by and the cache evicts it.
EvictNonce(n) ==
    /\ n \in cdSeen
    /\ cdSeen' = cdSeen \ {n}
    /\ cdForwarded' = [cdForwarded EXCEPT ![n] = 0]
    /\ UNCHANGED <<cdReq, cdSpent, cdAwards>>

CdNext ==
    \/ \E r \in CdRequests : \/ \E body \in CdBodies :
                                    \/ ChatCompletions(r, body) \/ Messages(r, body)
                                    \/ ApiChat(r, body) \/ ApiGenerate(r, body)
                             \/ \E raw \in CdDiscoveries :
                                    /\ cdReq[r].pc = "discover"
                                    /\ \/ ResolveNodes(r, raw)
                                       \/ ExecuteOllama(r, raw)
                                       \/ ExecuteAnthropic(r, raw)
                             \/ \E balance \in CdBalances : PassGates(r, balance)
                             \/ \E status \in {"ok", "exhausted"} : RaceEnds(r, status)
                             \/ RouteFails(r)
                             \/ \E reply \in Replies : RouteReplies(r, reply)
    \/ \E a \in cdAwards : SubmitAward(a) \/ AwardEnds(a)
    \/ \E n \in CdNonces : EvictNonce(n)

CdSpec == CdInit /\ [][CdNext]_cdVars

-----------------------------------------------------------------------------
(* Properties.                                                              *)

\* However requests interleave between their balance fetch and their replies,
\* the remote dispatches of a session never exceed session_credit_budget.
SessionBudgetHolds ==
    CdConfig.budget # NoValue =>
        Cardinality({r \in CdRequests : cdReq[r].envelope}) * EstimatedCredits <= CdConfig.budget

\* What reaches the credit ledger was earned: the award's reply echoed the key of
\* the dispatch it answered, its receipt carries that key and the hash of its
\* result, and within the replay window no nonce is forwarded a second time.
AwardsEarned ==
    /\ \A a \in cdAwards :
          a.posted => /\ cdReq[a.req].envelope /\ a.node \in cdReq[a.req].sent
                      /\ a.reply.key = "own" /\ a.reply.receipt.key = "own"
                      /\ a.reply.receipt.hash = "result"
    /\ \A n \in CdNonces : cdForwarded[n] <= 1

=============================================================================
