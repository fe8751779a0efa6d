--------------------------- MODULE ClientSubmission ---------------------------
(* One task submission of the client SDK (client.py _submit_async): route      *)
(* discovery with dispatch tickets or the legacy call, the routing policy      *)
(* filter, candidate selection with an optional ranker, consumer tokens, and   *)
(* the retry and fallback loop that sends the task. The directory and the      *)
(* nodes answer as they like.                                                  *)
EXTENDS Naturals, Sequences, FiniteSets, SequencesExt

CONSTANTS
    SdkNodes,     \* node ids
    SdkNode,      \* [SdkNodes -> what the directory says of the node]
    SdkConfigs    \* the client configurations and request policies to try

(* A node record has: safe (SSRF guard), key ("none", "plain", "response" for  *)
(* response_encryption_v1), region, manifest ("none", "unsigned", "signed"),   *)
(* keeps (it declares to retain payloads) and level, its manifest identity     *)
(* level. A configuration has: mode,                                           *)
(* restricted, profile (config.profile_request is set), retries, plaintext     *)
(* (IICP_CX_ALLOW_PLAINTEXT), auth, ranker, policy (routing profile) and       *)
(* required (required_manifest_identity_level).                                *)

ASSUME SdkNodesAssumption ==
    /\ IsFiniteSet(SdkNodes)
    /\ \A n \in SdkNodes : SdkNode[n].safe \in BOOLEAN /\ SdkNode[n].keeps \in BOOLEAN

(* The constructor refuses legacy discovery in restricted mode.                *)
ASSUME SdkConfigsAssumption ==
    \A c \in SdkConfigs :
        /\ c.mode \in {"auto", "ticketed", "legacy"} /\ c.retries \in Nat
        /\ c.required \in {"none", "signed_valid", "operator_bound", "known_operator"}
        /\ c.restricted \in BOOLEAN /\ c.profile \in BOOLEAN /\ c.plaintext \in BOOLEAN
        /\ ~(c.restricted /\ c.mode = "legacy")

VARIABLES
    sdCfg,        \* the configuration of this call
    sdPc,
    sdRoutes,     \* NodeList.nodes so far
    sdTicketed,   \* nodes whose dispatch ticket was verified
    sdEligible,   \* decision.eligible
    sdCands,      \* candidates
    sdIndex, sdAttempt,
    sdSends,      \* history: the sends of the task: node, how, answer
    sdOutcome     \* what the caller gets

sdVars == <<sdCfg, sdPc, sdRoutes, sdTicketed, sdEligible, sdCands, sdIndex, sdAttempt,
            sdSends, sdOutcome>>

SdInit ==
    /\ sdCfg \in SdkConfigs
    /\ sdPc = IF sdCfg.mode = "legacy" \/ sdCfg.profile THEN "discover" ELSE "ticket"
    /\ sdRoutes = <<>> /\ sdTicketed = {} /\ sdEligible = <<>> /\ sdCands = <<>>
    /\ sdIndex = 1 /\ sdAttempt = 0 /\ sdSends = <<>> /\ sdOutcome = "none"

TopN == IF sdCfg.retries < 1 THEN 1 ELSE sdCfg.retries
SdkEnds(outcome) == sdPc' = "end" /\ sdOutcome' = outcome

----------------------------------------------------------------------------
(* Discovery                                                                  *)

(* A ticket that verifies and binds the route's policy manifest, for a route   *)
(* that passes _node_from_route; the node is excluded from the next request.   *)
TicketGranted(n) ==
    /\ sdPc = "ticket"
    /\ n \notin Range(sdRoutes)
    /\ IF SdkNode[n].safe
       THEN /\ sdRoutes' = Append(sdRoutes, n)
            /\ sdTicketed' = sdTicketed \cup {n}
            /\ sdPc' = IF Len(sdRoutes) + 1 >= TopN THEN "filter" ELSE "ticket"
            /\ UNCHANGED sdOutcome
       ELSE SdkEnds("ticket_malformed") /\ UNCHANGED <<sdRoutes, sdTicketed>>
    /\ UNCHANGED <<sdCfg, sdEligible, sdCands, sdIndex, sdAttempt, sdSends>>

(* An answer that ends the loop, whatever was gathered: an unverifiable ticket,*)
(* a manifest mismatch, a restricted decision that does not match, a refusal.  *)
TicketRefused ==
    /\ sdPc = "ticket"
    /\ \E code \in {"ticket_unverified", "manifest_mismatch", "ticket_error"}
                   \cup (IF sdCfg.restricted THEN {"restricted_refused"} ELSE {}) :
         SdkEnds(code)
    /\ UNCHANGED <<sdCfg, sdRoutes, sdTicketed, sdEligible, sdCands, sdIndex, sdAttempt, sdSends>>

NoMoreRoutes ==
    /\ sdPc = "ticket"
    /\ sdPc' = "filter"
    /\ UNCHANGED <<sdCfg, sdRoutes, sdTicketed, sdEligible, sdCands, sdIndex, sdAttempt, sdSends,
                   sdOutcome>>

(* 404, 405, 501 or not_configured: the directory predates tickets.            *)
TicketUnsupported ==
    /\ sdPc = "ticket"
    /\ IF sdCfg.restricted THEN SdkEnds("restricted_fallback_refused")
       ELSE IF sdCfg.mode = "ticketed" THEN SdkEnds("ticket_unavailable")
       ELSE sdPc' = "discover" /\ UNCHANGED sdOutcome
    /\ UNCHANGED <<sdCfg, sdRoutes, sdTicketed, sdEligible, sdCands, sdIndex, sdAttempt, sdSends>>

(* discover_async: unsafe endpoints are skipped; a required profile the        *)
(* directory does not negotiate, or a restricted decision, ends the call.      *)
DiscoverAnswers ==
    /\ sdPc = "discover"
    /\ \/ \E s \in SUBSET SdkNodes :
            /\ sdRoutes' = SetToSeq({n \in s : SdkNode[n].safe})
            /\ sdPc' = "filter"
            /\ UNCHANGED sdOutcome
       \/ /\ SdkEnds(IF sdCfg.profile THEN "unsupported_profile" ELSE "directory_error")
          /\ UNCHANGED sdRoutes
    /\ UNCHANGED <<sdCfg, sdTicketed, sdEligible, sdCands, sdIndex, sdAttempt, sdSends>>

----------------------------------------------------------------------------
(* The routing policy (routing_policy.py)                                      *)

ManifestRank == [self_attested |-> 0, signed_valid |-> 1, operator_bound |-> 2,
                 known_operator |-> 3]

(* The members of keep, in the order of s: the place of one is how many there  *)
(* are up to it.                                                               *)
CountUpTo(at, i) == Cardinality({j \in at : j <= i})

Kept(s, keep) ==
    LET at == {i \in DOMAIN s : s[i] \in keep}
    IN  [k \in 1..Cardinality(at) |-> s[CHOOSE i \in at : CountUpTo(at, i) = k]]

(* resolved_policy: the profile's defaults.                                    *)
RequireEncryption(c) == c.policy # "debug_override"
AllowPlaintext(c) == c.plaintext \/ ~RequireEncryption(c)

(* _node_rejection_reason, in its order.                                       *)
RejectionReason(n, c) ==
    IF c.policy = "sensitive" THEN "remote_executor_disabled"
    ELSE IF c.policy = "eu_restricted" /\ n.region # "eu" THEN "region_not_allowed"
    ELSE IF RequireEncryption(c) /\ n.key = "none" /\ ~AllowPlaintext(c) THEN "missing_encryption_key"
    ELSE IF c.policy = "strict_policy" /\ n.manifest = "none" THEN "missing_policy_manifest"
    ELSE IF c.policy = "strict_policy" /\ n.manifest # "signed" THEN "policy_manifest_not_signed"
    ELSE IF c.policy = "strict_policy" /\ n.keeps THEN "payload_retention_not_none"
    ELSE IF c.required = "none" THEN "none"
    ELSE IF n.manifest = "none" \/ n.level = "none" THEN "missing_manifest_identity"
    ELSE IF n.level \in {"revoked", "rotated"} THEN "policy_manifest_revoked_or_rotated"
    ELSE IF n.level \notin DOMAIN ManifestRank \/ ManifestRank[n.level] < ManifestRank[c.required]
         THEN "manifest_identity_level_too_low"
    ELSE "none"

(* Mutation: the filter looks at the first node only.                          *)
PolicyFilterFirst ==
    LET reason(n) == RejectionReason(SdkNode[n], sdCfg) IN
        /\ sdPc = "filter"
        /\ sdEligible' = sdRoutes
        /\ CASE sdRoutes = <<>> -> SdkEnds("no_nodes")
             [] sdRoutes # <<>> /\ reason(sdRoutes[1]) # "none" -> SdkEnds("policy_refused")
             [] OTHER -> sdPc' = "select" /\ UNCHANGED sdOutcome
        /\ UNCHANGED <<sdCfg, sdRoutes, sdTicketed, sdCands, sdIndex, sdAttempt, sdSends>>

(* filter_nodes_for_routing_policy and the refusals that follow it.            *)
PolicyFilter ==
    LET reason(n) == RejectionReason(SdkNode[n], sdCfg)
        eligible == Kept(sdRoutes, {n \in Range(sdRoutes) : reason(n) = "none"})
    IN  /\ sdPc = "filter"
        /\ sdEligible' = eligible
        /\ CASE sdRoutes = <<>> -> SdkEnds("no_nodes")
             [] sdRoutes # <<>> /\ eligible = <<>> ->
                    SdkEnds(IF \A n \in Range(sdRoutes) : reason(n) = "missing_encryption_key"
                            THEN "encryption_required" ELSE "policy_refused")
             [] eligible # <<>> -> sdPc' = "select" /\ UNCHANGED sdOutcome
        /\ UNCHANGED <<sdCfg, sdRoutes, sdTicketed, sdCands, sdIndex, sdAttempt, sdSends>>

(* _select_candidates: every strategy puts some node first, followed by the    *)
(* others of the first TopN, TopN in all; a ranker may put another first.      *)
FirstTopN(s) == SubSeq(s, 1, IF Len(s) < TopN THEN Len(s) ELSE TopN)

SelectCandidates ==
    /\ sdPc = "select"
    /\ \E first \in Range(sdEligible) :
         LET all == <<first>> \o Kept(FirstTopN(sdEligible), Range(sdEligible) \ {first})
         IN  /\ sdCands' = FirstTopN(all)
             /\ sdPc' = "candidate"
    /\ UNCHANGED <<sdCfg, sdRoutes, sdTicketed, sdEligible, sdIndex, sdAttempt, sdSends, sdOutcome>>

(* The ranker raises, or names a candidate outside the eligible ones.          *)
RankerRefused ==
    /\ sdPc = "select" /\ sdCfg.ranker
    /\ SdkEnds("ranker_refused")
    /\ UNCHANGED <<sdCfg, sdRoutes, sdTicketed, sdEligible, sdCands, sdIndex, sdAttempt, sdSends>>

----------------------------------------------------------------------------
(* The loop over candidates and attempts                                       *)

Node == sdCands[sdIndex]

(* The candidates are used up: the last error is raised. With max_retries 0    *)
(* nothing was tried, and raise None is a TypeError.                           *)
CandidatesUsedUp ==
    /\ sdPc = "candidate" /\ sdIndex > Len(sdCands)
    /\ SdkEnds(IF sdSends = <<>> THEN "type_error" ELSE sdSends[Len(sdSends)].answer)
    /\ UNCHANGED <<sdCfg, sdRoutes, sdTicketed, sdEligible, sdCands, sdIndex, sdAttempt, sdSends>>

(* _acquire_consumer_token: from the cache or the directory, or none.          *)
CandidateBegins ==
    /\ sdPc = "candidate" /\ sdIndex <= Len(sdCands)
    /\ \E token \in (IF sdCfg.auth = "disabled" THEN {FALSE} ELSE BOOLEAN) :
         IF sdCfg.auth = "required" /\ ~token
         THEN SdkEnds("auth_required") /\ UNCHANGED <<sdIndex, sdAttempt>>
         ELSE /\ UNCHANGED sdOutcome
              /\ IF sdCfg.retries = 0
                 THEN sdIndex' = sdIndex + 1 /\ UNCHANGED <<sdPc, sdAttempt>>
                 ELSE sdPc' = "send" /\ sdAttempt' = 0 /\ UNCHANGED sdIndex
    /\ UNCHANGED <<sdCfg, sdRoutes, sdTicketed, sdEligible, sdCands, sdSends>>

(* post_json raises: time-out (E003), no connection (E004), 429, 503 or a      *)
(* retryable code, any other status or body error, a body that breaks off      *)
(* while it is read (not an IicpError).                                        *)
Failures == {"timeout", "unreachable", "busy", "error", "body_cut"}

Sent(answer) == sdSends' = Append(sdSends, [node |-> Node, answer |-> answer,
                                            plain |-> SdkNode[Node].key = "none"])

(* A node that advertises response encryption must encrypt its answer.         *)
NodeAnswers ==
    /\ sdPc = "send"
    /\ \E encrypted \in BOOLEAN :
         IF SdkNode[Node].key = "response" /\ ~encrypted
         THEN Sent("plain_answer") /\ SdkEnds("response_encryption_required")
         ELSE Sent("ok") /\ SdkEnds("success")
    /\ UNCHANGED <<sdCfg, sdRoutes, sdTicketed, sdEligible, sdCands, sdIndex, sdAttempt>>

(* Mutation: a time-out is retried on the same node like a busy answer.        *)
SendRetriesAll(answer) ==
    /\ sdPc = "send"
    /\ Sent(answer)
    /\ CASE answer \in {"error", "body_cut"} ->
              SdkEnds(answer) /\ UNCHANGED <<sdIndex, sdAttempt>>
         [] answer \in {"busy", "timeout"} /\ sdAttempt < sdCfg.retries - 1 ->
              sdAttempt' = sdAttempt + 1 /\ UNCHANGED <<sdPc, sdIndex, sdOutcome>>
         [] OTHER -> sdPc' = "candidate" /\ sdIndex' = sdIndex + 1 /\ UNCHANGED <<sdAttempt, sdOutcome>>
    /\ UNCHANGED <<sdCfg, sdRoutes, sdTicketed, sdEligible, sdCands>>

SendFails(answer) ==
    /\ sdPc = "send"
    /\ Sent(answer)
    /\ CASE answer \in {"error", "body_cut"} ->
              SdkEnds(answer) /\ UNCHANGED <<sdIndex, sdAttempt>>
         [] answer = "busy" /\ sdAttempt < sdCfg.retries - 1 ->
              sdAttempt' = sdAttempt + 1 /\ UNCHANGED <<sdPc, sdIndex, sdOutcome>>
         [] OTHER -> sdPc' = "candidate" /\ sdIndex' = sdIndex + 1 /\ UNCHANGED <<sdAttempt, sdOutcome>>
    /\ UNCHANGED <<sdCfg, sdRoutes, sdTicketed, sdEligible, sdCands>>

SdNext ==
    \/ \E n \in SdkNodes : TicketGranted(n)
    \/ TicketRefused \/ NoMoreRoutes \/ TicketUnsupported \/ DiscoverAnswers
    \/ PolicyFilter \/ SelectCandidates \/ RankerRefused
    \/ CandidatesUsedUp \/ CandidateBegins \/ NodeAnswers
    \/ \E a \in Failures : SendFails(a)

SdSpec == SdInit /\ [][SdNext]_sdVars

----------------------------------------------------------------------------
(* Properties                                                                  *)

(* A node that may have the task already, because it timed out, answered or    *)
(* broke off, is not sent it again in this call: only a node that said it was  *)
(* busy is asked twice. Another node may still be sent the same task_id.       *)
NoResendToSilentNode ==
    \A i, j \in DOMAIN sdSends :
        i < j /\ sdSends[i].node = sdSends[j].node => sdSends[i].answer = "busy"

(* Whatever discovery, selection and fallback did, the prompt went only to     *)
(* nodes the caller agreed to: in plain text only if it allowed plain text, in *)
(* the required region, with the required manifest, and, unless it asked for   *)
(* legacy discovery or a profile, with tickets alone when tickets are required.*)
SentOnlyAsAgreed ==
    \A i \in DOMAIN sdSends :
        LET n == SdkNode[sdSends[i].node] IN
        /\ n.safe
        /\ sdSends[i].plain => sdCfg.plaintext \/ sdCfg.policy = "debug_override"
        /\ sdCfg.policy # "sensitive"
        /\ sdCfg.policy = "eu_restricted" => n.region = "eu"
        /\ sdCfg.policy = "strict_policy" => n.manifest = "signed" /\ ~n.keeps
        /\ sdCfg.required # "none" =>
               /\ n.manifest # "none" /\ n.level \in DOMAIN ManifestRank
               /\ ManifestRank[n.level] >= ManifestRank[sdCfg.required]
        /\ (sdCfg.mode = "ticketed" \/ sdCfg.restricted) /\ ~sdCfg.profile =>
               sdSends[i].node \in sdTicketed

=============================================================================
