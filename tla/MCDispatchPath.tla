--------------------------- MODULE MCDispatchPath ---------------------------
(* The way of a task from its consumer to the provider's admission: the      *)
(* proxy decides on cooperative inference, the SDK submits, the native       *)
(* transport carries it, and the provider redeems its ticket.  No state is   *)
(* shared, so a behaviour is one of any of them; the others stay where they  *)
(* start.                                                                    *)
EXTENDS DispatchAdmission, NativeSession, CipDispatch, ClientSubmission, TLC

CONSTANTS t1, t2, c1, c2, r3, n1, n2, n3, n4

VARIABLE subject   \* the component that moves

\* Two tickets whose windows overlap.
McNotBefore == t1 :> 1 @@ t2 :> 0
McExpiresAt == t1 :> 2 @@ t2 :> 1

\* One client goes on after requests it gave up; the other one shakes hands and
\* makes the request that competes with it for the gate.
McRequests == (c1 :> 3) @@ (c2 :> 2)

\* A worker with a reputation, one without that costs twice, and a loaded one.
McWorker == [available |-> TRUE, load |-> 1, reputation |-> 9, models |-> {}, score |-> 1,
             multiplier |-> 1, remote |-> TRUE]
McCdInfo == ("a" :> McWorker)
            @@ ("b" :> [McWorker EXCEPT !.reputation = NoValue, !.multiplier = 2])
            @@ ("c" :> [McWorker EXCEPT !.load = 8])
McLimits == [quality |-> NoValue, multiplier |-> NoValue, credits |-> NoValue]
McBody == [surface |-> "openai", realtime |-> FALSE, sensitive |-> FALSE, badIdentity |-> FALSE,
           cip |-> [policy |-> NoValue, replicas |-> NoValue, quorum |-> NoValue],
           billing |-> NoValue]
McCdBodies ==
  { McBody,
    [McBody EXCEPT !.surface = "anthropic", !.sensitive = TRUE],
    [McBody EXCEPT !.realtime = TRUE],
    [McBody EXCEPT !.badIdentity = TRUE, !.surface = "ollama"],
    [McBody EXCEPT !.badIdentity = TRUE, !.surface = "generate"],
    [McBody EXCEPT !.cip.replicas = 2, !.billing = [McLimits EXCEPT !.credits = 0]],
    [McBody EXCEPT !.cip = [policy |-> "majority_vote", replicas |-> 2, quorum |-> 1]] }
\* Two requests send what they like; the third one, for which the budget may have no room,
\* comes last, asks for nothing special and finds the two workers that take it.
McThird ==
  /\ cdReq'[r3].pc = "discover" => cdReq'[r3].body = McBody
  /\ cdReq'[r3].pc # "none" =>
        cdReq'[r3].status # "400" /\ \A r \in CdRequests : cdReq'[r].pc # "none"
  /\ cdReq'[r3].pc = "balance" => Len(cdReq'[r3].nodes) = 2
McCdDiscoveries == {<<>>, <<"a">>, <<"c", "b", "a">>}
McCdConfig == [enabled |-> TRUE, strategy |-> "remote-first", budget |-> 2, maxPerTask |-> 10,
               trusted |-> {}, minReputation |-> 5, sendSensitive |-> FALSE]

\* A node that answers encrypted, a plain one abroad, a revoked one, an unsafe one.
McSdkNode ==
  n1 :> [safe |-> TRUE, key |-> "response", region |-> "eu", manifest |-> "signed",
         keeps |-> FALSE, level |-> "known_operator"]
  @@ n2 :> [safe |-> TRUE, key |-> "none", region |-> "us", manifest |-> "unsigned",
            keeps |-> FALSE, level |-> "self_attested"]
  @@ n3 :> [safe |-> TRUE, key |-> "plain", region |-> "eu", manifest |-> "signed",
            keeps |-> FALSE, level |-> "revoked"]
  @@ n4 :> [safe |-> FALSE, key |-> "plain", region |-> "eu", manifest |-> "none",
            keeps |-> FALSE, level |-> "none"]
McSdk == [mode |-> "auto", restricted |-> FALSE, profile |-> FALSE, retries |-> 2,
          plaintext |-> FALSE, auth |-> "optional", ranker |-> FALSE, policy |-> "standard",
          required |-> "none"]
McSdkConfigs ==
  { [McSdk EXCEPT !.mode = m, !.restricted = r, !.auth = u] :
      m \in {"auto", "ticketed"}, r \in BOOLEAN, u \in {"disabled", "required"} }
  \cup { [McSdk EXCEPT !.mode = "legacy", !.policy = p, !.plaintext = x, !.ranker = TRUE] :
           p \in {"standard", "sensitive", "eu_restricted", "strict_policy", "debug_override"},
           x \in BOOLEAN }
  \cup { [McSdk EXCEPT !.required = l, !.profile = TRUE] : l \in {"signed_valid", "known_operator"} }
  \cup { [McSdk EXCEPT !.retries = n] : n \in {0, 3} }

-----------------------------------------------------------------------------
pathVars == <<subject, vars, ntVars, cdVars, sdVars>>

PathInit ==
    /\ subject \in {"admission", "native", "cip", "sdk"}
    /\ Init /\ NtInit /\ CdInit /\ SdInit
    \* Of a component that does not move, one initial state is enough.
    /\ subject # "sdk" => sdCfg = [McSdk EXCEPT !.retries = 0]

PathNext ==
    \/ subject = "admission" /\ Next /\ UNCHANGED <<subject, ntVars, cdVars, sdVars>>
    \/ subject = "native" /\ NtNext /\ UNCHANGED <<subject, vars, cdVars, sdVars>>
    \/ subject = "cip" /\ CdNext /\ McThird /\ UNCHANGED <<subject, vars, ntVars, sdVars>>
    \/ subject = "sdk" /\ SdNext /\ UNCHANGED <<subject, vars, ntVars, cdVars>>

PathSpec == PathInit /\ [][PathNext]_pathVars
=============================================================================
