----------------------------- MODULE NodeStartup -----------------------------
(***************************************************************************)
(* `iicp-node serve` (cli.py _serve): from the command line to a serving,  *)
(* registered node and back down.  The process chooses the route it will   *)
(* advertise: detection, Quick Tunnel, relay, or none; then takes the      *)
(* instance lock, registers, serves, and gives back what the way it ends   *)
(* lets it.                                                                *)
(*                                                                         *)
(* A tunnel, an elected relay and a registration succeed or fail as the    *)
(* environment likes.  What the tunnel does later is module TunnelWatch,   *)
(* what registration does later is module DirectorySession, and the lock   *)
(* among several processes is module NodeSupervision.                      *)
(***************************************************************************)
EXTENDS NatDetection

CONSTANTS
    NsConfigs,   \* command line, environment and saved node, one record each
    NsNets       \* networks (see NatDetection)

\* A command line may name a relay to use; it never says one was elected.
ASSUME RelayArgument ==
    \A c \in NsConfigs : "relay" \in DOMAIN c /\ c.relay \in {"none", "configured"}

VARIABLES
    nsConfig, nsNet,
    nsPc,        \* how far _serve is
    nsRun,       \* its local variables and the fields of the node it sets
    nsChildren,  \* cloudflared processes this process started that still run
    nsHoles,     \* IPv6 pinholes open on the router
    nsPidfile,   \* the pidfile names this process
    nsDirectory  \* what the directory was told, or Unregistered

nsVars == <<nsConfig, nsNet, nsPc, nsRun, nsChildren, nsHoles, nsPidfile, nsDirectory>>

Unregistered == [endpoint |-> NoEndpoint, relay |-> "none", exposure |-> "none"]
NoProfile == Reached(0, "none", NoEndpoint, NoIpv6)

NsInit ==
    /\ nsConfig \in NsConfigs /\ nsNet \in NsNets
    /\ nsPc = "start" /\ nsChildren = 0 /\ nsHoles = {} /\ nsPidfile = FALSE
    /\ nsDirectory = Unregistered
    /\ nsRun = [endpoint |-> NoEndpoint,  \* the local public_endpoint
                cfg |-> NoEndpoint,       \* NodeConfig.endpoint, what is registered
                exposure |-> "none", profile |-> NoProfile, detected |-> FALSE,
                steps |-> <<>>, rung |-> "none", tried |-> FALSE,
                tunnel |-> 0,             \* QuickTunnel handles made; _tunnel is the last
                relay |-> "none", mesh |-> FALSE, skip |-> FALSE,
                uid |-> "none", left |-> 0, token |-> "none", revoked |-> TRUE]

-----------------------------------------------------------------------------
(* Configuration                                                            *)

\* Explicit flags win over the saved node; detection is switched on again by
\* a saved opt-in only when nobody said otherwise.
MergeSaved(c) ==
    [c EXCEPT !.endpoint = IF c.endpoint /= NoEndpoint THEN c.endpoint ELSE c.savedEndpoint,
              !.auto = c.auto \/ (c.savedAuto /\ ~c.autoExplicit)]

\* The errors that end _serve before it has touched anything: an unknown node,
\* unsupported receipts, no model or an ambiguous one, a manifest without its
\* operator key.
ConfigRefused(c) == ~c.complete

\* evaluate_managed_operator: a managed node needs an encrypted operator key and
\* states that it relies on updates, port mapping and tunnels if it uses them.
ManagedRefused(c) == c.managed /\ ~c.approved

\* plan_reachability: the ladder for a node detection could not place.
PlanReachability(tier, relay, tunnelEnabled) ==
    IF tier < 3 \/ relay /= "none" THEN <<>>
    ELSE (IF tunnelEnabled THEN <<"tunnel">> ELSE <<>>) \o <<"relay", "gossip">>

EndpointIsLocalOrPrivate(ep) == ep.kind \in {"localhost", "private"}

\* direct_tunnel_fallback_reason: the direct endpoint is not good enough.
DirectNeedsFallback(ep, detected, p) ==
    \/ EndpointIsLocalOrPrivate(ep)
    \/ detected /\ (p.tier >= 3 \/ p.method = "unreachable")
    \/ ep.kind = "v6" /\ (detected => p.ipv6.pinhole = "none")

RelayWorkerFallbackAllowed(c) == ~c.relayCapable

\* _tunnel_dead_behavior, with the policy of the environment.
TunnelDeadBehavior(c) ==
    IF c.deadPolicy = "auto" THEN (IF c.supervised THEN "exit" ELSE "retry")
    ELSE c.deadPolicy

-----------------------------------------------------------------------------
ReadConfig ==
    LET c == MergeSaved(nsConfig)
        ep == IF c.endpoint /= NoEndpoint THEN c.endpoint ELSE Endpoint("localhost")
    IN  /\ nsPc = "start"
        /\ nsConfig' = c
        /\ IF ConfigRefused(c) \/ ManagedRefused(c)
           THEN nsPc' = "refused" /\ UNCHANGED nsRun
           ELSE /\ nsPc' = "detect"
                /\ nsRun' = [nsRun EXCEPT !.endpoint = ep, !.cfg = ep,
                                          !.relay = c.relay, !.skip = c.skip]
        /\ UNCHANGED <<nsNet, nsChildren, nsHoles, nsPidfile, nsDirectory>>

\* apply_nat_profile: a reachable profile's endpoint is the node's, and the
\* pinhole it opened is the node's to close.
ApplyNatProfile(run, p) ==
    [run EXCEPT !.cfg = IF IsReachable(p) THEN p.endpoint ELSE @,
                !.exposure = ExposureMode(p, nsNet, nsConfig.probing),
                !.uid = IF p.ipv6.pinhole /= "none" THEN p.ipv6.pinhole ELSE @]

Holes(p) == IF p.ipv6.pinhole = "none" THEN {} ELSE {p.ipv6.pinhole}

\* --auto-detect-nat: the whole of detect_nat, then the escalation plan.
Detect ==
    LET p == DetectNat(nsNet, nsConfig.endpoint, nsConfig.probing)
    IN  /\ nsPc = "detect" /\ nsConfig.auto
        /\ nsRun' = [ApplyNatProfile(nsRun, p)
                     EXCEPT !.profile = p, !.detected = TRUE,
                            !.steps = PlanReachability(p.tier, nsRun.relay,
                                                       nsConfig.tunnel /= "off")]
        /\ nsHoles' = nsHoles \cup Holes(p)
        /\ nsPc' = "escalate"
        /\ UNCHANGED <<nsConfig, nsNet, nsChildren, nsPidfile, nsDirectory>>

\* detect_nat raised: serve goes on without it.
DetectFails ==
    /\ nsPc = "detect" /\ nsConfig.auto
    /\ nsPc' = "forced"
    /\ UNCHANGED <<nsConfig, nsNet, nsRun, nsChildren, nsHoles, nsPidfile, nsDirectory>>

\* Without detection an IPv6 endpoint still gets its pinhole.
PinholeOnly ==
    LET v6 == nsConfig.endpoint.kind = "v6"
        p == MaybeOpenPinhole(nsNet, Reached(0, "direct", nsConfig.endpoint, NoIpv6))
    IN  /\ nsPc = "detect" /\ ~nsConfig.auto
        /\ nsRun' = IF v6 THEN ApplyNatProfile(nsRun, p) ELSE nsRun
        /\ nsHoles' = nsHoles \cup Holes(p)
        /\ nsPc' = "forced"
        /\ UNCHANGED <<nsConfig, nsNet, nsChildren, nsPidfile, nsDirectory>>

\* The interpreter ends normally: the atexit hook of every handle closes its child.
AtExit == nsChildren' = nsChildren - nsRun.tunnel

NeedsFallback ==
    /\ nsConfig.tunnel /= "off" /\ nsRun.tunnel = 0
    /\ nsRun.relay = "none" /\ ~nsRun.skip
    /\ DirectNeedsFallback(nsRun.endpoint, nsRun.detected, nsRun.profile)

\* Mutation: --tunnel does not look whether escalation opened one already.
TunnelRungTwice ==
    \/ nsPc = "escalate" /\ nsRun.steps /= <<>> /\ Head(nsRun.steps) = "tunnel"
    \/ nsPc = "forced" /\ nsConfig.tunnel = "on"
    \/ nsPc = "fallback" /\ NeedsFallback /\ ~nsRun.tried

\* The three places that open a tunnel: the first step of the escalation plan;
\* --tunnel, whatever detection said, when none is open; and a direct endpoint
\* that is not good enough, when none was tried.
TunnelRung ==
    \/ nsPc = "escalate" /\ nsRun.steps /= <<>> /\ Head(nsRun.steps) = "tunnel"
    \/ nsPc = "forced" /\ nsConfig.tunnel = "on" /\ nsRun.tunnel = 0
    \/ nsPc = "fallback" /\ NeedsFallback /\ ~nsRun.tried

\* Where _serve goes on after the rung it opened a tunnel at gave up.
RungFails(rung) ==
    /\ nsPc' = IF rung = "forced" THEN "fallback" ELSE rung
    /\ nsRun' = [nsRun EXCEPT !.tried = TRUE, !.rung = "none",
                              !.steps = IF rung = "escalate" THEN Tail(@) ELSE @]

\* _open_tunnel_rung without cloudflared, or open_quick_tunnel paused by its gate.
TunnelUnavailable ==
    /\ TunnelRung
    /\ RungFails(nsPc)
    /\ UNCHANGED <<nsConfig, nsNet, nsChildren, nsHoles, nsPidfile, nsDirectory>>

\* open_quick_tunnel: the child runs, and the call blocks until it prints its URL;
\* no handle, no atexit hook and no signal handler knows the child yet.
TunnelSpawned ==
    /\ TunnelRung
    /\ nsChildren' = nsChildren + 1
    /\ nsRun' = [nsRun EXCEPT !.rung = nsPc]
    /\ nsPc' = "opening"
    /\ UNCHANGED <<nsConfig, nsNet, nsHoles, nsPidfile, nsDirectory>>

\* No URL in time: the child is terminated and the rung gave up.
TunnelFails ==
    /\ nsPc = "opening"
    /\ nsChildren' = nsChildren - 1
    /\ RungFails(nsRun.rung)
    /\ UNCHANGED <<nsConfig, nsNet, nsHoles, nsPidfile, nsDirectory>>

\* The rest of _open_tunnel_rung: the URL is the node's endpoint; atexit closes
\* this handle too, and SIGTERM now closes this handle (and no earlier one).
TunnelOpened ==
    LET rung == nsRun.rung
    IN  /\ nsPc = "opening"
        /\ nsRun' = [nsRun EXCEPT !.tunnel = @ + 1, !.tried = TRUE, !.rung = "none", !.steps = <<>>,
                                  !.endpoint = Endpoint("tunnel"), !.cfg = Endpoint("tunnel"),
                                  !.exposure = "tunnel_required"]
        /\ nsPc' = CASE rung = "forced" -> "fallback" [] rung = "fallback" -> "guard" [] OTHER -> "escalate"
        /\ UNCHANGED <<nsConfig, nsNet, nsChildren, nsHoles, nsPidfile, nsDirectory>>

\* _auto_elect_relay, for a node that is not a relay itself.
EscalateRelay ==
    /\ nsPc = "escalate" /\ nsRun.steps /= <<>> /\ Head(nsRun.steps) = "relay"
    /\ IF RelayWorkerFallbackAllowed(nsConfig)
       THEN \/ nsRun' = [nsRun EXCEPT !.relay = "elected", !.steps = <<>>]
            \/ nsRun' = [nsRun EXCEPT !.steps = Tail(@)]
       ELSE nsRun' = [nsRun EXCEPT !.steps = <<>>]
    /\ UNCHANGED <<nsConfig, nsNet, nsPc, nsChildren, nsHoles, nsPidfile, nsDirectory>>

EscalateGossip ==
    /\ nsPc = "escalate" /\ nsRun.steps /= <<>> /\ Head(nsRun.steps) = "gossip"
    /\ nsRun' = [nsRun EXCEPT !.mesh = TRUE, !.steps = Tail(@)]
    /\ UNCHANGED <<nsConfig, nsNet, nsPc, nsChildren, nsHoles, nsPidfile, nsDirectory>>

EscalationDone ==
    /\ nsPc = "escalate" /\ nsRun.steps = <<>>
    /\ nsPc' = "forced"
    /\ UNCHANGED <<nsConfig, nsNet, nsRun, nsChildren, nsHoles, nsPidfile, nsDirectory>>

NotForced ==
    /\ nsPc = "forced" /\ ~TunnelRung
    /\ nsPc' = "fallback"
    /\ UNCHANGED <<nsConfig, nsNet, nsRun, nsChildren, nsHoles, nsPidfile, nsDirectory>>

\* The endpoint is not good enough and no tunnel came up: a relay.
FallbackRelay ==
    /\ nsPc = "fallback" /\ NeedsFallback /\ nsRun.tried
    /\ RelayWorkerFallbackAllowed(nsConfig)
    /\ nsRun' \in {nsRun, [nsRun EXCEPT !.relay = "elected"]}
    /\ nsPc' = "guard"
    /\ UNCHANGED <<nsConfig, nsNet, nsChildren, nsHoles, nsPidfile, nsDirectory>>

\* A relay does not lean on another relay: under a supervisor it exits and is
\* started again (SystemExit, so atexit hooks run).
FallbackOfRelay ==
    /\ nsPc = "fallback" /\ NeedsFallback /\ nsRun.tried
    /\ ~RelayWorkerFallbackAllowed(nsConfig)
    /\ \/ /\ TunnelDeadBehavior(nsConfig) = "exit"
          /\ nsPc' = "exit_75" /\ AtExit
       \/ /\ TunnelDeadBehavior(nsConfig) # "exit"
          /\ nsPc' = "guard" /\ UNCHANGED nsChildren
    /\ UNCHANGED <<nsConfig, nsNet, nsRun, nsHoles, nsPidfile, nsDirectory>>

NoFallback ==
    /\ nsPc = "fallback" /\ ~NeedsFallback
    /\ nsPc' = "guard"
    /\ UNCHANGED <<nsConfig, nsNet, nsRun, nsChildren, nsHoles, nsPidfile, nsDirectory>>

\* Mutation: a node that ran detection is taken to be routable.
SkipUnroutableUndetected(run) ==
    EndpointIsLocalOrPrivate(run.endpoint) /\ run.relay = "none" /\ ~run.detected

\* NAT-4: a local endpoint without a relay is not registered.
SkipUnroutable(run) ==
    EndpointIsLocalOrPrivate(run.endpoint) /\ run.relay = "none"

Nat4Guard ==
    /\ nsPc = "guard"
    /\ nsRun' = [nsRun EXCEPT !.skip = @ \/ SkipUnroutable(nsRun)]
    /\ nsPc' = "lock"
    /\ UNCHANGED <<nsConfig, nsNet, nsChildren, nsHoles, nsPidfile, nsDirectory>>

-----------------------------------------------------------------------------
(* Lock, registration, serving, shutdown                                    *)

\* InstanceLock.acquire, or another live process has it: exit code 2.  A pinhole
\* stays until its lease ends.
TakeLock ==
    /\ nsPc = "lock"
    /\ \/ /\ nsPidfile' = TRUE
          /\ nsRun' = [nsRun EXCEPT !.left = IF nsRun.tunnel > 0 THEN 1 ELSE 3]
          /\ nsPc' = IF nsRun.skip THEN "serving" ELSE "register"
          /\ UNCHANGED nsChildren
       \/ /\ nsPc' = "locked_out" /\ AtExit
          /\ UNCHANGED <<nsRun, nsPidfile>>
    /\ UNCHANGED <<nsConfig, nsNet, nsHoles, nsDirectory>>

RegisterOk ==
    /\ nsPc = "register"
    /\ nsDirectory' = [endpoint |-> nsRun.cfg, relay |-> nsRun.relay,
                        exposure |-> nsRun.exposure]
    /\ nsRun' = [nsRun EXCEPT !.token = "issued"]
    /\ nsPc' = "serving"
    /\ UNCHANGED <<nsConfig, nsNet, nsChildren, nsHoles, nsPidfile>>

\* The last failure leaves an empty token: the heartbeat loop will heal it.
RegisterFails ==
    /\ nsPc = "register"
    /\ nsRun' = [nsRun EXCEPT !.left = @ - 1,
                              !.token = IF nsRun.left = 1 THEN "empty" ELSE @]
    /\ nsPc' = IF nsRun.left = 1 THEN "serving" ELSE "register"
    /\ UNCHANGED <<nsConfig, nsNet, nsChildren, nsHoles, nsPidfile, nsDirectory>>

\* The end of serve: the pinhole is revoked if the router still answers, the
\* node deregisters with the token it was given, _serve's own finally closes
\* the tunnel and removes the pidfile, and the interpreter ends.
Stop ==
    /\ nsPc = "serving"
    /\ \E answers \in BOOLEAN :
          /\ nsHoles' = IF answers THEN nsHoles \ {nsRun.uid} ELSE nsHoles
          /\ nsRun' = [nsRun EXCEPT !.revoked = answers, !.uid = "none"]
    /\ nsDirectory' = IF nsRun.token = "issued" THEN Unregistered ELSE nsDirectory
    /\ nsPidfile' = FALSE
    /\ AtExit
    /\ nsPc' = "stopped"
    /\ UNCHANGED <<nsConfig, nsNet>>

\* Ctrl-C before node.serve: no finally of _serve covers this part, the pidfile
\* stays and only the atexit hooks run.
Interrupted ==
    /\ nsPc \in {"detect", "escalate", "forced", "fallback", "guard", "lock", "register"}
    /\ AtExit
    /\ nsPc' = "interrupted"
    /\ UNCHANGED <<nsConfig, nsNet, nsRun, nsHoles, nsPidfile, nsDirectory>>

\* SIGTERM runs neither finally nor atexit: the handler of the last tunnel that
\* opened closes that one, everything else is left as it is.
Terminated ==
    /\ nsPc \in {"detect", "escalate", "forced", "fallback", "guard", "lock",
                 "register", "serving"}
    /\ nsChildren' = IF nsRun.tunnel > 0 THEN nsChildren - 1 ELSE nsChildren
    /\ nsPc' = "terminated"
    /\ UNCHANGED <<nsConfig, nsNet, nsRun, nsHoles, nsPidfile, nsDirectory>>

\* The same while open_quick_tunnel waits: the child is nobody's yet and stays.
KilledOpening ==
    /\ nsPc = "opening"
    /\ nsPc' = "killed_opening"
    /\ UNCHANGED <<nsConfig, nsNet, nsRun, nsChildren, nsHoles, nsPidfile, nsDirectory>>

\* os._exit of the hand-over watch or of the recovery check, both only under a
\* supervisor: no finally, no atexit hook and no handler runs.
ExitAbruptly ==
    /\ nsPc = "serving" /\ nsConfig.supervised
    /\ nsPc' = "exit_abrupt"
    /\ UNCHANGED <<nsConfig, nsNet, nsRun, nsChildren, nsHoles, nsPidfile, nsDirectory>>

\* _on_dead of the tunnel's watchdog: its child is gone and none came up again;
\* the same exit code, also by os._exit, from any point after the tunnel opened.
TunnelDeadExits ==
    /\ nsPc \in {"escalate", "forced", "fallback", "guard", "lock", "register", "serving"}
    /\ nsRun.tunnel > 0 /\ TunnelDeadBehavior(nsConfig) = "exit"
    /\ nsChildren' = nsChildren - 1
    /\ nsPc' = "exit_abrupt"
    /\ UNCHANGED <<nsConfig, nsNet, nsRun, nsHoles, nsPidfile, nsDirectory>>

\* reexec_cli: an installed update replaces the image of the process.
Replaced ==
    /\ nsPc = "serving" /\ nsConfig.autoUpdate
    /\ nsPc' = "replaced"
    /\ UNCHANGED <<nsConfig, nsNet, nsRun, nsChildren, nsHoles, nsPidfile, nsDirectory>>

NsNext ==
    \/ ReadConfig \/ Detect \/ DetectFails \/ PinholeOnly
    \/ TunnelUnavailable \/ TunnelSpawned \/ TunnelFails \/ TunnelOpened
    \/ EscalateRelay \/ EscalateGossip \/ EscalationDone
    \/ NotForced \/ FallbackRelay \/ FallbackOfRelay \/ NoFallback
    \/ Nat4Guard \/ TakeLock \/ RegisterOk \/ RegisterFails
    \/ Stop \/ Interrupted \/ Terminated \/ KilledOpening
    \/ ExitAbruptly \/ TunnelDeadExits \/ Replaced

NsSpec == NsInit /\ [][NsNext]_nsVars

-----------------------------------------------------------------------------
(* Properties                                                               *)

\* The placeholder http://localhost address the process starts with never
\* reaches the directory unless a relay carries the node's traffic, and a node
\* that offers relaying never registers behind a relay it was not told to use
\* (the NAT-4 guard looks at _serve's local variable, register at NodeConfig,
\* and detection, two tunnel rungs and two relay rungs write them in between).
PlaceholderNeverRegistered ==
    nsDirectory /= Unregistered =>
        /\ nsDirectory.endpoint = Endpoint("localhost") => nsDirectory.relay /= "none"
        /\ nsDirectory.relay = "elected" => ~nsConfig.relayCapable

\* The endings that can clean up do: after a return, a SystemExit, a Ctrl-C or a
\* SIGTERM between two rungs no cloudflared child is left running, although the
\* SIGTERM handler knows only the last tunnel (no path through the three rungs
\* opens two); and after an orderly stop no pidfile is left, and no pinhole in
\* the router's firewall, whichever rung opened it, unless the router did not
\* answer.  The endings without a hook (killed_opening, exit_abrupt, replaced)
\* leave a running tunnel and the pidfile.
CleanEndings == {"refused", "exit_75", "locked_out", "interrupted", "stopped", "terminated"}

ServeLeavesNothing ==
    /\ nsPc \in CleanEndings => nsChildren = 0
    /\ nsPc = "stopped" => ~nsPidfile /\ (nsRun.revoked => nsHoles = {})

\* README.md, NAT traversal: a home router with UPnP and no carrier NAT
\* "opens a port-forward via UPnP -> registers WAN IP".
RegistersMappedWan ==
    /\ nsPc = "serving" /\ nsRun.token /= "empty"
    /\ nsRun.detected /\ nsRun.profile.method = "upnp_mapped"
    /\ nsConfig.tunnel /= "on" /\ nsConfig.relay = "none" /\ ~nsConfig.skip
    => nsDirectory.endpoint = nsRun.profile.endpoint
=============================================================================
