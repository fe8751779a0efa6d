---------------------------- MODULE NatDetection ----------------------------
(***************************************************************************)
(* Reachability detection (nat_detection.py): the ladder detect_nat climbs *)
(* to find an endpoint the node may advertise.  A network is a record of   *)
(* what the host and its router answer; every operator says what the code  *)
(* makes of those answers.  Addresses are symbolic: an endpoint has a kind *)
(* and, for IPv6, the address between the brackets.                        *)
(*                                                                         *)
(* A network has: ifaces (the IPv6 addresses of the interfaces, in order,  *)
(* each with its flag and whether it has the EUI-64 marker), hostname      *)
(* (addresses the host name resolves to), darwin, listen6, out6, v4 (a     *)
(* public IPv4 on an interface), docker, k8s, local (range of the default  *)
(* route's address), override, igd, wan, probe, ptr, firewall6, accepts    *)
(* (addresses the router opens a pinhole for) and tunnel.                  *)
(*                                                                         *)
(* serve passes no transport_port, so the second mapping of an             *)
(* experimental native port is left out.                                   *)
(***************************************************************************)
EXTENDS Naturals, Sequences, SequencesExt

NoEndpoint == [kind |-> "none", at |-> "none"]
Endpoint(kind) == [kind |-> kind, at |-> "none"]
V6Endpoint(addr) == [kind |-> "v6", at |-> addr]

\* Ipv6Profile: the addresses are in the order they will be tried.
NoIpv6 == [addresses |-> <<>>, listen |-> FALSE, out |-> FALSE, pinhole |-> "none"]

\* NatProfile as detect_nat starts with it: tier 4, nothing to advertise.
Unreachable(v6) ==
    [tier |-> 4, method |-> "unreachable", endpoint |-> NoEndpoint, ipv6 |-> v6]
Reached(tier, method, endpoint, v6) ==
    [tier |-> tier, method |-> method, endpoint |-> endpoint, ipv6 |-> v6]
IsReachable(p) == p.tier <= 3 /\ p.endpoint /= NoEndpoint

-----------------------------------------------------------------------------
\* IPv6 addresses of the host, ranked by how likely a router opens a pinhole
\* for them: on macOS the current temporary ones first, then the secured ones.
LocalGlobalV6(net) ==
    LET flagged(f) == SelectSeq(net.ifaces, LAMBDA a : a.flag = f)
        ranked == IF net.darwin
                  THEN flagged("temporary") \o flagged("secured") \o flagged("deprecated")
                  ELSE net.ifaces
    IN  [i \in DOMAIN ranked |-> ranked[i].addr]

\* The host-name scan, used when the interfaces show nothing.
ListGlobalV6(net) == net.hostname

\* RFC 4941 heuristic: an address without the EUI-64 marker counts as private.
IsPrivacyV6(net, addr) ==
    ~\E i \in DOMAIN net.ifaces : net.ifaces[i].addr = addr /\ net.ifaces[i].eui64

DetectIpv6(net) ==
    LET own == LocalGlobalV6(net)
        addrs == IF own /= <<>> THEN own ELSE ListGlobalV6(net)
    IN  [addresses |-> addrs, listen |-> net.listen6,
         out |-> addrs /= <<>> /\ net.out6, pinhole |-> "none"]

\* AddPinhole: the router must expose the service, allow inbound pinholes and
\* accept this address.
TryPinhole(net, addr) == net.firewall6 = "allows" /\ addr \in net.accepts

\* An IPv6 endpoint gets a pinhole, on another address of the host when the
\* router refuses the advertised one; the endpoint then moves with it.
MaybeOpenPinhole(net, p) ==
    LET others == SelectSeq(LocalGlobalV6(net), LAMBDA a : a /= p.endpoint.at)
        candidates == <<p.endpoint.at>> \o others
        opened == SelectSeq(candidates, LAMBDA a : TryPinhole(net, a))
    IN  IF p.endpoint.kind /= "v6" THEN p
        ELSE IF opened = <<>> THEN p
        ELSE [p EXCEPT !.endpoint = V6Endpoint(Head(opened)), !.ipv6.pinhole = Head(opened)]

-----------------------------------------------------------------------------
\* Inside a container on a bridge network UPnP reaches the container's NAT.
ContainerBridge(net) ==
    /\ ~net.override
    /\ net.docker \/ net.k8s
    /\ \/ net.local = "172.16/12"
       \/ net.local = "10/8" /\ net.k8s

\* The address a probe URL answers, when it is a public IPv4.
ProbeExternalIp(net) == IF net.probe \in {"public", "carrier"} THEN net.probe ELSE "none"

\* The reverse name of a carrier's shared address gives it away.
DetectCgnat(net, ip) == ip = "carrier" /\ net.ptr

\* AddPortMapping keeps the port; on a conflict AddAnyPortMapping picks one.
MapOnePort(net) ==
    CASE net.igd = "maps"   -> "same"
      [] net.igd = "remaps" -> "assigned"
      [] OTHER              -> "none"

\* Discovery, GetExternalIPAddress and mapping; "silent" stands for a time-out,
\* a missing library and any other error.
UpnpMapping(net) ==
    [success |-> /\ ~ContainerBridge(net)
                 /\ net.igd \notin {"silent", "absent", "address_refused"}
                 /\ MapOnePort(net) /= "none",
     address |-> net.wan]

\* The WAN address of a mapped port: the router's, else the probe's.
WanIp(net, probing) ==
    IF UpnpMapping(net).address /= "none" THEN net.wan
    ELSE IF probing THEN ProbeExternalIp(net) ELSE "none"

\* Is the address an operator typed one a public client could reach?
LooksRoutable(ep) == ep.kind \in {"public", "v6"}

ExternalTunnel(net) ==
    IF net.tunnel = "none" THEN NoEndpoint ELSE Endpoint("tunnel_url")

\* No IPv4 way: advertise the first IPv6 address when IPv6 works outbound,
\* with a pinhole when the router opens one for exactly that address.
Ipv6Fallback(net, v6) ==
    IF v6.addresses = <<>> \/ ~v6.out THEN Unreachable(v6)
    ELSE LET addr == Head(v6.addresses)
             hole == IF TryPinhole(net, addr) THEN addr ELSE "none"
         IN  Reached(1, "direct", V6Endpoint(addr), [v6 EXCEPT !.pinhole = hole])

-----------------------------------------------------------------------------
(* The rungs, in the order detect_nat tries them.                           *)

OperatorRung(net, ep, v6) == MaybeOpenPinhole(net, Reached(0, "direct", ep, v6))

InterfaceV4Rung(net, v6) == Reached(0, "direct", Endpoint("interface_v4"), v6)

\* A stable address is preferred; a privacy address is better than none.
InterfaceV6Rung(net, v6) ==
    LET stable == SelectSeq(v6.addresses, LAMBDA a : ~IsPrivacyV6(net, a))
        gua == IF stable /= <<>> THEN Head(stable) ELSE Head(v6.addresses)
    IN  Reached(0, "direct", V6Endpoint(gua), v6)

\* A mapped port without an address is worth nothing; a carrier's address
\* falls back to IPv6; any other address the router reports is believed, a
\* private one behind a second router too.  The profile has no IPv6 half.
UpnpRung(net, probing, v6) ==
    LET ip == WanIp(net, probing)
        at == IF ip = "private" THEN "private" ELSE "wan"
    IN  IF ip = "none" THEN Unreachable(v6)
        ELSE IF DetectCgnat(net, ip) THEN Ipv6Fallback(net, v6)
        ELSE Reached(1, "upnp_mapped", Endpoint(at), NoIpv6)

ProbeRung(net) == Reached(1, "external_tunnel", Endpoint("wan"), NoIpv6)

LastRungs(net, v6) ==
    LET overV6 == Ipv6Fallback(net, v6)
    IN  IF IsReachable(overV6) THEN overV6
        ELSE IF ExternalTunnel(net) /= NoEndpoint
             THEN Reached(1, "external_tunnel", ExternalTunnel(net), NoIpv6)
        ELSE Unreachable(v6)

DetectNat(net, operator, probing) ==
    LET v6 == DetectIpv6(net)
    IN  IF LooksRoutable(operator) THEN OperatorRung(net, operator, v6)
        ELSE IF net.v4 THEN InterfaceV4Rung(net, v6)
        ELSE IF v6.addresses /= <<>> /\ v6.listen THEN InterfaceV6Rung(net, v6)
        ELSE IF UpnpMapping(net).success THEN UpnpRung(net, probing, v6)
        ELSE IF probing /\ ProbeExternalIp(net) /= "none" THEN ProbeRung(net)
        ELSE LastRungs(net, v6)

\* qualify._derive_exposure_mode: what the directory is told of the exposure.
ExposureMode(p, net, probing) ==
    LET cgnat == UpnpMapping(net).success /\ DetectCgnat(net, WanIp(net, probing))
        v4 == p.endpoint.kind /= "v6"
        v6 == p.ipv6.addresses /= <<>>
        hole == p.ipv6.pinhole /= "none"
    IN  IF p.tier = 3 THEN "relay_required"
        ELSE IF p.method = "external_tunnel" \/ p.tier = 2 THEN "tunnel_required"
        ELSE IF ~IsReachable(p) THEN IF cgnat THEN "ipv4_cgnat_blocked" ELSE "outbound_only"
        ELSE IF v4 /\ v6 /\ hole THEN "dual_stack_available"
        ELSE IF ~v4 /\ v6 THEN IF hole THEN "ipv6_direct_pinhole_available"
                               ELSE "ipv6_direct_firewall_required"
        ELSE IF v4 THEN "ipv4_public_direct" ELSE "outbound_only"
=============================================================================
