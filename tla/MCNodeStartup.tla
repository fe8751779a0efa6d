--------------------------- MODULE MCNodeStartup ---------------------------
(* Command lines and networks that take NodeStartup down every branch.       *)
EXTENDS NodeStartup

McNsBase ==
  [complete |-> TRUE, managed |-> FALSE, approved |-> FALSE, autoUpdate |-> TRUE,
   endpoint |-> NoEndpoint, savedEndpoint |-> NoEndpoint, auto |-> TRUE, savedAuto |-> FALSE,
   autoExplicit |-> FALSE, probing |-> TRUE, tunnel |-> "auto", relay |-> "none",
   relayCapable |-> FALSE, skip |-> FALSE, supervised |-> TRUE, deadPolicy |-> "auto"]

\* An incomplete command line, a managed node that does not state what it uses.
McNsRefused ==
  { [McNsBase EXCEPT !.complete = FALSE], [McNsBase EXCEPT !.managed = TRUE] }

\* A managed node that passes, no registration, a saved automatic endpoint, no probing.
McNsSpecial ==
  { [McNsBase EXCEPT !.managed = TRUE, !.approved = TRUE],
    [McNsBase EXCEPT !.skip = TRUE],
    [McNsBase EXCEPT !.savedEndpoint = Endpoint("public"), !.auto = FALSE, !.savedAuto = TRUE],
    [McNsBase EXCEPT !.probing = FALSE] }

\* Every way a node may be told to be reached.
McNsRoutes ==
  { [McNsBase EXCEPT !.endpoint = e, !.auto = a, !.tunnel = t,
                     !.relay = r[1], !.relayCapable = r[2], !.supervised = r[3]] :
      e \in {NoEndpoint, Endpoint("private"), Endpoint("name"), Endpoint("public"), V6Endpoint("eui")},
      a \in BOOLEAN, t \in {"on", "off", "auto"},
      r \in { <<"none", FALSE, TRUE>>, <<"configured", FALSE, TRUE>>,
              <<"none", TRUE, TRUE>>, <<"none", TRUE, FALSE>> } }

McNsConfigs == McNsRefused \cup McNsSpecial \cup McNsRoutes

McTemporary == [addr |-> "temp", flag |-> "temporary", eui64 |-> FALSE]
McStable == [addr |-> "eui", flag |-> "secured", eui64 |-> TRUE]

McNet ==
  [ifaces |-> <<>>, hostname |-> <<>>, darwin |-> FALSE, listen6 |-> TRUE, out6 |-> TRUE,
   v4 |-> FALSE, docker |-> FALSE, k8s |-> FALSE, local |-> "192.168/16", override |-> FALSE,
   igd |-> "absent", wan |-> "none", probe |-> "none", ptr |-> TRUE, firewall6 |-> "blocks",
   accepts |-> {}, tunnel |-> "none"]
McV6Net == [McNet EXCEPT !.ifaces = <<McStable, McTemporary>>, !.listen6 = FALSE]

McNsNets ==
  { McNet,
    [McNet EXCEPT !.v4 = TRUE],
    [McNet EXCEPT !.igd = "maps", !.wan = "public"],
    [McNet EXCEPT !.igd = "remaps", !.wan = "none", !.probe = "public"],
    [McNet EXCEPT !.igd = "maps", !.wan = "private"],
    [McNet EXCEPT !.igd = "silent", !.probe = "public"],
    [McNet EXCEPT !.igd = "maps", !.wan = "public", !.docker = TRUE, !.local = "172.16/12"],
    [McNet EXCEPT !.tunnel = "env"],
    [McV6Net EXCEPT !.igd = "maps", !.wan = "carrier", !.firewall6 = "allows",
                    !.accepts = {"temp", "eui"}],
    [McV6Net EXCEPT !.darwin = TRUE, !.firewall6 = "allows", !.accepts = {"temp"}],
    [McV6Net EXCEPT !.listen6 = TRUE],
    [McV6Net EXCEPT !.out6 = FALSE, !.tunnel = "daemon"] }
=============================================================================
