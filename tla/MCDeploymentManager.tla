------------------------ MODULE MCDeploymentManager ------------------------
(* Small instances of DeploymentManager. *)
EXTENDS DeploymentManager

Basic == [image |-> 0, replicas |-> 0, pull |-> 0, affinity |-> 0, address |-> 0, endpoint |-> Absent,
          hsm |-> Absent, launcher |-> Absent, version |-> 2, external |-> FALSE, wrong |-> "nothing"]

Of(kind, s, certs) == [kind |-> kind, spec |-> s, certs |-> certs]

MCSetups ==
    {Of("ca", Basic, 1), Of("ca", [Basic EXCEPT !.hsm = 0], 1),
     Of("orderer", [Basic EXCEPT !.endpoint = 0, !.hsm = 0], 1),
     Of("peer", [Basic EXCEPT !.version = 1, !.external = TRUE], 1),
     Of("peer", [Basic EXCEPT !.launcher = 0, !.external = TRUE], 1),
     Of("peer", Basic, 2)}

MCEdits ==
    [ca |-> {"image", "hsm", "external", "wrong"},
     orderer |-> {"pull", "endpoint", "affinity"},
     peer |-> {"launcher", "version", "external", "address"}]
=============================================================================
