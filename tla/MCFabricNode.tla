----------------------------- MODULE MCFabricNode -----------------------------
(* Small instances of FabricNode for TLC.                                     *)
EXTENDS FabricNode

\* Both kinds of node, databases and offerings, from 1.4 and from a 2.x
\* release, deployed or new.
MCSetups == {<<"couchdb", "k8s", 1, "old">>, <<"leveldb", "openshift", 2, "new">>,
             <<"orderer", "openshift", 1, "new">>}

\* First a new version with its images, or without; overrides, node OUs and
\* admin certificates; certificates of the spec; actions, alone and together;
\* actions that exclude each other.  Then a second edit to meet its handling.
MCChanges == <<{{"v2", "images"}, {"v25", "images", "over"}, {"v24"}, {"over", "ou", "admin"},
                {"msp", "warn", "restart"}, {"ecertReenroll", "tlsNewKey", "upgradeDBs"},
                {"ecertReenroll", "ecertEnroll"}},
               {{"v25", "images", "tlsEnroll", "rest"}}>>
=============================================================================
