---------------------------- MODULE MCCAReconcile ----------------------------
(* Small instances of CAReconcile for TLC.                                   *)
EXTENDS CAReconcile

\* Edits of one facet, of both overrides, and of an action together with an
\* override or with the rest of the spec.
MCChanges == {{"ca"}, {"ca", "tls"}, {"noca"}, {"none"}, {"tag"}, {"renew"}, {"restart", "rest", "tls"}}

\* Every initialisation and every offering once.
MCSetups == {<<"SW", "k8s">>, <<"HSM", "openshift">>, <<"HSMDaemon", "base">>}
=============================================================================
