---------------------------- MODULE MCCertRenewal ----------------------------
\* Instances of CertRenewal for TLC.
EXTENDS CertRenewal

MCSetups == {<<"peer", "secret", "auto">>, <<"peer", "hsm", "auto">>, <<"orderer", "daemon", "manual">>,
             <<"orderer", "proxy", "auto">>}

\* Both timers fire and one event happens, or no timer fires and two happen.
MCStarts == {[ecert |-> 1, tls |-> 1, events |-> 1], [ecert |-> 3, tls |-> 3, events |-> 2]}

NoEvents == {[ecert |-> 2, tls |-> 2, events |-> 0]}

OnePeer == {<<"peer", "secret", "auto">>}
=============================================================================
