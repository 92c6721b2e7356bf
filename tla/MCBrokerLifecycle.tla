-------------------------- MODULE MCBrokerLifecycle --------------------------
(* Model values for BrokerLifecycle: one or two names, two stdio           *)
(* configurations, one HTTP endpoint and the mixed transport lists.        *)
EXTENDS BrokerLifecycle

CONSTANTS n1, n2, a, b, h

MCOneName == {n1}
MCNames   == {n1, n2}
MCStdio   == {a, b}
MCOneStdio == {a}
MCHttp    == {h}
MCMenus   == {<<b, h>>, <<b>>}
MCOneMenu == {<<a, h>>}
=============================================================================
