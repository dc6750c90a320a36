------------------------- MODULE MCBrokerLifecycle --------------------------
(* BrokerLifecycle with three clients, two of which fit at a time, and two *)
(* shutdown requests.                                                      *)
EXTENDS BrokerLifecycle

CONSTANTS c1, c2, c3, r1, r2

ThreeClients == {c1, c2, c3}
TwoRequests == {r1, r2}
=============================================================================
