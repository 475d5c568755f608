----------------------------- MODULE MCWebAuth -----------------------------
EXTENDS WebAuth, TLC

\* ZSS alone; the gateway with and without ZSS; the same in HA mode.
MCDeployments ==
  {[apiml |-> FALSE, zss |-> TRUE, ha |-> FALSE],
   [apiml |-> TRUE, zss |-> FALSE, ha |-> FALSE],
   [apiml |-> TRUE, zss |-> TRUE, ha |-> TRUE]}

MCLives == {-1, 1}
MCTimeouts == {1}

MCSymmetry == Permutations(Requests)
=============================================================================
