--------------------------- MODULE MCPluginStorage ---------------------------
EXTENDS PluginStorage

CONSTANTS k1, k2, v1, v2

\* All kinds of operations.
MCOperation ==
  [type : {"get", "delete"}, key : {k1}]
    \cup [type : {"getAll", "deleteAll"}]
    \cup {[type |-> "set", key |-> k1, value |-> v1]}
    \cup {[type |-> "setAll", dict |-> [k \in Key |-> v2]]}

MCSymmetry == Permutations(Worker)
=============================================================================
