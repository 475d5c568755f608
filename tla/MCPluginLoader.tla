--------------------------- MODULE MCPluginLoader ---------------------------
(***************************************************************************)
(* Instance: every graph of three plugins with up to two imports each, all  *)
(* installed at the start; and for a few graphs, one plugin that is not as  *)
(* it should be, with a refresh and a scan (or two refreshes) that overlap  *)
(* the start and each other while an administrator adds plugins.            *)
(***************************************************************************)
EXTENDS PluginLoader

MCPlugins == 1..3

Import(from, name) == [from |-> from, name |-> name]
Definition(own, imports, fate) == [own |-> own, imports |-> imports, fate |-> fate]

\* p may import from another plugin its own service or one it imports; the
\* plugin 1 also from itself, and from a plugin that does not exist.
ImportsOf(p) ==
  LET others == {Import(q, n) : q, n \in MCPlugins \ {p}}
      odd == IF p = 1 THEN {Import(1, 1), Import(0, 0)} ELSE {} IN
  {S \in SUBSET (others \cup odd) : Cardinality(S) <= 2 /\ \A i, j \in S : i.from = j.from => i = j}

DefinitionsOf(p) == {Definition(o, I, "fine") : o \in BOOLEAN, I \in ImportsOf(p)}

Graphs == DefinitionsOf(1) \X DefinitionsOf(2) \X DefinitionsOf(3)

Start_(d) == [def |-> d, dir |-> MCPlugins, agent |-> FALSE, batches |-> <<"start">>,
              repairs |-> 0, dynamic |-> 0]

\* A chain, a fan, an import of an import, and imports of services that are
\* not, or not there.
SomeGraphs ==
  LET d(own2, i2, own3, i3) == <<Definition(TRUE, {}, "fine"), Definition(own2, i2, "fine"),
                                 Definition(own3, i3, "fine")>> IN
  {d(TRUE, {Import(1, 1)}, TRUE, {Import(2, 2)}),
   d(TRUE, {Import(1, 1)}, FALSE, {Import(1, 1), Import(2, 2)}),
   d(FALSE, {Import(1, 1)}, FALSE, {Import(2, 1)}),
   d(FALSE, {}, FALSE, {Import(2, 2)})}

OneFate(d) == {[d EXCEPT ![p].fate = f] : p \in MCPlugins, f \in Fates}

Scanned ==
  [def : UNION {OneFate(d) : d \in SomeGraphs}, dir : {{1}, {2, 3}, {1, 2, 3}}, agent : {TRUE},
   batches : {<<"start", "refresh", "scan">>}, repairs : {1}, dynamic : {0}]

Refreshed ==
  [def : UNION {OneFate(d) : d \in SomeGraphs}, dir : {{1}, {2, 3}, {1, 2, 3}}, agent : {TRUE},
   batches : {<<"start", "refresh", "refresh">>}, repairs : {1}, dynamic : {0}]

Dynamic ==
  [def : SomeGraphs, dir : {{1}, {1, 2}, {1, 2, 3}}, agent : {TRUE},
   batches : {<<"start", "refresh", "scan">>}, repairs : {1}, dynamic : {1}]

\* without an agent nobody knows what it has, and nothing is refused
NoAgent ==
  [def : UNION {OneFate(d) : d \in SomeGraphs}, dir : {{1, 2, 3}}, agent : {FALSE},
   batches : {<<"start", "scan">>}, repairs : {0}, dynamic : {0}]

MCCases == {Start_(d) : d \in Graphs} \cup Scanned \cup Refreshed \cup Dynamic \cup NoAgent
=============================================================================
