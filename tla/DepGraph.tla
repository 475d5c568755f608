------------------------------ MODULE DepGraph ------------------------------
(***************************************************************************)
(* The plugins' dependency graph (lib/depgraph.js): which plugins can have  *)
(* their imports, and in which order to install them.                      *)
(*                                                                         *)
(* A plugin p is a number; def[p].own says that it has a service of its own, *)
(* and def[p].imports holds its imports, [from, name]: the service name of   *)
(* the plugin from.  A service of its own is named by the plugin's number,  *)
(* an import by the number of the plugin it comes from, so that a plugin may *)
(* import what another one has imported.  The plugin 0 does not exist.      *)
(* Versions are left out: a service of the wrong version is one not found.  *)
(***************************************************************************)
EXTENDS Naturals, Sequences, FiniteSets, SequencesExt

\* plugin.dataServices is undefined
NoServices(d) == ~d.own /\ d.imports = {}

\* The links of the graph: p imports the service name of provider.
Links(def, plugins) ==
  {[importer |-> p, provider |-> i.from, name |-> i.name] : <<p, i>> \in
     UNION {{p} \X def[p].imports : p \in plugins}}

\* validateDep: the provider is there, and has a service of its own or an
\* import of that name with a version, that is one found valid by now.
Valid(def, plugins, link, found) ==
  /\ link.provider \in plugins
  /\ \/ link.name = link.provider /\ def[link.provider].own
     \/ \E l \in found : l.importer = link.provider /\ l.provider = link.name

\* (mutant: links found broken are not looked at again)
ValidLinksOnce(def, plugins, versioned) ==
  {l \in Links(def, plugins) : Valid(def, plugins, l, versioned)}

\* _buildGraph: links found broken are validated again until nothing changes.
\* The imports of versioned have their version from the start.
ValidLinks(def, plugins, versioned) ==
  LET links == Links(def, plugins)
      found[n \in Nat] ==
        IF n = 0 THEN {}
        ELSE {l \in links : Valid(def, plugins, l, found[n - 1] \cup versioned)}
  IN  found[Cardinality(links)]

\* Its first pass goes through the plugins in their order.
FirstPass(def, order, versioned) ==
  FoldLeft(LAMBDA valid, p : valid \cup
             {l \in Links(def, {p}) : Valid(def, ToSet(order), l, valid \cup versioned)}, {}, order)

\* A provider without data services cannot be searched: an exception.
Unsearchable(def, plugins) ==
  \E l \in Links(def, plugins) : l.provider \in plugins /\ NoServices(def[l.provider])

\* An import found valid is given its version, in the first pass when it has
\* none, and later always.  In a plugin that is frozen this is an exception.
Unwritable(valid, firstPass, frozen, versioned) ==
  \E l \in valid : l.importer \in frozen /\ (l \notin versioned \/ l \notin firstPass)

Ascending(S) ==
  [i \in 1..Cardinality(S) |-> CHOOSE n \in S : Cardinality({m \in S : m < n}) = i - 1]

\* (mutant: push instead of unshift)
FinishedLast(order, n) == Append(order, n)

Finished(order, n) == <<n>> \o order

(***************************************************************************)
(* The depth-first search of _removeBrokenPlugins and _toposort, from a     *)
(* provider to those who import from it.                                   *)
(***************************************************************************)
RECURSIVE Visit(_, _, _)
Visit(links, n, search) ==
  IF n \in search.visited THEN search
  ELSE IF n \in search.visiting THEN [search EXCEPT !.circular = TRUE]
  ELSE LET importers == Ascending({l.importer : l \in {l \in links : l.provider = n}})
           inner == FoldLeft(LAMBDA s, m : IF s.circular THEN s ELSE Visit(links, m, s),
                             [search EXCEPT !.visiting = @ \cup {n}], importers)
       IN  [inner EXCEPT !.visiting = @ \ {n}, !.visited = @ \cup {n},
                         !.order = Finished(@, n)]

VisitAll(links, roots, search) ==
  FoldLeft(LAMBDA s, n : IF s.circular THEN s ELSE Visit(links, n, s), search, Ascending(roots))

NewSearch == [visiting |-> {}, visited |-> {}, order |-> <<>>, circular |-> FALSE]

\* _removeBrokenPlugins visits the importers of the broken links.
Rejecting(links, valid) == VisitAll(links, {l.importer : l \in links \ valid}, NewSearch)

\* _toposort visits the nodes, which are those rejected too: they are visited
\* already, and only for that reason not in the order.
Sorting(links, plugins, rejecting) ==
  VisitAll(links, plugins \cup {l.provider : l \in links}, [rejecting EXCEPT !.order = <<>>])

\* order: the plugins; those of frozen are registered already, and their imports
\* have a version, except those of dynamic.
processImports(def, order, frozen, dynamic) ==
  LET plugins == ToSet(order)
      links == Links(def, plugins)
      versioned == Links(def, frozen \ dynamic)
      valid == ValidLinks(def, plugins, versioned)
      rejecting == Rejecting(links, valid)
      sorted == Sorting(links, plugins, rejecting)
  IN  [throws |-> \/ Unsearchable(def, plugins)
                  \/ Unwritable(valid, FirstPass(def, order, versioned), frozen, versioned)
                  \/ sorted.circular,
       plugins |-> SelectSeq(sorted.order, LAMBDA p : p \in plugins \ rejecting.visited),
       rejects |-> rejecting.visited]

(***************************************************************************)
(* What it should be, from the comments of depgraph.js: a plugin is         *)
(* installed when each of its imports names a service of a plugin that is,  *)
(* after those plugins.                                                    *)
(***************************************************************************)
Offers(def, q, name) == (name = q /\ def[q].own) \/ \E i \in def[q].imports : i.from = name
Consistent(def, S) == \A p \in S : \A i \in def[p].imports : i.from \in S /\ Offers(def, i.from, i.name)
Installable(def, plugins) == UNION {S \in SUBSET plugins : Consistent(def, S)}
Before(seq, p, q) == \E i, j \in DOMAIN seq : i < j /\ seq[i] = p /\ seq[j] = q

\* Imports that run in a circle, among the plugins there.
Circular(def, plugins) ==
  \E S \in SUBSET plugins : S # {} /\ \A p \in S : \E i \in def[p].imports : i.from \in S
=============================================================================
