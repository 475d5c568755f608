---------------------------- MODULE PluginLoader ----------------------------
(***************************************************************************)
(* How a worker finds, loads and installs plugins: the plugin loader        *)
(* (lib/plugin-loader.js) with the dependency graph, the server's handler   *)
(* of its events (lib/index.js) and the installation in the web application *)
(* (lib/webapp.js).                                                        *)
(*                                                                         *)
(* Batches of plugins are read and installed by the start, by scans (asked  *)
(* for by another worker or by the scanner) and by GET /plugins?refresh=true; *)
(* they overlap where the code waits.  An installed batch becomes a number  *)
(* of events, each handled when the one before has been.                   *)
(***************************************************************************)
EXTENDS DepGraph

CONSTANTS Plugins,   \* numbers from 1 on
          Cases      \* bound: definitions, the plugins on disk at first, whether
                     \* there is an agent, the batches, how many plugins may be
                     \* repaired or installed on disk, and added by POST

\* What becomes of a plugin: its definition is read with an error, or cannot be
\* (an environment variable is not set); its requirements are not met, making
\* it fails, it is an authenticator nobody requested, its services cannot be
\* routed; or it is fine.
Fates == {"fine", "erroneous", "variable", "unmet", "unmade", "unrequested", "unrouted"}

ASSUME LoaderAssumption ==
  /\ Plugins \subseteq Nat \ {0}
  /\ \A c \in Cases :
       /\ \A p \in Plugins : c.def[p].fate \in Fates /\ c.def[p].own \in BOOLEAN
       /\ c.dir \subseteq Plugins /\ c.agent \in BOOLEAN
       /\ c.repairs \in Nat /\ c.dynamic \in Nat /\ Head(c.batches) = "start"

VARIABLES
  def,        \* the definitions on disk
  dir,        \* the plugins whose files are there
  agent,      \* whether an agent is configured
  envComps,   \* whether the components' capabilities are known
  plugins,    \* loader: the plugins made, in the order of their registration
  skipped,    \* those registered with an empty entry, not to be retried
  dynamic,    \* those of plugins added by POST
  batch,      \* the start and the other batches
  queue,      \* the events to handle
  pluginCount, messageIssued, \* the handler's counters
  routers,    \* web application: <<plugin, service>>
  listed,     \* its pluginsArray
  past,       \* history: plugins failed, lost, failed for an import
  budget      \* repairs and dynamic plugins left

disk == <<def, dir, agent>>
handler == <<pluginCount, messageIssued>>
webApp == <<routers, listed>>
vars == <<disk, envComps, plugins, skipped, dynamic, batch, queue, handler, webApp, past, budget>>

NewBatch(kind) ==
  [kind |-> kind, pc |-> "idle", files |-> {}, defs |-> <<>>, known |-> <<>>,
   waits |-> FALSE, answered |-> FALSE, events |-> 0, first |-> FALSE]

Init ==
  \E c \in Cases :
    /\ def = c.def /\ dir = c.dir /\ agent = c.agent
    /\ batch = [b \in DOMAIN c.batches |-> NewBatch(c.batches[b])]
    /\ envComps = FALSE /\ plugins = <<>> /\ skipped = {} /\ dynamic = {} /\ queue = <<>>
    /\ pluginCount = 0 /\ messageIssued = FALSE /\ routers = {} /\ listed = <<>>
    /\ past = [failed |-> {}, lost |-> {}, unimported |-> {}]
    /\ budget = [repairs |-> c.repairs, dynamic |-> c.dynamic]

pluginMap == ToSet(plugins) \cup skipped

Start == 1
Listening == batch[Start].pc # "idle"  \* loadPlugins: on('pluginFound')
Down == batch[Start].pc = "threw"      \* the start fails
Busy == \E b \in DOMAIN batch : batch[b].pc = "running"
Idle == ~Down /\ ~Busy

(***************************************************************************)
(* Reading definitions.                                                    *)
(***************************************************************************)
Readable(d) == d.fate \notin {"erroneous", "variable"}

\* installPlugins with the definitions read: the graph starts with the plugins
\* registered by now.  It waits for what the agent says while that is not known.
Install(b, read, waits) ==
  batch' = [batch EXCEPT ![b].pc = IF envComps THEN "running" ELSE "installing",
                         ![b].defs = Restrict(def, read), ![b].known = plugins, ![b].waits = waits]

\* loadPlugins and readPluginDefs: at the start, definitions with an error too
loadPlugins ==
  /\ Idle /\ ~Listening
  /\ Install(Start, dir, FALSE)
  /\ UNCHANGED <<disk, envComps, plugins, skipped, dynamic, queue, handler, webApp, past, budget>>

\* readNewPluginDefs: the files of plugins that are not registered.  A refresh
\* needs a login, and the authenticators are loaded when the start's plugins are.
readNewPluginDefs(b) ==
  /\ Idle /\ batch[b].kind # "start" /\ batch[b].pc = "idle"
  /\ batch[b].kind = "refresh" => batch[Start].pc = "installed"
  /\ batch' = [batch EXCEPT ![b].pc = "reading", ![b].files = dir \ pluginMap]
  /\ UNCHANGED <<disk, envComps, plugins, skipped, dynamic, queue, handler, webApp, past, budget>>

\* _readPluginDefAsync: an error drops the definition; a variable that is not
\* set neither resolves nor rejects.  A refresh that finds nothing is answered.
readDone(b) ==
  LET files == batch[b].files
      read == {p \in files : Readable(def[p])} IN
  /\ Idle /\ batch[b].pc = "reading"
  /\ IF \E p \in files : def[p].fate = "variable"
     THEN batch' = [batch EXCEPT ![b].pc = "stuck"]
     ELSE IF batch[b].kind = "refresh" /\ read = {}
     THEN batch' = [batch EXCEPT ![b].pc = "installed", ![b].answered = TRUE]
     ELSE Install(b, read, batch[b].kind = "refresh")
  /\ UNCHANGED <<disk, envComps, plugins, skipped, dynamic, queue, handler, webApp, past, budget>>

(***************************************************************************)
(* installPlugins after its wait (getComponentCapabilities).               *)
(***************************************************************************)
\* checkPluginRequirements compares with what the agent is known to have.
Acceptable(d) == Readable(d) /\ ~(d.fate = "unmet" /\ agent)

\* (mutant: the look at the plugins registered is the one before the wait)
NotYetThen(b, order) == SelectSeq(order, LAMBDA p : p \notin ToSet(batch[b].known))

NotYet(b, order) == SelectSeq(order, LAMBDA p : p \notin pluginMap)

Makeable(d) == d.fate \notin {"unmade", "unrequested"}
Unrequested(d) == d.fate = "unrequested"

\* makePlugin fails, or the plugin is registered.
Made(defs, order) == SelectSeq(order, LAMBDA p : Makeable(defs[p]))

Event(p, error, count, b) == [plugin |-> p, error |-> error, count |-> count, batch |-> b]

\* What the graph is built from: a definition read takes the place of the same
\* plugin registered already.
Read(b) == {p \in DOMAIN batch[b].defs : Acceptable(batch[b].defs[p])}
Frozen(b) == ToSet(batch[b].known) \ Read(b)
Given(b) == batch[b].known \o Ascending(Read(b) \ ToSet(batch[b].known))

installPlugins(b) ==
  LET defs == batch[b].defs
      result == processImports(def, Given(b), Frozen(b), dynamic)
      wrong == Ascending({p \in DOMAIN defs : ~Acceptable(defs[p])}) \o Ascending(result.rejects)
      new == NotYet(b, result.plugins)
      made == Made(defs, new)
      requested == SelectSeq(new, LAMBDA p : ~Unrequested(defs[p]))
      \* requirements not met, rejects and plugins that cannot be made are errors
      events == [i \in 1..(Len(wrong) + Len(requested)) |->
        LET p == (wrong \o requested)[i] IN
        Event(p, i <= Len(wrong) \/ p \notin ToSet(made), Len(wrong) + Len(requested), b)] IN
  /\ batch[b].pc = "running" \/ (Idle /\ batch[b].pc = "installing")
  /\ envComps' = (envComps \/ agent)
  /\ IF result.throws
     THEN /\ batch' = [batch EXCEPT ![b].pc = "threw", ![b].defs = <<>>, ![b].known = <<>>]
          /\ UNCHANGED <<plugins, skipped, queue, past>>
     ELSE /\ plugins' = plugins \o made
          /\ skipped' = skipped \cup (ToSet(new) \ ToSet(requested))
          /\ batch' = [batch EXCEPT ![b].pc = "installed", ![b].defs = <<>>, ![b].known = <<>>,
                                    ![b].events = Len(events)]
          /\ IF Listening
             THEN /\ queue' = queue \o events
                  /\ UNCHANGED past
             ELSE /\ past' = [past EXCEPT !.lost = @ \cup ToSet(made)]
                  /\ UNCHANGED queue
  /\ UNCHANGED <<disk, dynamic, handler, webApp, budget>>

\* addDynamicPlugin: registered without a look at imports; nobody listens to
\* the event that tells.
addDynamicPlugin(p) ==
  /\ Idle /\ budget.dynamic > 0
  /\ p \notin pluginMap /\ Makeable(def[p])
  /\ plugins' = Append(plugins, p)
  /\ dynamic' = dynamic \cup {p}
  /\ budget' = [budget EXCEPT !.dynamic = @ - 1]
  /\ UNCHANGED <<disk, envComps, skipped, batch, queue, handler, webApp, past>>

(***************************************************************************)
(* The handler of the events (loadPlugins in index.js) and the web          *)
(* application's part.                                                     *)
(***************************************************************************)
\* _installDataServices routes the plugin's own service, _resolveImports its
\* imports until one is missing.
OwnRouters(p) == IF def[p].own THEN {<<p, p>>} ELSE {}
Importable(p) == {i \in def[p].imports : <<i.from, i.name>> \in routers \cup OwnRouters(p)}
ImportRouters(p) == {<<p, i.from>> : i \in Importable(p)}

\* As the definition is when the event is handled.  The code has the one it read,
\* so a Repair meanwhile gives the model a behaviour more.
Routable(p) == def[p].fate # "unrouted" \/ ~def[p].own
Installed(p) == Routable(p) /\ Importable(p) = def[p].imports

webAppInstallPlugin(p) ==
  IF ~Routable(p)
  THEN /\ past' = [past EXCEPT !.failed = @ \cup {p}]
       /\ UNCHANGED <<webApp>>
  ELSE /\ routers' \in {routers \cup OwnRouters(p) \cup R :
                          R \in IF Installed(p) THEN {ImportRouters(p)} ELSE SUBSET ImportRouters(p)}
       /\ listed' = IF Installed(p) THEN Append(listed, p) ELSE listed
       /\ past' = IF Installed(p) THEN past
                  ELSE [past EXCEPT !.failed = @ \cup {p}, !.unimported = @ \cup {p}]

\* (mutant: a plugin with an error is not counted)
CountedLoaded(event) == IF event.error THEN pluginCount ELSE pluginCount + 1

Counted(event) == pluginCount + 1

\* (mutant: the count goes on with the next batch)
LeftOverAll(count, event) == count

LeftOver(count, event) == IF count = event.count THEN 0 ELSE count

\* handleIfComplete: the first batch to be complete enables the scanner, a later
\* one answers the refreshes that wait.
handleIfComplete(event) ==
  LET count == Counted(event)
      complete == count = event.count IN
  /\ pluginCount' = LeftOver(count, event)
  /\ messageIssued' = (messageIssued \/ complete)
  /\ batch' = [b \in DOMAIN batch |->
       IF complete /\ messageIssued /\ batch[b].waits
       THEN [batch[b] EXCEPT !.waits = FALSE, !.answered = TRUE]
       ELSE IF complete /\ ~messageIssued /\ b = event.batch THEN [batch[b] EXCEPT !.first = TRUE]
       ELSE batch[b]]

\* (mutant: a failed installation is not caught, and the next event not handled)
RemainingUncaught(event) ==
  IF ~event.error /\ ~Installed(event.plugin) /\ Len(queue) > 1 THEN Tail(Tail(queue))
  ELSE Tail(queue)

\* asyncEventListener: the next event is handled when this one has been.
Remaining(event) == Tail(queue)

pluginFound ==
  /\ Idle /\ queue # <<>>
  /\ LET event == Head(queue) IN
     /\ IF event.error THEN UNCHANGED <<webApp, past>>
        ELSE webAppInstallPlugin(event.plugin)
     /\ handleIfComplete(event)
  /\ queue' = Remaining(Head(queue))
  /\ UNCHANGED <<disk, envComps, plugins, skipped, dynamic, budget>>

\* An administrator installs a plugin's files, or repairs its definition.
Repair(p) ==
  /\ ~Busy /\ budget.repairs > 0
  /\ p \notin dir \/ def[p].fate # "fine"
  /\ def' = [def EXCEPT ![p].fate = IF p \in dir THEN "fine" ELSE @]
  /\ dir' = dir \cup {p}
  /\ budget' = [budget EXCEPT !.repairs = @ - 1]
  /\ UNCHANGED <<agent, envComps, plugins, skipped, dynamic, batch, queue, handler, webApp, past>>

Next ==
  \/ loadPlugins
  \/ \E b \in DOMAIN batch : readNewPluginDefs(b) \/ readDone(b) \/ installPlugins(b)
  \/ pluginFound
  \/ \E p \in Plugins : addDynamicPlugin(p) \/ Repair(p)

Spec == Init /\ [][Next]_vars

(***************************************************************************)
(* Properties.                                                             *)
(***************************************************************************)
\* p was registered by one of the batches, and its event is not handled yet.
Waiting(p, batches) ==
  \E i \in DOMAIN queue : queue[i].plugin = p /\ ~queue[i].error /\ queue[i].batch \in batches

\* Sets and counters have their types, and the count of a batch stays below
\* its number of events.
TypeOK ==
  /\ IsInjective(plugins) /\ pluginMap \subseteq Plugins /\ ToSet(listed) \subseteq pluginMap
  /\ routers \subseteq Plugins \X Plugins
  /\ pluginCount \in Nat /\ (queue = <<>> => pluginCount = 0)
  /\ pluginCount > 0 => pluginCount < Head(queue).count

\* Exactly the plugins whose imports can be satisfied, through other plugins'
\* imports too, become registered, providers first; an exception ends the whole
\* batch when imports run in a circle, name a plugin without services, or are
\* those of a plugin registered before that have no version yet.
ResolvedRight ==
  [][\A b \in DOMAIN batch : batch[b].pc \in {"installing", "running"} /\ batch'[b].pc # batch[b].pc =>
       LET given == ToSet(Given(b))
           good == Installable(def, given)
           wrong == Circular(def, given) \/ Unsearchable(def, given)
           added == {p \in dynamic \cap Frozen(b) : def[p].imports # {}}
           late == {p \in Frozen(b) : \E i \in def[p].imports : i.from \in Read(b) /\ i.name # i.from}
           new == ToSet(plugins') \ ToSet(plugins)
           order == [i \in 1..(Len(queue') - Len(queue)) |-> queue'[Len(queue) + i].plugin] IN
       /\ batch'[b].pc = "threw" => wrong \/ added # {} \/ late # {}
       /\ wrong \/ added \cap good # {} => batch'[b].pc = "threw"
       /\ batch'[b].pc = "installed" =>
            /\ new = {p \in good \ pluginMap : Makeable(batch[b].defs[p])}
            /\ order # <<>> => \A p \in new : \A i \in def[p].imports :
                 i.from \in new => Before(order, i.from, p)]_vars

\* An import fails in the web application only where the provider has not been
\* installed and is not about to be in the same batch: providers come first.
ProvidersFirst ==
  [][\A p \in past'.unimported \ past.unimported : \E i \in def[p].imports :
       i.from \notin ToSet(listed) /\ ~Waiting(i.from, {Head(queue).batch})]_vars

\* However scans, refreshes and the start overlap, a plugin is installed once.
InstalledOnce == IsInjective(listed)

\* What the loader has registered, and will therefore never read again, is
\* listed, waits to be installed or could not be; except authenticators nobody
\* requested, what was added dynamically, and what a scan registered before the
\* server listens.
RegisteredIsListed ==
  \A p \in pluginMap :
    \/ p \in ToSet(listed) \cup past.failed \cup past.lost \cup skipped \cup dynamic
    \/ Waiting(p, DOMAIN batch)

\* A refresh is answered when all is done, unless its reading never ends, the
\* installation threw, it had no event to wait for (another batch had installed
\* what it found, or it found only authenticators nobody requested), or its own
\* batch was the server's first to be complete.
RefreshAnswered ==
  \A b \in DOMAIN batch :
    batch[b].kind = "refresh" /\ batch[b].pc = "installed" /\ ~batch[b].answered /\ queue = <<>> =>
      batch[b].events = 0 \/ batch[b].first
=============================================================================
