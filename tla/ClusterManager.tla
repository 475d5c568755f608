--------------------------- MODULE ClusterManager ---------------------------
(***************************************************************************)
(* The master of lib/clusterManager.js and the workers it forks: slots,    *)
(* restarts, pool resizing from CPU reports, reload, shutdown, and the     *)
(* dynamic plugins the master remembers for the workers it (re)starts.     *)
(*                                                                         *)
(* A worker process is never reused: proc[p] is the p-th process forked.   *)
(* The slot array workers[] of the code maps a slot to its last occupant,  *)
(* which may long be dead, or may have been replaced while still alive.    *)
(* Every handler of the master and of a worker runs to completion on its   *)
(* event loop, so one handler is one action.  Messages between the two are *)
(* FIFO per direction and die with the receiver.                           *)
(***************************************************************************)
EXTENDS Integers, Sequences

CONSTANTS
  MinWorkers, MaxWorkers,     \* minWorkers and maxWorkers of the code
  WorkerChangeDecisionDelay,  \* workerChangeDecisionDelay
  Plugin,                     \* identifiers of dynamically added plugins
  MaxReports,                 \* bound: CPU reports sent
  MaxFailures,                \* bound: workers that exit on their own
  MaxReloads,                 \* bound: reloadAllWorkers requests
  MaxSubmissions              \* bound: plugins submitted

ASSUME ClusterAssumption ==
  /\ MinWorkers \in Nat \ {0} /\ MaxWorkers \in Nat /\ MinWorkers <= MaxWorkers
  /\ WorkerChangeDecisionDelay \in Nat \ {0}
  /\ MaxReports \in Nat /\ MaxFailures \in Nat
  /\ MaxReloads \in Nat /\ MaxSubmissions \in Nat

VARIABLES
  workersNum,              \* this.workersNum
  workers,                 \* this.workers: slot -> last process forked in it
  workerResourceRequests,  \* the queue of load votes
  stoppingProcess,         \* SIGINT was received
  masterExited,            \* process.exit(code) of the master was reached
  pluginDefsMap,           \* nodeStates(addDynamicPlugin), in Map order
  proc,                    \* the processes forked so far
  budget,                  \* what is left of the bounds
  regrown                  \* history: slots reopened before the master was
                           \* done with the process closed in them

vars == <<workersNum, workers, workerResourceRequests, stoppingProcess,
          masterExited, pluginDefsMap, proc, budget, regrown>>

Slot == 0 .. MaxWorkers - 1
NoProc == 0

\* A worker sends these to the master ...
MasterMessage ==
  [type : {"reportInitialized", "reloadAllWorkers"}]
    \cup [type : {"reportCpuUsage"}, vote : {-1, 0, 1}]
    \cup [type : {"addDynamicPlugin"}, plugin : Plugin]

\* ... and the master notifies a worker of these.
Notification ==
  [type : {"initOnce"}] \cup [type : {"addDynamicPlugin"}, plugin : Plugin]

\* "ending": kill() was called on it, or its own endServer() runs; "exited":
\* the process is gone; "reaped": the master has handled its exit event.
Process ==
  [index : Slot,
   status : {"booting", "serving", "ending", "exited", "reaped"},
   fatal : BOOLEAN,                 \* exit code >= EXIT_GENERIC
   closed : BOOLEAN,                \* history: lessWorker() closed it
   workerInitialized : BOOLEAN,     \* worker.__workerInitialized
   plugins : SUBSET Plugin,         \* dynamic plugins its loader holds
   toMaster : Seq(MasterMessage), toWorker : Seq(Notification)]

Budget == [reports : Nat, failures : Nat, reloads : Nat, submissions : Nat]

TypeOK ==
  /\ workersNum \in Nat
  /\ workers \in [Slot -> Nat]
  /\ workerResourceRequests \in Seq({-1, 0, 1})
  /\ stoppingProcess \in BOOLEAN /\ masterExited \in BOOLEAN
  /\ pluginDefsMap \in Seq(Plugin)
  /\ proc \in Seq(Process)
  /\ budget \in Budget
  /\ regrown \in SUBSET Slot

Forked == DOMAIN proc
Alive(p) == proc[p].status \in {"booting", "serving", "ending"}
Unkilled(p) == proc[p].status \in {"booting", "serving"}
OccupantIn(w, S) == \E p \in Forked : workers[w] = p /\ proc[p].status \in S

-----------------------------------------------------------------------------
(* The processes after a call that changes them.  Each takes and returns a  *)
(* sequence of processes, so that a handler can make several calls.         *)

\* (mutant: the slot number taken after the increment)
NewWorkerNextSlot(wi) ==
  [index |-> wi + 1, status |-> "booting", fatal |-> FALSE, closed |-> FALSE,
   workerInitialized |-> FALSE, plugins |-> {},
   toMaster |-> << >>, toWorker |-> << >>]

NewWorker(wi) ==
  [index |-> wi, status |-> "booting", fatal |-> FALSE, closed |-> FALSE,
   workerInitialized |-> FALSE, plugins |-> {},
   toMaster |-> << >>, toWorker |-> << >>]

\* worker.kill(): asks the process to end; nothing if it is ending or gone.
Kill(ps, P) ==
  [p \in DOMAIN ps |->
     IF p \in P /\ ps[p].status \in {"booting", "serving"}
     THEN [ps[p] EXCEPT !.status = "ending"] ELSE ps[p]]

\* worker.send(message): lost if the process is gone, caught by the caller.
Send(ps, P, messages) ==
  [p \in DOMAIN ps |->
     IF p \in P /\ ps[p].status \in {"booting", "serving", "ending"}
     THEN [ps[p] EXCEPT !.toWorker = @ \o messages] ELSE ps[p]]

Occupants(slots) == {workers[w] : w \in slots}

\* The first message p sent is taken off its channel.
Receive(p) == [proc EXCEPT ![p].toMaster = Tail(@)]

\* p's next message to the master is of this type.
NextMessageIs(p, type) ==
  /\ ~masterExited
  /\ proc[p].toMaster # << >>
  /\ Head(proc[p].toMaster).type = type

Remembered == {pluginDefsMap[i] : i \in DOMAIN pluginDefsMap}

\* remember(): a Map keeps the place of a key it has.
Remember(x) ==
  IF x \in Remembered THEN pluginDefsMap ELSE Append(pluginDefsMap, x)

\* (mutant: the first remembered plugin is skipped)
RestoreMessagesButFirst ==
  [i \in 1 .. Len(pluginDefsMap) - 1 |->
     [type |-> "addDynamicPlugin", plugin |-> pluginDefsMap[i + 1]]]

\* restore() of the remembered plugins.
RestoreMessages ==
  [i \in DOMAIN pluginDefsMap |->
     [type |-> "addDynamicPlugin", plugin |-> pluginDefsMap[i]]]

\* What the worker of slot wi is sent when it is initialised.
Greeting(wi) ==
  (IF wi = 0 THEN <<[type |-> "initOnce"]>> ELSE << >>) \o RestoreMessages

\* (mutant: old votes are not shifted out)
AllOf(s, n) == s

\* The last n votes, and a unanimous queue (the sum reaches +-length).
LastOf(s, n) == IF Len(s) > n THEN SubSeq(s, Len(s) - n + 1, Len(s)) ELSE s
AllAre(s, vote) == \A i \in DOMAIN s : s[i] = vote

\* cluster.fork into slot wi; the slot's previous occupant is forgotten.
StartWorker(ps, wi) ==
  /\ proc' = Append(ps, NewWorker(wi))
  /\ workers' = [workers EXCEPT ![wi] = Len(ps) + 1]

-----------------------------------------------------------------------------
Init ==
  /\ workersNum = MinWorkers
  /\ proc = [p \in 1 .. MinWorkers |-> NewWorker(p - 1)]
  /\ workers = [w \in Slot |-> IF w < MinWorkers THEN w + 1 ELSE NoProc]
  /\ workerResourceRequests = << >>
  /\ stoppingProcess = FALSE /\ masterExited = FALSE
  /\ pluginDefsMap = << >>
  /\ budget = [reports |-> MaxReports, failures |-> MaxFailures,
               reloads |-> MaxReloads, submissions |-> MaxSubmissions]
  /\ regrown = {}

(* ------------------------------ the workers ----------------------------- *)

\* What a reaped process still had in its pipe is read by the master long
\* before a process forked afterwards has loaded its modules.
Drained == \A q \in Forked : proc[q].status = "reaped" => proc[q].toMaster = << >>

\* createProxyServerWorker(): start() is not awaited, "initialized" is
\* reported at once.
Boot(p) ==
  /\ proc[p].status = "booting" /\ Drained
  /\ proc' = [proc EXCEPT
                ![p].status = "serving",
                ![p].toMaster = Append(@, [type |-> "reportInitialized"])]
  /\ UNCHANGED <<workersNum, workers, workerResourceRequests, stoppingProcess,
                 masterExited, pluginDefsMap, budget, regrown>>

\* The 10 s timer: above highCPU is the vote 1, below lowCPU the vote -1.
ReportCpuUsage(p, vote) ==
  /\ proc[p].status = "serving" /\ budget.reports > 0
  /\ proc' = [proc EXCEPT ![p].toMaster =
                Append(@, [type |-> "reportCpuUsage", vote |-> vote])]
  /\ budget' = [budget EXCEPT !.reports = @ - 1]
  /\ UNCHANGED <<workersNum, workers, workerResourceRequests, stoppingProcess,
                 masterExited, pluginDefsMap, regrown>>

\* newPluginSubmitted(): the loader takes the plugin first (and throws on one
\* it has), then the master is called.
NewPluginSubmitted(p, x) ==
  /\ proc[p].status = "serving" /\ x \notin proc[p].plugins
  /\ budget.submissions > 0
  /\ proc' = [proc EXCEPT
                ![p].plugins = @ \cup {x},
                ![p].toMaster =
                   Append(@, [type |-> "addDynamicPlugin", plugin |-> x])]
  /\ budget' = [budget EXCEPT !.submissions = @ - 1]
  /\ UNCHANGED <<workersNum, workers, workerResourceRequests, stoppingProcess,
                 masterExited, pluginDefsMap, regrown>>

\* waitForHeadersBeforeReload() of the web application, in any worker.
RequestReload(p) ==
  /\ proc[p].status = "serving" /\ budget.reloads > 0
  /\ proc' = [proc EXCEPT ![p].toMaster =
                Append(@, [type |-> "reloadAllWorkers"])]
  /\ budget' = [budget EXCEPT !.reloads = @ - 1]
  /\ UNCHANGED <<workersNum, workers, workerResourceRequests, stoppingProcess,
                 masterExited, pluginDefsMap, regrown>>

\* handleMessageFromMaster(): a plugin the loader has already is an uncaught
\* exception, after which the worker ends itself (ProcessManager.endServer).
HandleNotification(p) ==
  /\ Alive(p) /\ proc[p].toWorker # << >>
  /\ LET m == Head(proc[p].toWorker)
         rest == [proc EXCEPT ![p].toWorker = Tail(@)]
     IN  proc' = IF m.type = "initOnce" THEN rest
                 ELSE IF m.plugin \in proc[p].plugins THEN Kill(rest, {p})
                 ELSE [rest EXCEPT ![p].plugins = @ \cup {m.plugin}]
  /\ UNCHANGED <<workersNum, workers, workerResourceRequests, stoppingProcess,
                 masterExited, pluginDefsMap, budget, regrown>>

\* endServer() completes with process.exit(0).
End(p) ==
  /\ proc[p].status = "ending"
  /\ proc' = [proc EXCEPT ![p].status = "exited"]
  /\ UNCHANGED <<workersNum, workers, workerResourceRequests, stoppingProcess,
                 masterExited, pluginDefsMap, budget, regrown>>

\* A crash, an external signal, or process.exit with a code of unp-constants.
Fail(p, fatal) ==
  /\ Alive(p) /\ budget.failures > 0
  /\ proc' = [proc EXCEPT ![p].status = "exited", ![p].fatal = fatal]
  /\ budget' = [budget EXCEPT !.failures = @ - 1]
  /\ UNCHANGED <<workersNum, workers, workerResourceRequests, stoppingProcess,
                 masterExited, pluginDefsMap, regrown>>

(* ------------------------------ the master ------------------------------ *)

\* (mutants: the flag of SIGINT is not looked at; the last slot of the pool
\* is taken for a closed one)
ExitIgnoredIfClosed(wi) == wi >= workersNum
ExitIgnoredOffByOne(wi) == stoppingProcess \/ wi >= workersNum - 1

\* The exit of a worker of slot wi is of no consequence: the server is
\* stopping, or lessWorker() took the slot out of the pool ("closed legally").
ExitIgnored(wi) == stoppingProcess \/ wi >= workersNum

\* The 'exit' listener of startWorker(wi) for process p.  It looks at the
\* current occupant of the slot, which need not be p.
HandleExit(p) ==
  /\ ~masterExited /\ proc[p].status = "exited"
  /\ LET wi == proc[p].index
         reaped == [proc EXCEPT ![p].status = "reaped"]
     IN  \/ /\ ExitIgnored(wi)
            /\ proc' = reaped
            /\ UNCHANGED <<workers, masterExited>>
         \/ /\ ~ExitIgnored(wi) /\ proc[p].fatal
            /\ proc' = Kill(reaped, Forked)
            /\ masterExited' = TRUE
            /\ UNCHANGED workers
         \/ /\ ~ExitIgnored(wi) /\ ~proc[p].fatal
            /\ ~proc[workers[wi]].workerInitialized
            /\ proc' = reaped
            /\ UNCHANGED <<workers, masterExited>>
         \/ /\ ~ExitIgnored(wi) /\ ~proc[p].fatal
            /\ proc[workers[wi]].workerInitialized
            /\ StartWorker(reaped, wi)
            /\ UNCHANGED masterExited
  /\ UNCHANGED <<workersNum, workerResourceRequests, stoppingProcess,
                 pluginDefsMap, budget, regrown>>

\* Marks the slot's current occupant (the sender or its successor), notifies
\* it of initOnce in the first slot, and restoreNodeState().
HandleReportInitialized(p) ==
  /\ NextMessageIs(p, "reportInitialized")
  /\ LET wi == proc[p].index
         marked == [Receive(p) EXCEPT ![workers[wi]].workerInitialized = TRUE]
     IN  proc' = Send(marked, {workers[wi]}, Greeting(wi))
  /\ UNCHANGED <<workersNum, workers, workerResourceRequests, stoppingProcess,
                 masterExited, pluginDefsMap, budget, regrown>>

\* notifyWorkersForAddingPlugin(): remembered, and sent to every slot's
\* occupant except the slot the caller names as its own.
HandleAddDynamicPlugin(p) ==
  /\ NextMessageIs(p, "addDynamicPlugin")
  /\ LET m == Head(proc[p].toMaster)
     IN  /\ pluginDefsMap' = Remember(m.plugin)
         /\ proc' = Send(Receive(p), Occupants(Slot \ {proc[p].index}), <<m>>)
  /\ UNCHANGED <<workersNum, workers, workerResourceRequests, stoppingProcess,
                 masterExited, budget, regrown>>

\* reloadAllWorkers(): the exit handlers start the successors.
HandleReloadAllWorkers(p) ==
  /\ NextMessageIs(p, "reloadAllWorkers")
  /\ proc' = Kill(Receive(p), Occupants(Slot))
  /\ UNCHANGED <<workersNum, workers, workerResourceRequests, stoppingProcess,
                 masterExited, pluginDefsMap, budget, regrown>>

\* (mutant: the worker is forked in the last open slot)
MoreWorkerInLastSlot(ps) ==
  /\ workersNum' = workersNum + 1
  /\ StartWorker(ps, workersNum - 1)
  /\ UNCHANGED regrown

MoreWorker(ps) ==
  /\ workersNum' = workersNum + 1
  /\ StartWorker(ps, workersNum)
  /\ regrown' = IF \E q \in DOMAIN ps : /\ ps[q].index = workersNum
                                        /\ \/ ps[q].status # "reaped"
                                           \/ ps[q].toMaster # << >>
                THEN regrown \cup {workersNum} ELSE regrown

\* (mutant: the slot is read before the decrement)
LessWorkerPostDecrement(ps) ==
  /\ workersNum' = workersNum - 1
  /\ proc' = Kill(ps, {workers[w] : w \in Slot \cap {workersNum}})
  /\ UNCHANGED <<workers, regrown>>

LessWorker(ps) ==
  LET wi == workersNum - 1
  IN  /\ workersNum' = wi
      /\ proc' = Kill([ps EXCEPT ![workers[wi]].closed = TRUE], {workers[wi]})
      /\ UNCHANGED <<workers, regrown>>

\* (mutant: the upper limit is not looked at)
MoreWorkersWantedAlways(queue) == AllAre(queue, 1)

\* "All workers requested for help", "all workers underloaded".
MoreWorkersWanted(queue) == AllAre(queue, 1) /\ workersNum < MaxWorkers
LessWorkersWanted(queue) == AllAre(queue, -1) /\ workersNum > MinWorkers

\* A vote pushes the oldest ones out beyond the threshold; only a queue that
\* overflowed is looked at, and it is not emptied by a decision.
HandleReportCpuUsage(p) ==
  /\ NextMessageIs(p, "reportCpuUsage")
  /\ LET ps == Receive(p)
         threshold == workersNum * WorkerChangeDecisionDelay
         pushed == Append(workerResourceRequests, Head(proc[p].toMaster).vote)
         queue == LastOf(pushed, threshold)
         grow == Len(pushed) > threshold /\ MoreWorkersWanted(queue)
         shrink == Len(pushed) > threshold /\ LessWorkersWanted(queue)
     IN  /\ workerResourceRequests' = queue
         /\ \/ grow /\ MoreWorker(ps)
            \/ shrink /\ LessWorker(ps)
            \/ ~grow /\ ~shrink /\ proc' = ps
               /\ UNCHANGED <<workersNum, workers, regrown>>
  /\ UNCHANGED <<stoppingProcess, masterExited, pluginDefsMap, budget>>

\* process.once('SIGINT'), sent to the master alone or to the whole process
\* group (whose workers then end themselves).
SigInt ==
  /\ ~stoppingProcess /\ ~masterExited
  /\ stoppingProcess' = TRUE
  /\ \E group \in {{}, Forked} : proc' = Kill(proc, group)
  /\ UNCHANGED <<workersNum, workers, workerResourceRequests, masterExited,
                 pluginDefsMap, budget, regrown>>

-----------------------------------------------------------------------------
MasterStep ==
  \E p \in Forked :
    \/ HandleExit(p)
    \/ HandleReportInitialized(p)
    \/ HandleAddDynamicPlugin(p)
    \/ HandleReloadAllWorkers(p)
    \/ HandleReportCpuUsage(p)

WorkerStep == \E p \in Forked : Boot(p) \/ HandleNotification(p) \/ End(p)

Environment ==
  \/ SigInt
  \/ \E p \in Forked :
       \/ RequestReload(p)
       \/ \E vote \in {-1, 0, 1} : ReportCpuUsage(p, vote)
       \/ \E x \in Plugin : NewPluginSubmitted(p, x)
       \/ \E fatal \in BOOLEAN : Fail(p, fatal)

Next == MasterStep \/ WorkerStep \/ Environment

Spec == Init /\ [][Next]_vars

\* An event loop with something to do does not stay idle.  The bounds make
\* every behaviour finite, so this is fairness to each process as well.
FairSpec == Spec /\ WF_vars(MasterStep) /\ WF_vars(WorkerStep)

-----------------------------------------------------------------------------
(* Properties *)

\* The pool's size stays within the configured limits (moreWorker and
\* lessWorker are called by the queue's handler only), and the queue of votes
\* never holds more than the largest pool would need for a decision.
PoolWithinLimits ==
  /\ MinWorkers <= workersNum /\ workersNum <= MaxWorkers
  /\ Len(workerResourceRequests) <= MaxWorkers * WorkerChangeDecisionDelay

\* The pool is resized only by a full window of unanimous votes, as wide as
\* the pool it was before the step, and never by more than one worker.
ResizeNeedsUnanimousWindow ==
  [][workersNum' # workersNum =>
       /\ workersNum' - workersNum \in {-1, 1}
       /\ workerResourceRequests' =
            [i \in 1 .. workersNum * WorkerChangeDecisionDelay |->
               workersNum' - workersNum]]_vars

\* A slot that lessWorker() has taken out of the pool is never left with a
\* working occupant: whatever restarts and resizes interleave, the occupant
\* of a slot beyond workersNum has been told to end.
ClosedSlotHasNoWorker ==
  \A w \in Slot :
    w >= workersNum => ~OccupantIn(w, {"booting", "serving"})

\* A process that nobody told to end is the one its slot names, so that the
\* master's kills, notifications and replies reach every worker.  The one way
\* out is a slot reopened before its closed worker's exit was handled: the
\* exit listener then takes the successor's flag for its own and forks again.
OneWorkerPerSlot ==
  \A p \in Forked :
    Unkilled(p) => \/ workers[proc[p].index] = p
                   \/ proc[p].index \in regrown

\* Between the broadcast of a plugin and the replay of the remembered ones to
\* a starting worker nothing falls through: an initialised occupant holds
\* every remembered plugin or will be handed it.
RememberedPluginsReachWorkers ==
  \A w \in Slot \ regrown :
    LET p == workers[w] IN
    (OccupantIn(w, {"booting", "serving"}) /\ proc[p].workerInitialized) =>
      \A x \in Remembered :
        \/ x \in proc[p].plugins
        \/ \E i \in DOMAIN proc[p].toWorker :
             proc[p].toWorker[i] = [type |-> "addDynamicPlugin", plugin |-> x]

\* Once SIGINT is seen no exit is answered with a fork: a worker is started
\* by a step that widens the pool or not at all.
NoRestartWhileStopping ==
  [][stoppingProcess /\ Len(proc') > Len(proc) => workersNum' > workersNum]_vars

\* The comment "closed legally" at the exit listener's early return: a worker
\* closed by lessWorker() is not restarted when its exit is handled.
LegallyClosedNotRestarted ==
  [][\A p \in Forked :
       proc[p].closed /\ proc[p].status = "exited"
         /\ proc'[p].status = "reaped" => Len(proc') = Len(proc)]_vars

\* A worker the master knows to be initialised when it exits with a code below
\* EXIT_GENERIC is replaced by one that serves, unless its slot is closed, its
\* successors die before they are known to be initialised, or the whole
\* server stops.
FailedWorkerReplaced ==
  \A w \in Slot :
    (\E p \in Forked : /\ workers[w] = p /\ proc[p].status = "exited"
                       /\ proc[p].workerInitialized /\ ~proc[p].fatal)
      ~> \/ OccupantIn(w, {"serving"})
         \/ \E p \in Forked : /\ workers[w] = p /\ proc[p].status = "reaped"
                              /\ ~proc[p].workerInitialized
         \/ w >= workersNum \/ stoppingProcess \/ masterExited

\* Every remembered plugin ends up in every worker that stays in service in a
\* slot that was not reopened too early.
PluginsInstalledEverywhere ==
  \A w \in Slot : \A x \in Plugin :
    (x \in Remembered /\ OccupantIn(w, {"booting", "serving"}))
      ~> \/ OccupantIn(w, {"ending", "exited", "reaped"})
         \/ \E p \in Forked : workers[w] = p /\ x \in proc[p].plugins
         \/ w \in regrown
=============================================================================
