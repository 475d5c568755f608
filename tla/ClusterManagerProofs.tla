------------------------ MODULE ClusterManagerProofs ------------------------
(***************************************************************************)
(* Invariance proofs for ClusterManager.                                   *)
(***************************************************************************)
EXTENDS ClusterManager, SequenceTheorems, TLAPS

-----------------------------------------------------------------------------
(* The inductive invariant behind the safety properties.  Its parts are     *)
(* about process records, so that lemmas can follow one through a handler.  *)

\* In the pipe of r is a "reportInitialized" the master has not handled.
Announces(r) ==
  \E i \in DOMAIN r.toMaster : r.toMaster[i].type = "reportInitialized"

\* What a worker writes to the master: nothing before it boots, first of all
\* that it is initialised, and only plugins it holds itself.
PipeConsistent(r) ==
  /\ r.status = "booting" => r.toMaster = << >>
  /\ \A i \in DOMAIN r.toMaster :
       /\ r.toMaster[i].type = "reportInitialized" => i = 1
       /\ r.toMaster[i].type = "addDynamicPlugin" =>
            r.toMaster[i].plugin \in r.plugins

\* r is the occupant of its slot and nothing of it has reached the master.
NeverUp(r) ==
  r.toMaster = << >> /\ ~r.workerInitialized /\ r.status # "serving"

PipesConsistent == \A p \in Forked : PipeConsistent(proc[p])

\* The pool is within its limits and every open slot has been forked in.
SlotsConsistent ==
  /\ MinWorkers <= workersNum /\ workersNum <= MaxWorkers
  /\ \A p \in Forked : workers[proc[p].index] # NoProc
  /\ \A w \in Slot :
       /\ workers[w] \in 0 .. Len(proc)
       /\ workers[w] # NoProc => proc[workers[w]].index = w
       /\ w < workersNum => workers[w] # NoProc

\* In a slot that was never reopened too early the occupant's flag is its
\* own, every predecessor is reaped, and as long as one of these has something
\* left in its pipe the occupant has never been up.
SlotsSettled ==
  \A p \in Forked :
    proc[p].index \notin regrown =>
      /\ proc[p].status = "booting" => ~proc[p].workerInitialized
      /\ proc[p].workerInitialized => ~Announces(proc[p])
      /\ workers[proc[p].index] # p =>
           /\ proc[p].status = "reaped" /\ ~Announces(proc[p])
           /\ proc[p].toMaster # << >> => NeverUp(proc[workers[proc[p].index]])

SlotInv ==
  SlotsConsistent /\ PipesConsistent /\ SlotsSettled /\ ClosedSlotHasNoWorker

IInv == TypeOK /\ SlotInv /\ RememberedPluginsReachWorkers

\* A handler did to process record r no more than let it progress towards its
\* end, learn plugins, and lose or add one ordinary message of its pipe.
Quiet(r, s) ==
  /\ s.index = r.index /\ s.workerInitialized = r.workerInitialized
  /\ r.plugins \subseteq s.plugins
  /\ \/ s.status = r.status
     \/ r.status \in {"booting", "serving", "ending"}
        /\ s.status \in {"ending", "exited"}
     \/ s.status = "reaped"
  /\ \/ s.toMaster = r.toMaster
     \/ r.toMaster # << >> /\ s.toMaster = Tail(r.toMaster)
     \/ /\ r.status = "serving"
        /\ \E m \in MasterMessage :
             /\ s.toMaster = Append(r.toMaster, m)
             /\ m.type # "reportInitialized"
             /\ m.type = "addDynamicPlugin" => m.plugin \in s.plugins

(* ------------------- what the helpers on processes return --------------- *)

\* A sequence of processes rewritten place by place is one again.
LEMMA Rewritten ==
  ASSUME NEW ps \in Seq(Process), NEW qs,
         DOMAIN qs = DOMAIN ps, qs = [p \in DOMAIN ps |-> qs[p]],
         \A p \in DOMAIN ps : qs[p] \in Process
  PROVE  /\ qs \in Seq(Process)
         /\ Len(qs) = Len(ps)
PROOF
  <1>1. Len(ps) \in Nat /\ DOMAIN ps = 1 .. Len(ps)
    OBVIOUS
  <1>2. qs \in [1 .. Len(ps) -> Process]
    BY <1>1
  <1> QED
    BY <1>1, <1>2

\* kill() keeps every process a process.
LEMMA KillType ==
  ASSUME NEW ps \in Seq(Process), NEW P
  PROVE  /\ Kill(ps, P) \in Seq(Process)
         /\ Len(Kill(ps, P)) = Len(ps)
PROOF
  <1>1. \A p \in DOMAIN ps : ps[p] \in Process
    OBVIOUS
  <1>2. \A p \in DOMAIN ps : [ps[p] EXCEPT !.status = "ending"] \in Process
    BY <1>1 DEF Process
  <1>3. \A p \in DOMAIN ps : Kill(ps, P)[p] \in Process
    BY <1>1, <1>2 DEF Kill
  <1> QED
    BY <1>3, Rewritten DEF Kill

\* send() of notifications keeps every process a process.
LEMMA SendType ==
  ASSUME NEW ps \in Seq(Process), NEW P, NEW ms \in Seq(Notification)
  PROVE  /\ Send(ps, P, ms) \in Seq(Process)
         /\ Len(Send(ps, P, ms)) = Len(ps)
PROOF
  <1>1. \A p \in DOMAIN ps : ps[p] \in Process
    OBVIOUS
  <1>2. \A p \in DOMAIN ps : ps[p].toWorker \o ms \in Seq(Notification)
    BY <1>1 DEF Process
  <1>3. \A p \in DOMAIN ps : [ps[p] EXCEPT !.toWorker = @ \o ms] \in Process
    BY <1>1, <1>2 DEF Process
  <1>4. \A p \in DOMAIN ps : Send(ps, P, ms)[p] \in Process
    BY <1>1, <1>3 DEF Send
  <1> QED
    BY <1>4, Rewritten DEF Send

\* One process changed: the rest of the sequence stays as it is.
LEMMA OneChanged ==
  ASSUME TypeOK, NEW p \in Forked, NEW r \in Process
  PROVE  [proc EXCEPT ![p] = r] \in Seq(Process)
PROOF
  BY ExceptSeq DEF TypeOK, Forked

\* Taking a message off a channel.
LEMMA ReceiveType ==
  ASSUME TypeOK, NEW p \in Forked, proc[p].toMaster # << >>
  PROVE  /\ Receive(p) \in Seq(Process)
         /\ Len(Receive(p)) = Len(proc)
         /\ Head(proc[p].toMaster) \in MasterMessage
PROOF
  <1>0. proc[p] \in Process
    BY ElementOfSeq DEF TypeOK, Forked
  <1>1. proc[p].toMaster \in Seq(MasterMessage)
    BY <1>0 DEF Process
  <1>2. /\ Tail(proc[p].toMaster) \in Seq(MasterMessage)
        /\ Head(proc[p].toMaster) \in MasterMessage
    BY <1>1, HeadTailProperties
  <1>3. [proc[p] EXCEPT !.toMaster = Tail(@)] \in Process
    BY <1>0, <1>2 DEF Process
  <1> QED
    BY <1>2, <1>3, OneChanged DEF Receive, TypeOK, Forked

LEMMA NewWorkerType ==
  ASSUME NEW wi \in Slot
  PROVE  NewWorker(wi) \in Process
PROOF
  BY DEF NewWorker, Process

\* Forking a worker in a slot.
LEMMA StartWorkerType ==
  ASSUME TypeOK, NEW ps \in Seq(Process), NEW wi \in Slot, StartWorker(ps, wi)
  PROVE  proc' \in Seq(Process) /\ workers' \in [Slot -> Nat]
PROOF
  BY NewWorkerType DEF StartWorker, TypeOK

LEMMA LastOfType ==
  ASSUME NEW S, NEW s \in Seq(S), NEW n \in Nat
  PROVE  LastOf(s, n) \in Seq(S) /\ Len(LastOf(s, n)) <= n
PROOF
  <1>1. CASE Len(s) > n
    <2>1. \A i \in Len(s) - n + 1 .. Len(s) : s[i] \in S
      BY <1>1, ElementOfSeq
    <2> QED
      BY <1>1, <2>1, SubSeqProperties DEF LastOf
  <1>2. CASE ~(Len(s) > n)
    BY <1>2 DEF LastOf
  <1> QED
    BY <1>1, <1>2

LEMMA RestoreType ==
  ASSUME TypeOK
  PROVE  RestoreMessages \in Seq(Notification)
PROOF
  <1>1. \A i \in DOMAIN pluginDefsMap : pluginDefsMap[i] \in Plugin
    BY DEF TypeOK
  <1>2. \A i \in DOMAIN pluginDefsMap :
          [type |-> "addDynamicPlugin", plugin |-> pluginDefsMap[i]]
             \in Notification
    BY <1>1 DEF Notification
  <1>0. Len(pluginDefsMap) \in Nat
    BY DEF TypeOK
  <1>3. RestoreMessages \in [1 .. Len(pluginDefsMap) -> Notification]
    BY <1>2 DEF RestoreMessages, TypeOK
  <1> QED
    BY <1>0, <1>3

LEMMA GreetingType ==
  ASSUME TypeOK, NEW wi
  PROVE  /\ Greeting(wi) \in Seq(Notification)
         /\ \A x \in Remembered : \E j \in DOMAIN Greeting(wi) :
              Greeting(wi)[j] = [type |-> "addDynamicPlugin", plugin |-> x]
PROOF
  <1> DEFINE once == IF wi = 0 THEN <<[type |-> "initOnce"]>> ELSE << >>
  <1>1. once \in Seq(Notification)
    <2>1. [type |-> "initOnce"] \in Notification
      BY DEF Notification
    <2>2. <<[type |-> "initOnce"]>> \in Seq(Notification)
      BY <2>1
    <2> QED
      BY <2>2
  <1>2. RestoreMessages \in Seq(Notification)
    BY RestoreType
  <1>3. Greeting(wi) = once \o RestoreMessages
    BY DEF Greeting
  <1> HIDE DEF once
  <1>4. Greeting(wi) \in Seq(Notification)
    BY <1>1, <1>2, <1>3, ConcatProperties
  <1>5. ASSUME NEW x \in Remembered
        PROVE  \E j \in DOMAIN Greeting(wi) :
                 Greeting(wi)[j] = [type |-> "addDynamicPlugin", plugin |-> x]
    <2>1. PICK i \in DOMAIN pluginDefsMap : pluginDefsMap[i] = x
      BY DEF Remembered
    <2>2. /\ i \in DOMAIN RestoreMessages
          /\ RestoreMessages[i] = [type |-> "addDynamicPlugin", plugin |-> x]
      BY <2>1 DEF RestoreMessages
    <2>3. /\ Len(once) + i \in DOMAIN Greeting(wi)
          /\ Greeting(wi)[Len(once) + i] = RestoreMessages[i]
      BY <1>1, <1>2, <1>3, <2>2, ConcatProperties
    <2> QED
      BY <2>2, <2>3
  <1> QED
    BY <1>4, <1>5

\* The first workers are processes.
LEMMA InitType == Init => TypeOK
PROOF
  <1> SUFFICES ASSUME Init PROVE TypeOK
    OBVIOUS
  <1>1. \A p \in 1 .. MinWorkers : NewWorker(p - 1) \in Process
    BY ClusterAssumption, NewWorkerType DEF Slot
  <1>2. proc \in Seq(Process)
    BY <1>1, ClusterAssumption DEF Init
  <1>3. workers \in [Slot -> Nat] /\ workersNum \in Nat
    BY ClusterAssumption DEF Init, Slot, NoProc
  <1>4. budget \in Budget
    BY ClusterAssumption DEF Init, Budget
  <1>5. << >> \in Seq({-1, 0, 1}) /\ << >> \in Seq(Plugin)
    OBVIOUS
  <1> QED
    BY <1>2, <1>3, <1>4, <1>5 DEF Init, TypeOK

\* Every step keeps the types.
LEMMA StepType == TypeOK /\ [Next]_vars => TypeOK'
PROOF
  <1> SUFFICES ASSUME TypeOK, [Next]_vars PROVE TypeOK'
    OBVIOUS
  <1>1. \A p \in Forked : proc[p] \in Process
    BY DEF TypeOK, Forked
  <1>2. ASSUME NEW p \in Forked, Boot(p) PROVE TypeOK'
    <2>1. Append(proc[p].toMaster, [type |-> "reportInitialized"])
            \in Seq(MasterMessage)
      BY <1>1 DEF Process, MasterMessage
    <2>2. proc' \in Seq(Process)
      BY <1>1, <1>2, <2>1, OneChanged DEF Boot, Process
    <2> QED
      BY <1>2, <2>2 DEF Boot, TypeOK
  <1>3. ASSUME NEW p \in Forked, HandleNotification(p) PROVE TypeOK'
    <2> DEFINE m == Head(proc[p].toWorker)
               rest == [proc EXCEPT ![p].toWorker = Tail(@)]
    <2>1. m \in Notification /\ Tail(proc[p].toWorker) \in Seq(Notification)
      BY <1>1, <1>3, HeadTailProperties DEF HandleNotification, Process
    <2>2. rest \in Seq(Process) /\ DOMAIN rest = Forked
      BY <1>1, <2>1, OneChanged DEF Process, Forked
    <2>3. CASE m.type = "initOnce"
      BY <1>3, <2>2, <2>3 DEF HandleNotification, TypeOK
    <2>4. CASE m.type # "initOnce" /\ m.plugin \in proc[p].plugins
      BY <1>3, <2>2, <2>4, KillType DEF HandleNotification, TypeOK
    <2>5. CASE m.type # "initOnce" /\ m.plugin \notin proc[p].plugins
      <3>1. m.plugin \in Plugin
        BY <2>1, <2>5 DEF Notification
      <3>2. rest[p] \in Process
        BY <2>2, ElementOfSeq DEF Forked
      <3>3. [rest[p] EXCEPT !.plugins = @ \cup {m.plugin}] \in Process
        BY <3>1, <3>2 DEF Process
      <3>4. [rest EXCEPT ![p].plugins = @ \cup {m.plugin}] \in Seq(Process)
        BY <2>2, <3>3, ExceptSeq DEF Forked
      <3> QED
        BY <1>3, <2>5, <3>4 DEF HandleNotification, TypeOK
    <2> QED
      BY <2>3, <2>4, <2>5
  <1>4. ASSUME NEW p \in Forked, End(p) PROVE TypeOK'
    BY <1>1, <1>4, OneChanged DEF End, TypeOK, Process
  <1>5. ASSUME NEW p \in Forked, RequestReload(p) PROVE TypeOK'
    <2>1. Append(proc[p].toMaster, [type |-> "reloadAllWorkers"])
            \in Seq(MasterMessage)
      BY <1>1 DEF Process, MasterMessage
    <2>2. proc' \in Seq(Process)
      BY <1>1, <1>5, <2>1, OneChanged DEF RequestReload, Process
    <2>3. budget' \in Budget
      <3>1. budget \in Budget /\ budget.reloads > 0
        BY <1>5 DEF RequestReload, TypeOK
      <3>2. budget.reloads - 1 \in Nat
        BY <3>1 DEF Budget
      <3>3. budget' = [budget EXCEPT !.reloads = @ - 1]
        BY <1>5 DEF RequestReload
      <3> QED
        BY <3>1, <3>2, <3>3 DEF Budget
    <2> QED
      BY <1>5, <2>2, <2>3 DEF RequestReload, TypeOK
  <1>6. ASSUME NEW p \in Forked, NEW vote \in {-1, 0, 1},
               ReportCpuUsage(p, vote)
        PROVE TypeOK'
    <2>1. Append(proc[p].toMaster,
                 [type |-> "reportCpuUsage", vote |-> vote])
            \in Seq(MasterMessage)
      BY <1>1 DEF Process, MasterMessage
    <2>2. proc' \in Seq(Process)
      BY <1>1, <1>6, <2>1, OneChanged DEF ReportCpuUsage, Process
    <2>3. budget' \in Budget
      <3>1. budget \in Budget /\ budget.reports > 0
        BY <1>6 DEF ReportCpuUsage, TypeOK
      <3>2. budget.reports - 1 \in Nat
        BY <3>1 DEF Budget
      <3>3. budget' = [budget EXCEPT !.reports = @ - 1]
        BY <1>6 DEF ReportCpuUsage
      <3> QED
        BY <3>1, <3>2, <3>3 DEF Budget
    <2> QED
      BY <1>6, <2>2, <2>3 DEF ReportCpuUsage, TypeOK
  <1>7. ASSUME NEW p \in Forked, NEW x \in Plugin, NewPluginSubmitted(p, x)
        PROVE TypeOK'
    <2>1. Append(proc[p].toMaster,
                 [type |-> "addDynamicPlugin", plugin |-> x])
            \in Seq(MasterMessage)
      BY <1>1 DEF Process, MasterMessage
    <2>2. proc[p].plugins \cup {x} \in SUBSET Plugin
      BY <1>1 DEF Process
    <2>4. proc' \in Seq(Process)
      <3> DEFINE r ==
            [proc[p] EXCEPT
               !.plugins = @ \cup {x},
               !.toMaster =
                  Append(@, [type |-> "addDynamicPlugin", plugin |-> x])]
      <3>1. r \in Process
        BY <1>1, <2>1, <2>2 DEF Process
      <3>2. proc' = [proc EXCEPT ![p] = r]
        BY <1>7 DEF NewPluginSubmitted
      <3> QED
        BY <3>1, <3>2, OneChanged
    <2>3. budget' \in Budget
      <3>1. budget \in Budget /\ budget.submissions > 0
        BY <1>7 DEF NewPluginSubmitted, TypeOK
      <3>2. budget.submissions - 1 \in Nat
        BY <3>1 DEF Budget
      <3>3. budget' = [budget EXCEPT !.submissions = @ - 1]
        BY <1>7 DEF NewPluginSubmitted
      <3> QED
        BY <3>1, <3>2, <3>3 DEF Budget
    <2> QED
      BY <1>7, <2>3, <2>4 DEF NewPluginSubmitted, TypeOK
  <1>8. ASSUME NEW p \in Forked, NEW fatal \in BOOLEAN, Fail(p, fatal)
        PROVE TypeOK'
    <2>1. proc' \in Seq(Process)
      <3> DEFINE r == [proc[p] EXCEPT !.status = "exited", !.fatal = fatal]
      <3>1. r \in Process
        BY <1>1 DEF Process
      <3>2. proc' = [proc EXCEPT ![p] = r]
        BY <1>8 DEF Fail
      <3> QED
        BY <3>1, <3>2, OneChanged
    <2>2. budget' \in Budget
      <3>1. budget \in Budget /\ budget.failures > 0
        BY <1>8 DEF Fail, TypeOK
      <3>2. budget.failures - 1 \in Nat
        BY <3>1 DEF Budget
      <3>3. budget' = [budget EXCEPT !.failures = @ - 1]
        BY <1>8 DEF Fail
      <3> QED
        BY <3>1, <3>2, <3>3 DEF Budget
    <2> QED
      BY <1>8, <2>1, <2>2 DEF Fail, TypeOK
  <1>9. ASSUME SigInt PROVE TypeOK'
    BY <1>9, KillType DEF SigInt, TypeOK
  <1>10. ASSUME NEW p \in Forked, HandleExit(p) PROVE TypeOK'
    <2> DEFINE reaped == [proc EXCEPT ![p].status = "reaped"]
    <2>1. reaped \in Seq(Process)
      BY <1>1, OneChanged DEF Process
    <2>2. proc[p].index \in Slot
      BY <1>1 DEF Process
    <2>3. proc' \in Seq(Process) /\ workers' \in [Slot -> Nat]
            /\ masterExited' \in BOOLEAN
      BY <1>10, <2>1, <2>2, KillType, StartWorkerType
         DEF HandleExit, TypeOK
    <2> QED
      BY <1>10, <2>3 DEF HandleExit, TypeOK
  <1>11. ASSUME NEW p \in Forked, HandleReportInitialized(p) PROVE TypeOK'
    <2> DEFINE wi == proc[p].index
               marked == [Receive(p) EXCEPT
                            ![workers[wi]].workerInitialized = TRUE]
    <2>1. Receive(p) \in Seq(Process)
      BY <1>11, ReceiveType DEF HandleReportInitialized, NextMessageIs
    <2>2. marked \in Seq(Process)
      <3>1. CASE workers[wi] \in DOMAIN Receive(p)
        <4>1. Receive(p)[workers[wi]] \in Process
          BY <2>1, <3>1, ElementOfSeq
        <4>2. [Receive(p)[workers[wi]] EXCEPT !.workerInitialized = TRUE]
                \in Process
          BY <4>1 DEF Process
        <4> QED
          BY <2>1, <3>1, <4>2, ExceptSeq
      <3>2. CASE workers[wi] \notin DOMAIN Receive(p)
        <4>1. marked = Receive(p)
          BY <2>1, <3>2
        <4> QED
          BY <2>1, <4>1
      <3> QED
        BY <3>1, <3>2
    <2>3. Greeting(wi) \in Seq(Notification)
      BY GreetingType
    <2>4. proc' \in Seq(Process)
      BY <1>11, <2>2, <2>3, SendType DEF HandleReportInitialized
    <2> QED
      BY <1>11, <2>4 DEF HandleReportInitialized, TypeOK
  <1>12. ASSUME NEW p \in Forked, HandleAddDynamicPlugin(p) PROVE TypeOK'
    <2> DEFINE m == Head(proc[p].toMaster)
    <2>1. Receive(p) \in Seq(Process) /\ m \in MasterMessage
      BY <1>12, ReceiveType DEF HandleAddDynamicPlugin, NextMessageIs
    <2>2. m.plugin \in Plugin /\ m \in Notification
      BY <1>12, <2>1
         DEF HandleAddDynamicPlugin, NextMessageIs, MasterMessage, Notification
    <2>3. Remember(m.plugin) \in Seq(Plugin)
      BY <2>2 DEF Remember, TypeOK
    <2>4. proc' \in Seq(Process)
      <3>1. <<m>> \in Seq(Notification)
        BY <2>2
      <3> QED
        BY <1>12, <2>1, <3>1, SendType DEF HandleAddDynamicPlugin
    <2> QED
      BY <1>12, <2>3, <2>4 DEF HandleAddDynamicPlugin, TypeOK
  <1>13. ASSUME NEW p \in Forked, HandleReloadAllWorkers(p) PROVE TypeOK'
    BY <1>13, ReceiveType, KillType
       DEF HandleReloadAllWorkers, NextMessageIs, TypeOK
  <1>14. ASSUME NEW p \in Forked, HandleReportCpuUsage(p) PROVE TypeOK'
    <2> DEFINE ps == Receive(p)
               threshold == workersNum * WorkerChangeDecisionDelay
               pushed == Append(workerResourceRequests,
                                Head(proc[p].toMaster).vote)
               queue == LastOf(pushed, threshold)
    <2>1. ps \in Seq(Process) /\ Head(proc[p].toMaster) \in MasterMessage
      BY <1>14, ReceiveType DEF HandleReportCpuUsage, NextMessageIs
    <2>2. Head(proc[p].toMaster).vote \in {-1, 0, 1}
      BY <1>14, <2>1
         DEF HandleReportCpuUsage, NextMessageIs, MasterMessage
    <2>3. threshold \in Nat
      BY ClusterAssumption DEF TypeOK
    <2>4. queue \in Seq({-1, 0, 1})
      <3>1. pushed \in Seq({-1, 0, 1})
        BY <2>2 DEF TypeOK
      <3> QED
        BY <2>3, <3>1, LastOfType
    <2>5. ASSUME MoreWorkersWanted(queue), MoreWorker(ps)
          PROVE  /\ proc' \in Seq(Process) /\ workersNum' \in Nat
                 /\ workers' \in [Slot -> Nat] /\ regrown' \in SUBSET Slot
      <3>1. workersNum \in Slot
        BY <2>5, ClusterAssumption DEF MoreWorkersWanted, TypeOK, Slot
      <3>2. proc' \in Seq(Process) /\ workers' \in [Slot -> Nat]
        BY <2>1, <2>5, <3>1, StartWorkerType DEF MoreWorker
      <3> QED
        BY <2>5, <3>1, <3>2 DEF MoreWorker, TypeOK
    <2>6. ASSUME LessWorkersWanted(queue), LessWorker(ps)
          PROVE  /\ proc' \in Seq(Process) /\ workersNum' \in Nat
                 /\ workers' = workers /\ regrown' = regrown
      <3> DEFINE wi == workersNum - 1
                 marked == [ps EXCEPT ![workers[wi]].closed = TRUE]
      <3>1. marked \in Seq(Process)
        <4>1. CASE workers[wi] \in DOMAIN ps
          <5>1. [ps[workers[wi]] EXCEPT !.closed = TRUE] \in Process
            <6>1. ps[workers[wi]] \in Process
              BY <2>1, <4>1, ElementOfSeq
            <6> QED
              BY <6>1 DEF Process
          <5> QED
            BY <2>1, <4>1, <5>1, ExceptSeq
        <4>2. CASE workers[wi] \notin DOMAIN ps
          <5>1. marked = ps
            BY <2>1, <4>2
          <5> QED
            BY <2>1, <5>1
        <4> QED
          BY <4>1, <4>2
      <3>2. workersNum - 1 \in Nat
        BY <2>6, ClusterAssumption DEF LessWorkersWanted, TypeOK
      <3> QED
        BY <2>6, <3>1, <3>2, KillType DEF LessWorker
    <2> QED
      BY <1>14, <2>1, <2>4, <2>5, <2>6 DEF HandleReportCpuUsage, TypeOK
  <1> QED
    BY <1>2, <1>3, <1>4, <1>5, <1>6, <1>7, <1>8, <1>9, <1>10, <1>11, <1>12,
       <1>13, <1>14
       DEF Next, MasterStep, WorkerStep, Environment, vars, TypeOK

\* Every variable keeps its type: in particular no handler puts a process in
\* a slot the master has no room for, or a message on a channel that the
\* other side does not know.
THEOREM TypeCorrect == Spec => []TypeOK
PROOF
  BY InitType, StepType, PTL DEF Spec

-----------------------------------------------------------------------------
(* Lemmas for the inductive invariant *)

\* A quiet step keeps a pipe consistent and announces nothing new.
LEMMA QuietPipe ==
  ASSUME NEW r \in Process, NEW s \in Process, Quiet(r, s), PipeConsistent(r)
  PROVE  /\ PipeConsistent(s)
         /\ Announces(s) => Announces(r)
         /\ s.toMaster # << >> => r.toMaster # << >> \/ r.status = "serving"
PROOF
  <1>0. r.toMaster \in Seq(MasterMessage) /\ s.toMaster \in Seq(MasterMessage)
    BY DEF Process
  <1>1. CASE s.toMaster = r.toMaster
    BY <1>1 DEF Quiet, PipeConsistent, Announces
  <1>2. CASE r.toMaster # << >> /\ s.toMaster = Tail(r.toMaster)
    <2>1. /\ Len(s.toMaster) = Len(r.toMaster) - 1
          /\ \A i \in 1 .. Len(s.toMaster) : s.toMaster[i] = r.toMaster[i + 1]
      BY <1>0, <1>2, HeadTailProperties
    <2>2. \A i \in DOMAIN s.toMaster :
            /\ i + 1 \in DOMAIN r.toMaster
            /\ s.toMaster[i] = r.toMaster[i + 1]
      BY <1>0, <2>1
    <2>3. \A i \in DOMAIN s.toMaster :
            /\ s.toMaster[i].type # "reportInitialized"
            /\ s.toMaster[i].type = "addDynamicPlugin" =>
                 s.toMaster[i].plugin \in s.plugins
      <3> SUFFICES ASSUME NEW i \in DOMAIN s.toMaster
                   PROVE  /\ s.toMaster[i].type # "reportInitialized"
                          /\ s.toMaster[i].type = "addDynamicPlugin" =>
                               s.toMaster[i].plugin \in s.plugins
        OBVIOUS
      <3>1. i + 1 # 1
        BY <1>0
      <3>2. i + 1 \in DOMAIN r.toMaster /\ s.toMaster[i] = r.toMaster[i + 1]
        BY <2>2
      <3>3. r.plugins \subseteq s.plugins
        BY DEF Quiet
      <3> QED
        BY <3>1, <3>2, <3>3 DEF PipeConsistent
    <2>4. s.status # "booting"
      BY <1>2 DEF Quiet, PipeConsistent
    <2> QED
      BY <1>2, <2>3, <2>4 DEF PipeConsistent, Announces
  <1>3. CASE /\ r.status = "serving"
             /\ \E m \in MasterMessage :
                  /\ s.toMaster = Append(r.toMaster, m)
                  /\ m.type # "reportInitialized"
                  /\ m.type = "addDynamicPlugin" => m.plugin \in s.plugins
    <2>1. PICK m \in MasterMessage :
                  /\ s.toMaster = Append(r.toMaster, m)
                  /\ m.type # "reportInitialized"
                  /\ m.type = "addDynamicPlugin" => m.plugin \in s.plugins
      BY <1>3
    <2>2. \A i \in DOMAIN s.toMaster :
            \/ i \in DOMAIN r.toMaster /\ s.toMaster[i] = r.toMaster[i]
            \/ s.toMaster[i] = m
      BY <1>0, <2>1
    <2>3. s.status # "booting"
      BY <1>3 DEF Quiet
    <2> QED
      BY <1>3, <2>1, <2>2, <2>3 DEF PipeConsistent, Announces, Quiet
  <1> QED
    BY <1>1, <1>2, <1>3 DEF Quiet

\* A step that is quiet for every process, and closes no slot whose occupant
\* it leaves working, keeps the invariant of the slots.
LEMMA QuietStep ==
  ASSUME IInv, TypeOK', Len(proc') = Len(proc),
         \A q \in Forked : Quiet(proc[q], proc'[q]),
         workers' = workers, regrown' = regrown,
         MinWorkers <= workersNum', workersNum' <= workersNum,
         \A w \in Slot :
           w >= workersNum' /\ w < workersNum =>
             proc'[workers[w]].status \notin {"booting", "serving"}
  PROVE  SlotInv'
PROOF
  <1>1. Forked' = Forked /\ Forked = 1 .. Len(proc)
    BY DEF Forked, IInv, TypeOK
  <1>2. \A q \in Forked : proc[q] \in Process /\ proc'[q] \in Process
    BY <1>1, ElementOfSeq DEF Forked, IInv, TypeOK
  <1>3. \A q \in Forked :
          /\ PipeConsistent(proc'[q])
          /\ Announces(proc'[q]) => Announces(proc[q])
          /\ proc'[q].toMaster # << >> =>
               proc[q].toMaster # << >> \/ proc[q].status = "serving"
    BY <1>2, QuietPipe DEF IInv, SlotInv, PipesConsistent
  <1>4. PipesConsistent'
    BY <1>1, <1>3 DEF PipesConsistent
  <1>5. SlotsConsistent'
    <2>1. workersNum \in Nat /\ workersNum' \in Nat /\ MaxWorkers \in Nat
      BY ClusterAssumption DEF IInv, TypeOK
    <2>2. \A w \in Slot : workers[w] # NoProc => workers[w] \in Forked
      BY <1>1 DEF IInv, SlotInv, SlotsConsistent, NoProc, TypeOK
    <2> QED
      BY <1>1, <2>1, <2>2, ClusterAssumption
         DEF IInv, SlotInv, SlotsConsistent, Quiet, Slot
  <1>6. ClosedSlotHasNoWorker'
    <2> SUFFICES ASSUME NEW w \in Slot, w >= workersNum',
                        NEW q \in Forked, workers[w] = q,
                        proc'[q].status \in {"booting", "serving"}
                 PROVE  FALSE
      BY <1>1 DEF ClosedSlotHasNoWorker, OccupantIn
    <2>1. proc[q].status \in {"booting", "serving"}
      BY DEF Quiet
    <2>2. w < workersNum
      <3>1. w \in Int /\ workersNum \in Nat
        BY DEF IInv, TypeOK, Slot
      <3> QED
        BY <2>1, <3>1
           DEF IInv, SlotInv, ClosedSlotHasNoWorker, OccupantIn
    <2> QED
      BY <2>2
  <1>7. SlotsSettled'
    <2> SUFFICES ASSUME NEW q \in Forked, proc'[q].index \notin regrown
                 PROVE  /\ proc'[q].status = "booting" =>
                             ~proc'[q].workerInitialized
                        /\ proc'[q].workerInitialized => ~Announces(proc'[q])
                        /\ workers[proc'[q].index] # q =>
                             /\ proc'[q].status = "reaped"
                             /\ ~Announces(proc'[q])
                             /\ proc'[q].toMaster # << >> =>
                                  NeverUp(proc'[workers[proc'[q].index]])
      BY <1>1 DEF SlotsSettled
    <2> DEFINE w == proc[q].index
               o == workers[w]
    <2>1. proc'[q].index = w /\ w \in Slot
      BY <1>2 DEF Quiet, Process
    <2>2. o \in Forked
      BY <1>1, <2>1 DEF IInv, SlotInv, SlotsConsistent, NoProc
    <2>3. /\ proc[q].status = "booting" => ~proc[q].workerInitialized
          /\ proc[q].workerInitialized => ~Announces(proc[q])
          /\ o # q => /\ proc[q].status = "reaped" /\ ~Announces(proc[q])
                      /\ proc[q].toMaster # << >> => NeverUp(proc[o])
      BY <2>1 DEF IInv, SlotInv, SlotsSettled
    <2>4. NeverUp(proc[o]) => NeverUp(proc'[o])
      BY <1>2, <1>3, <2>2 DEF NeverUp, Quiet
    <2> QED
      BY <1>3, <2>1, <2>2, <2>3, <2>4 DEF Quiet
  <1> QED
    BY <1>4, <1>5, <1>6, <1>7 DEF SlotInv

\* A plugin on its way to, or held by, process record r.
Provided(r, x) ==
  \/ x \in r.plugins
  \/ \E i \in DOMAIN r.toWorker :
       r.toWorker[i] = [type |-> "addDynamicPlugin", plugin |-> x]

\* The remembered plugins stay provided if no process loses one, no flag is
\* set and no plugin is added.
LEMMA QuietRemembered ==
  ASSUME IInv, TypeOK', Len(proc') = Len(proc),
         \A q \in Forked :
           /\ Quiet(proc[q], proc'[q])
           /\ \/ proc'[q].status \notin {"booting", "serving"}
              \/ \A x \in Plugin : Provided(proc[q], x) => Provided(proc'[q], x),
         workers' = workers, regrown' = regrown, pluginDefsMap' = pluginDefsMap
  PROVE  RememberedPluginsReachWorkers'
PROOF
  <1>1. Forked' = Forked /\ Forked = 1 .. Len(proc)
    BY DEF Forked, IInv, TypeOK
  <1>2. Remembered' = Remembered /\ Remembered \subseteq Plugin
    BY DEF Remembered, IInv, TypeOK
  <1> SUFFICES ASSUME NEW w \in Slot \ regrown, NEW q \in Forked,
                      workers[w] = q,
                      proc'[q].status \in {"booting", "serving"},
                      proc'[q].workerInitialized,
                      NEW x \in Remembered
               PROVE  Provided(proc'[q], x)
    BY <1>1, <1>2 DEF RememberedPluginsReachWorkers, OccupantIn, Provided
  <1>3. proc[q].status \in {"booting", "serving"} /\ proc[q].workerInitialized
    BY DEF Quiet
  <1>4. Provided(proc[q], x)
    BY <1>3
       DEF IInv, RememberedPluginsReachWorkers, OccupantIn, Provided
  <1> QED
    BY <1>2, <1>4

\* What kill() does to one process.
LEMMA KillFacts ==
  ASSUME NEW ps \in Seq(Process), NEW P, NEW q \in DOMAIN ps
  PROVE  /\ q \in P =>
              Kill(ps, P)[q].status \notin {"booting", "serving"}
         /\ \/ Kill(ps, P)[q].status = ps[q].status
            \/ /\ ps[q].status \in {"booting", "serving"}
               /\ Kill(ps, P)[q].status = "ending"
         /\ Kill(ps, P)[q].index = ps[q].index
         /\ Kill(ps, P)[q].workerInitialized = ps[q].workerInitialized
         /\ Kill(ps, P)[q].plugins = ps[q].plugins
         /\ Kill(ps, P)[q].toMaster = ps[q].toMaster
         /\ Kill(ps, P)[q].toWorker = ps[q].toWorker
PROOF
  <1>1. ps[q] \in Process
    BY ElementOfSeq
  <1> QED
    BY <1>1 DEF Kill, Process

\* Two pieces of a channel, one after the other.
Joined(s, t) == s \o t

\* What send() does to one process.
LEMMA SendFacts ==
  ASSUME NEW ps \in Seq(Process), NEW P, NEW ms \in Seq(Notification),
         NEW q \in DOMAIN ps
  PROVE  /\ Send(ps, P, ms)[q].status = ps[q].status
         /\ Send(ps, P, ms)[q].index = ps[q].index
         /\ Send(ps, P, ms)[q].workerInitialized = ps[q].workerInitialized
         /\ Send(ps, P, ms)[q].plugins = ps[q].plugins
         /\ Send(ps, P, ms)[q].toMaster = ps[q].toMaster
         /\ \/ Send(ps, P, ms)[q].toWorker = ps[q].toWorker
            \/ Send(ps, P, ms)[q].toWorker = Joined(ps[q].toWorker, ms)
         /\ q \notin P => Send(ps, P, ms)[q].toWorker = ps[q].toWorker
         /\ q \in P /\ ps[q].status \in {"booting", "serving"} =>
              Send(ps, P, ms)[q].toWorker = Joined(ps[q].toWorker, ms)
PROOF
  <1>1. ps[q] \in Process
    BY ElementOfSeq
  <1> QED
    BY <1>1 DEF Send, Process, Joined

\* Taking a message off p's channel is quiet for every process.
LEMMA ReceiveFacts ==
  ASSUME TypeOK, NEW p \in Forked, proc[p].toMaster # << >>
  PROVE  /\ Receive(p) \in Seq(Process) /\ DOMAIN Receive(p) = Forked
         /\ Len(Receive(p)) = Len(proc)
         /\ \A q \in Forked :
              /\ Quiet(proc[q], Receive(p)[q])
              /\ Receive(p)[q].status = proc[q].status
              /\ Receive(p)[q].plugins = proc[q].plugins
              /\ Receive(p)[q].toWorker = proc[q].toWorker
              /\ Receive(p)[q].toMaster = IF q = p THEN Tail(proc[q].toMaster)
                                          ELSE proc[q].toMaster
PROOF
  <1>1. \A q \in Forked : proc[q] \in Process
    BY ElementOfSeq DEF TypeOK, Forked
  <1>2. Receive(p) \in Seq(Process) /\ Len(Receive(p)) = Len(proc)
          /\ DOMAIN Receive(p) = Forked
    BY ReceiveType DEF Receive, Forked
  <1>3. \A q \in Forked :
          Receive(p)[q] = IF q = p
                          THEN [proc[q] EXCEPT !.toMaster = Tail(@)]
                          ELSE proc[q]
    BY <1>1 DEF Receive, Forked
  <1> QED
    BY <1>1, <1>2, <1>3 DEF Quiet, Process

\* What is on its way stays so when more is sent.
LEMMA AppendedProvided ==
  ASSUME NEW r \in Process, NEW s \in Process, NEW ms \in Seq(Notification),
         s.plugins = r.plugins,
         s.toWorker = r.toWorker \/ s.toWorker = Joined(r.toWorker, ms),
         NEW x, Provided(r, x)
  PROVE  Provided(s, x)
PROOF
  <1>1. r.toWorker \in Seq(Notification)
    BY DEF Process
  <1>2. \A i \in DOMAIN r.toWorker :
          i \in DOMAIN s.toWorker /\ s.toWorker[i] = r.toWorker[i]
    <2>1. CASE s.toWorker = r.toWorker
      BY <2>1
    <2>2. CASE s.toWorker = Joined(r.toWorker, ms)
      BY <1>1, <2>2 DEF Joined
    <2> QED
      BY <2>1, <2>2
  <1> QED
    BY <1>2 DEF Provided

\* A message sent to a process is on its way to it.
LEMMA SentProvided ==
  ASSUME NEW r \in Process, NEW s \in Process, NEW ms \in Seq(Notification),
         s.toWorker = Joined(r.toWorker, ms),
         NEW x, NEW j \in DOMAIN ms,
         ms[j] = [type |-> "addDynamicPlugin", plugin |-> x]
  PROVE  Provided(s, x)
PROOF
  <1>1. r.toWorker \in Seq(Notification)
    BY DEF Process
  <1>2. /\ Len(r.toWorker) + j \in DOMAIN s.toWorker
        /\ s.toWorker[Len(r.toWorker) + j] = ms[j]
    BY <1>1, ConcatProperties DEF Joined
  <1> QED
    BY <1>2 DEF Provided

\* Forking a worker in an open slot whose former processes are done with, or
\* in one that is known as reopened too early.
LEMMA ForkStep ==
  ASSUME IInv, TypeOK',
         NEW wi \in Slot, NEW ps \in Seq(Process), Len(ps) = Len(proc),
         \A q \in Forked : /\ Quiet(proc[q], ps[q])
                           /\ ps[q].toWorker = proc[q].toWorker,
         StartWorker(ps, wi), pluginDefsMap' = pluginDefsMap,
         regrown \subseteq regrown',
         \/ workersNum' = workersNum /\ wi < workersNum
         \/ /\ wi = workersNum /\ workersNum < MaxWorkers
            /\ workersNum' = workersNum + 1,
         wi \notin regrown' =>
           \A q \in Forked : proc[q].index = wi =>
             ps[q].status = "reaped" /\ ~Announces(ps[q])
  PROVE  SlotInv' /\ RememberedPluginsReachWorkers'
PROOF
  <1> DEFINE n == Len(proc) + 1
  <1>1. /\ Forked = 1 .. Len(proc) /\ Forked' = 1 .. n /\ Len(proc) \in Nat
        /\ Len(proc') = n
        /\ proc'[n] = NewWorker(wi) /\ \A q \in Forked : proc'[q] = ps[q]
        /\ workers'[wi] = n
        /\ \A w \in Slot : w # wi => workers'[w] = workers[w]
    BY DEF Forked, StartWorker, IInv, TypeOK
  <1>2. \A q \in Forked : proc[q] \in Process /\ ps[q] \in Process
    BY <1>1, ElementOfSeq DEF IInv, TypeOK
  <1>3. \A q \in Forked :
          /\ PipeConsistent(ps[q])
          /\ Announces(ps[q]) => Announces(proc[q])
          /\ ps[q].toMaster # << >> =>
               proc[q].toMaster # << >> \/ proc[q].status = "serving"
    BY <1>1, <1>2, QuietPipe DEF IInv, SlotInv, PipesConsistent
  <1>4. /\ proc'[n].index = wi /\ proc'[n].status = "booting"
        /\ ~proc'[n].workerInitialized /\ proc'[n].toMaster = << >>
    BY <1>1 DEF NewWorker
  <1>5. PipesConsistent'
    <2>1. PipeConsistent(proc'[n])
      BY <1>4 DEF PipeConsistent
    <2> QED
      BY <1>1, <1>3, <2>1 DEF PipesConsistent
  <1>6. workersNum \in Nat /\ MaxWorkers \in Nat /\ MinWorkers \in Nat
    BY ClusterAssumption DEF IInv, TypeOK
  <1>7. SlotsConsistent'
    <2>1. MinWorkers <= workersNum' /\ workersNum' <= MaxWorkers
      BY <1>6 DEF IInv, SlotInv, SlotsConsistent
    <2>2. ASSUME NEW q \in Forked' PROVE workers'[proc'[q].index] # NoProc
      <3>1. CASE q = n
        BY <1>1, <1>4, <3>1 DEF NoProc
      <3>2. CASE q \in Forked
        <4>1. proc'[q].index = proc[q].index /\ proc[q].index \in Slot
          BY <1>1, <1>2, <3>2 DEF Quiet, Process
        <4> QED
          BY <1>1, <3>2, <4>1 DEF IInv, SlotInv, SlotsConsistent, NoProc
      <3> QED
        BY <1>1, <3>1, <3>2
    <2>3. ASSUME NEW w \in Slot
          PROVE  /\ workers'[w] \in 0 .. Len(proc')
                 /\ workers'[w] # NoProc => proc'[workers'[w]].index = w
                 /\ w < workersNum' => workers'[w] # NoProc
      <3>1. CASE w = wi
        BY <1>1, <1>4, <3>1 DEF NoProc
      <3>2. CASE w # wi
        <4>1. workers'[w] = workers[w] /\ workers[w] \in 0 .. Len(proc)
          BY <1>1, <3>2 DEF IInv, SlotInv, SlotsConsistent
        <4>2. workers[w] # NoProc => proc'[workers[w]].index = w
          BY <1>1, <4>1 DEF IInv, SlotInv, SlotsConsistent, NoProc, Quiet
        <4>3. w < workersNum' => w < workersNum
          BY <1>6, <3>2 DEF Slot
        <4> QED
          BY <1>1, <4>1, <4>2, <4>3 DEF IInv, SlotInv, SlotsConsistent
      <3> QED
        BY <3>1, <3>2
    <2> QED
      BY <2>1, <2>2, <2>3 DEF SlotsConsistent
  <1>8. ClosedSlotHasNoWorker'
    <2> SUFFICES ASSUME NEW w \in Slot, w >= workersNum',
                        NEW q \in Forked', workers'[w] = q,
                        proc'[q].status \in {"booting", "serving"}
                 PROVE  FALSE
      BY DEF ClosedSlotHasNoWorker, OccupantIn
    <2>1. w # wi /\ w >= workersNum
      BY <1>6 DEF Slot
    <2>2. workers[w] = q /\ q \in Forked
      BY <1>1, <2>1 DEF IInv, SlotInv, SlotsConsistent
    <2>3. proc[q].status \in {"booting", "serving"}
      BY <1>1, <2>2 DEF Quiet
    <2> QED
      BY <2>1, <2>2, <2>3
         DEF IInv, SlotInv, ClosedSlotHasNoWorker, OccupantIn
  <1>9. SlotsSettled'
    <2> SUFFICES ASSUME NEW q \in Forked', proc'[q].index \notin regrown'
                 PROVE  /\ proc'[q].status = "booting" =>
                             ~proc'[q].workerInitialized
                        /\ proc'[q].workerInitialized => ~Announces(proc'[q])
                        /\ workers'[proc'[q].index] # q =>
                             /\ proc'[q].status = "reaped"
                             /\ ~Announces(proc'[q])
                             /\ proc'[q].toMaster # << >> =>
                                  NeverUp(proc'[workers'[proc'[q].index]])
      BY DEF SlotsSettled
    <2>1. CASE q = n
      BY <1>1, <1>4, <2>1 DEF Announces
    <2>2. CASE q \in Forked
      <3> DEFINE w == proc[q].index
                 o == workers[w]
      <3>1. proc'[q] = ps[q] /\ ps[q].index = w /\ w \in Slot
        BY <1>1, <1>2, <2>2 DEF Quiet, Process
      <3>2. w \notin regrown
        BY <3>1
      <3>3. /\ proc[q].status = "booting" => ~proc[q].workerInitialized
            /\ proc[q].workerInitialized => ~Announces(proc[q])
            /\ o # q => /\ proc[q].status = "reaped" /\ ~Announces(proc[q])
                        /\ proc[q].toMaster # << >> => NeverUp(proc[o])
        BY <2>2, <3>2 DEF IInv, SlotInv, SlotsSettled
      <3>4. CASE w = wi
        <4>1. ps[q].status = "reaped" /\ ~Announces(ps[q])
          BY <2>2, <3>1, <3>4
        <4>2. NeverUp(proc'[workers'[w]])
          BY <1>1, <1>4, <3>4 DEF NeverUp
        <4> QED
          BY <3>1, <4>1, <4>2
      <3>5. CASE w # wi
        <4>1. o \in Forked /\ workers'[w] = o /\ proc'[o] = ps[o]
          BY <1>1, <2>2, <3>1, <3>5
             DEF IInv, SlotInv, SlotsConsistent, NoProc
        <4>2. NeverUp(proc[o]) => NeverUp(ps[o])
          BY <1>2, <1>3, <4>1 DEF NeverUp, Quiet
        <4> QED
          BY <1>3, <2>2, <3>1, <3>3, <4>1, <4>2 DEF Quiet
      <3> QED
        BY <3>4, <3>5
    <2> QED
      BY <1>1, <2>1, <2>2
  <1>10. RememberedPluginsReachWorkers'
    <2>1. Remembered' = Remembered /\ Remembered \subseteq Plugin
      BY DEF Remembered, IInv, TypeOK
    <2> SUFFICES ASSUME NEW w \in Slot \ regrown', NEW q \in Forked',
                        workers'[w] = q,
                        proc'[q].status \in {"booting", "serving"},
                        proc'[q].workerInitialized,
                        NEW x \in Remembered
                 PROVE  Provided(proc'[q], x)
      BY <2>1 DEF RememberedPluginsReachWorkers, OccupantIn, Provided
    <2>2. w # wi
      BY <1>1, <1>4
    <2>3. workers[w] = q /\ q \in Forked /\ proc'[q] = ps[q]
      BY <1>1, <2>2 DEF IInv, SlotInv, SlotsConsistent
    <2>4. proc[q].status \in {"booting", "serving"} /\ proc[q].workerInitialized
      BY <2>3 DEF Quiet
    <2>5. Provided(proc[q], x)
      BY <2>3, <2>4
         DEF IInv, RememberedPluginsReachWorkers, OccupantIn, Provided
    <2> QED
      BY <2>3, <2>5 DEF Provided, Quiet
  <1> QED
    BY <1>5, <1>7, <1>8, <1>9, <1>10 DEF SlotInv

-----------------------------------------------------------------------------
(* The steps of the invariant that are not quiet *)

\* A worker that boots announces itself: its slot's former pipes are drained.
LEMMA BootStep ==
  ASSUME IInv, TypeOK', NEW p \in Forked, Boot(p)
  PROVE  SlotInv' /\ RememberedPluginsReachWorkers'
PROOF
  <1>1. /\ Forked' = Forked /\ Forked = 1 .. Len(proc)
        /\ Len(proc') = Len(proc)
    BY DEF Boot, Forked, IInv, TypeOK
  <1>2. \A q \in Forked : proc[q] \in Process
    BY <1>1, ElementOfSeq DEF IInv, TypeOK
  <1>3. /\ proc[p].status = "booting" /\ proc[p].toMaster = << >>
        /\ proc[p].index \notin regrown =>
             ~proc[p].workerInitialized /\ workers[proc[p].index] = p
    BY DEF Boot, IInv, SlotInv, PipesConsistent, PipeConsistent, SlotsSettled
  <1>4. /\ proc'[p].status = "serving"
        /\ proc'[p].toMaster = <<[type |-> "reportInitialized"]>>
        /\ proc'[p].index = proc[p].index
        /\ proc'[p].workerInitialized = proc[p].workerInitialized
        /\ proc'[p].plugins = proc[p].plugins
        /\ proc'[p].toWorker = proc[p].toWorker
        /\ \A q \in Forked : q # p => proc'[q] = proc[q]
    BY <1>1, <1>2, <1>3 DEF Boot, Process
  <1>5. /\ workers' = workers /\ workersNum' = workersNum
        /\ regrown' = regrown /\ pluginDefsMap' = pluginDefsMap
    BY DEF Boot
  <1>6. PipesConsistent'
    <2>1. PipeConsistent(proc'[p])
      BY <1>4 DEF PipeConsistent
    <2> QED
      BY <1>1, <1>4, <2>1 DEF PipesConsistent, IInv, SlotInv
  <1>7. SlotsConsistent'
    BY <1>1, <1>4, <1>5 DEF IInv, SlotInv, SlotsConsistent, NoProc
  <1>8. ClosedSlotHasNoWorker'
    BY <1>1, <1>3, <1>4, <1>5
       DEF IInv, SlotInv, ClosedSlotHasNoWorker, OccupantIn
  <1>9. SlotsSettled'
    <2> SUFFICES ASSUME NEW q \in Forked, proc'[q].index \notin regrown
                 PROVE  /\ proc'[q].status = "booting" =>
                             ~proc'[q].workerInitialized
                        /\ proc'[q].workerInitialized => ~Announces(proc'[q])
                        /\ workers[proc'[q].index] # q =>
                             /\ proc'[q].status = "reaped"
                             /\ ~Announces(proc'[q])
                             /\ proc'[q].toMaster # << >> =>
                                  NeverUp(proc'[workers[proc'[q].index]])
      BY <1>1, <1>5 DEF SlotsSettled
    <2>1. CASE q = p
      BY <1>3, <1>4, <2>1
    <2>2. CASE q # p
      <3>1. proc'[q] = proc[q]
        BY <1>4, <2>2
      <3>2. /\ proc[q].status = "booting" => ~proc[q].workerInitialized
            /\ proc[q].workerInitialized => ~Announces(proc[q])
            /\ workers[proc[q].index] # q =>
                 /\ proc[q].status = "reaped" /\ ~Announces(proc[q])
                 /\ proc[q].toMaster # << >> =>
                      NeverUp(proc[workers[proc[q].index]])
        BY <3>1 DEF IInv, SlotInv, SlotsSettled
      <3>3. proc[q].status = "reaped" => proc[q].toMaster = << >>
        BY DEF Boot, Drained
      <3> QED
        BY <3>1, <3>2, <3>3
    <2> QED
      BY <2>1, <2>2
  <1>10. RememberedPluginsReachWorkers'
    <2>1. Remembered' = Remembered
      BY <1>5 DEF Remembered
    <2> SUFFICES ASSUME NEW w \in Slot \ regrown, NEW q \in Forked,
                        workers[w] = q,
                        proc'[q].status \in {"booting", "serving"},
                        proc'[q].workerInitialized,
                        NEW x \in Remembered
                 PROVE  Provided(proc'[q], x)
      BY <1>1, <1>5, <2>1
         DEF RememberedPluginsReachWorkers, OccupantIn, Provided
    <2>2. proc[q].status \in {"booting", "serving"} /\ proc[q].workerInitialized
      BY <1>3, <1>4
    <2>3. Provided(proc[q], x)
      BY <2>2
         DEF IInv, RememberedPluginsReachWorkers, OccupantIn, Provided
    <2> QED
      BY <1>4, <2>3 DEF Provided
  <1> QED
    BY <1>6, <1>7, <1>8, <1>9, <1>10 DEF SlotInv

\* The processes with the flag of process o set.
Mark(ps, o) == [ps EXCEPT ![o].workerInitialized = TRUE]

\* Setting the flag of process o changes nothing else.
LEMMA MarkedFacts ==
  ASSUME NEW ps \in Seq(Process), NEW o \in DOMAIN ps
  PROVE  /\ Mark(ps, o) \in Seq(Process) /\ DOMAIN Mark(ps, o) = DOMAIN ps
         /\ Len(Mark(ps, o)) = Len(ps)
         /\ Mark(ps, o)[o].workerInitialized
         /\ \A q \in DOMAIN ps :
              /\ Mark(ps, o)[q].status = ps[q].status
              /\ Mark(ps, o)[q].index = ps[q].index
              /\ Mark(ps, o)[q].plugins = ps[q].plugins
              /\ Mark(ps, o)[q].toMaster = ps[q].toMaster
              /\ Mark(ps, o)[q].toWorker = ps[q].toWorker
              /\ q # o => Mark(ps, o)[q].workerInitialized = ps[q].workerInitialized
PROOF
  <1> DEFINE r == [ps[o] EXCEPT !.workerInitialized = TRUE]
  <1>1. \A q \in DOMAIN ps : ps[q] \in Process
    BY ElementOfSeq
  <1>2. /\ r \in Process /\ r.workerInitialized
        /\ r.status = ps[o].status /\ r.index = ps[o].index
        /\ r.plugins = ps[o].plugins /\ r.toMaster = ps[o].toMaster
        /\ r.toWorker = ps[o].toWorker
    BY <1>1 DEF Process
  <1>3. Mark(ps, o) = [ps EXCEPT ![o] = r]
    BY DEF Mark
  <1> HIDE DEF r
  <1>4. Mark(ps, o) \in Seq(Process) /\ Len(Mark(ps, o)) = Len(ps)
    <2>1. o \in 1 .. Len(ps)
      OBVIOUS
    <2> QED
      BY <1>2, <1>3, <2>1, ExceptSeq
  <1>5. /\ DOMAIN Mark(ps, o) = DOMAIN ps /\ Mark(ps, o)[o] = r
        /\ \A q \in DOMAIN ps : q # o => Mark(ps, o)[q] = ps[q]
    BY <1>3
  <1>6. ASSUME NEW q \in DOMAIN ps
        PROVE  /\ Mark(ps, o)[q].status = ps[q].status
               /\ Mark(ps, o)[q].index = ps[q].index
               /\ Mark(ps, o)[q].plugins = ps[q].plugins
               /\ Mark(ps, o)[q].toMaster = ps[q].toMaster
               /\ Mark(ps, o)[q].toWorker = ps[q].toWorker
               /\ q # o =>
                    Mark(ps, o)[q].workerInitialized = ps[q].workerInitialized
    <2>1. CASE q = o
      BY <1>2, <1>5, <2>1
    <2>2. CASE q # o
      BY <1>5, <2>2
    <2> QED
      BY <2>1, <2>2
  <1> QED
    BY <1>2, <1>4, <1>5, <1>6

\* What HandleReportInitialized(p) does to each process.
LEMMA ReportInitializedFacts ==
  ASSUME IInv, NEW p \in Forked, HandleReportInitialized(p),
         NEW wi, wi = proc[p].index, NEW o, o = workers[wi]
  PROVE  /\ proc[p].toMaster # << >> /\ Announces(proc[p])
         /\ wi \in Slot /\ o \in Forked /\ proc[o].index = wi
         /\ Forked' = Forked /\ Len(proc') = Len(proc)
         /\ proc'[o].workerInitialized
         /\ proc[o].status \in {"booting", "serving"} =>
              proc'[o].toWorker = Joined(proc[o].toWorker, Greeting(wi))
         /\ \A q \in Forked :
              /\ proc'[q].status = proc[q].status
              /\ proc'[q].index = proc[q].index
              /\ proc'[q].plugins = proc[q].plugins
              /\ q # o => /\ proc'[q].toWorker = proc[q].toWorker
                          /\ proc'[q].workerInitialized =
                               proc[q].workerInitialized
              /\ q # p => proc'[q].toMaster = proc[q].toMaster
              /\ q = p => proc'[q].toMaster = Tail(proc[q].toMaster)
PROOF
  <1> DEFINE ps == Receive(p)
             marked == Mark(ps, o)
             ms == Greeting(wi)
  <1>1. TypeOK /\ proc[p].toMaster # << >> /\ Announces(proc[p])
    <2>1. proc[p].toMaster \in Seq(MasterMessage)
      <3>1. proc[p] \in Process
        BY ElementOfSeq DEF IInv, TypeOK, Forked
      <3> QED
        BY <3>1 DEF Process
    <2>2. 1 \in DOMAIN proc[p].toMaster
             /\ Head(proc[p].toMaster) = proc[p].toMaster[1]
      BY <2>1 DEF HandleReportInitialized, NextMessageIs
    <2> QED
      BY <2>2 DEF HandleReportInitialized, NextMessageIs, Announces, IInv
  <1>2. /\ ps \in Seq(Process) /\ DOMAIN ps = Forked /\ Len(ps) = Len(proc)
        /\ \A q \in Forked :
             /\ ps[q].index = proc[q].index
             /\ ps[q].workerInitialized = proc[q].workerInitialized
             /\ ps[q].status = proc[q].status
             /\ ps[q].plugins = proc[q].plugins
             /\ ps[q].toWorker = proc[q].toWorker
             /\ q # p => ps[q].toMaster = proc[q].toMaster
             /\ q = p => ps[q].toMaster = Tail(proc[q].toMaster)
    BY <1>1, ReceiveFacts DEF Quiet
  <1>3. wi \in Slot /\ o \in Forked /\ proc[o].index = wi
    <2>1. wi \in Slot
      <3>1. proc[p] \in Process
        BY ElementOfSeq DEF IInv, TypeOK, Forked
      <3> QED
        BY <3>1 DEF Process
    <2> QED
      BY <2>1 DEF IInv, SlotInv, SlotsConsistent, NoProc, TypeOK, Forked
  <1>4. ms \in Seq(Notification)
    BY <1>1, GreetingType
  <1>5. proc' = Send(marked, {o}, ms)
    BY DEF HandleReportInitialized, Mark
  <1> HIDE DEF ps, ms
  <1>6. /\ marked \in Seq(Process) /\ DOMAIN marked = Forked
        /\ Len(marked) = Len(ps)
        /\ marked[o].workerInitialized
        /\ \A q \in Forked :
             /\ marked[q].status = ps[q].status
             /\ marked[q].index = ps[q].index
             /\ marked[q].plugins = ps[q].plugins
             /\ marked[q].toMaster = ps[q].toMaster
             /\ marked[q].toWorker = ps[q].toWorker
             /\ q # o => marked[q].workerInitialized = ps[q].workerInitialized
    <2>1. o \in DOMAIN ps
      BY <1>2, <1>3
    <2>2. /\ marked \in Seq(Process) /\ DOMAIN marked = DOMAIN ps
          /\ Len(marked) = Len(ps)
          /\ marked[o].workerInitialized
      BY <1>2, <2>1, MarkedFacts
    <2>3. \A q \in DOMAIN ps :
             /\ marked[q].status = ps[q].status
             /\ marked[q].index = ps[q].index
             /\ marked[q].plugins = ps[q].plugins
             /\ marked[q].toMaster = ps[q].toMaster
             /\ marked[q].toWorker = ps[q].toWorker
             /\ q # o => marked[q].workerInitialized = ps[q].workerInitialized
      BY <1>2, <2>1, MarkedFacts
    <2> QED
      BY <1>2, <2>2, <2>3
  <1> HIDE DEF marked
  <1>7. \A q \in Forked :
          /\ proc'[q].status = marked[q].status
          /\ proc'[q].index = marked[q].index
          /\ proc'[q].workerInitialized = marked[q].workerInitialized
          /\ proc'[q].plugins = marked[q].plugins
          /\ proc'[q].toMaster = marked[q].toMaster
          /\ q # o => proc'[q].toWorker = marked[q].toWorker
          /\ q = o /\ marked[q].status \in {"booting", "serving"} =>
               proc'[q].toWorker = Joined(marked[q].toWorker, ms)
    BY <1>4, <1>5, <1>6, SendFacts
  <1>8. Len(proc') = Len(proc) /\ Forked' = Forked
    <2>1. proc' \in Seq(Process) /\ Len(proc') = Len(marked)
      BY <1>4, <1>5, <1>6, SendType
    <2>2. proc \in Seq(Process)
      BY <1>1 DEF TypeOK
    <2> QED
      BY <1>2, <1>6, <2>1, <2>2 DEF Forked
  <1>9. proc[o].status \in {"booting", "serving"} =>
          proc'[o].toWorker = Joined(proc[o].toWorker, ms)
    BY <1>2, <1>3, <1>6, <1>7
  <1>10. proc'[o].workerInitialized
    BY <1>3, <1>6, <1>7
  <1>11. \A q \in Forked :
              /\ proc'[q].status = proc[q].status
              /\ proc'[q].index = proc[q].index
              /\ proc'[q].plugins = proc[q].plugins
              /\ q # o => /\ proc'[q].toWorker = proc[q].toWorker
                          /\ proc'[q].workerInitialized =
                               proc[q].workerInitialized
              /\ q # p => proc'[q].toMaster = proc[q].toMaster
              /\ q = p => proc'[q].toMaster = Tail(proc[q].toMaster)
    BY <1>2, <1>6, <1>7
  <1> QED
    BY <1>1, <1>3, <1>8, <1>9, <1>10, <1>11 DEF ms

\* "reportInitialized" flags the slot's occupant and replays the remembered
\* plugins to it; in a settled slot that occupant is the sender.
LEMMA ReportInitializedStep ==
  ASSUME IInv, TypeOK', NEW p \in Forked, HandleReportInitialized(p),
         NEW wi, wi = proc[p].index, NEW o, o = workers[wi]
  PROVE  SlotInv' /\ RememberedPluginsReachWorkers'
PROOF
  <1>1. /\ proc[p].toMaster # << >> /\ Announces(proc[p])
        /\ wi \in Slot /\ o \in Forked /\ proc[o].index = wi
        /\ Forked' = Forked /\ Len(proc') = Len(proc)
        /\ proc'[o].workerInitialized
        /\ proc[o].status \in {"booting", "serving"} =>
             proc'[o].toWorker = Joined(proc[o].toWorker, Greeting(wi))
    BY ReportInitializedFacts
  <1>2. \A q \in Forked :
          /\ proc'[q].status = proc[q].status
          /\ proc'[q].index = proc[q].index
          /\ proc'[q].plugins = proc[q].plugins
          /\ q # o => /\ proc'[q].toWorker = proc[q].toWorker
                      /\ proc'[q].workerInitialized =
                           proc[q].workerInitialized
          /\ q # p => proc'[q].toMaster = proc[q].toMaster
          /\ q = p => proc'[q].toMaster = Tail(proc[q].toMaster)
    BY ReportInitializedFacts
  <1>3. \A q \in Forked : proc[q] \in Process /\ proc'[q] \in Process
    BY <1>1, ElementOfSeq DEF IInv, TypeOK, Forked
  <1>9. /\ workers' = workers /\ workersNum' = workersNum
        /\ regrown' = regrown /\ pluginDefsMap' = pluginDefsMap
    BY DEF HandleReportInitialized
  <1>10. \A i \in DOMAIN proc'[p].toMaster :
           /\ i + 1 \in DOMAIN proc[p].toMaster /\ i + 1 # 1
           /\ proc'[p].toMaster[i] = proc[p].toMaster[i + 1]
    <2>1. proc[p].toMaster \in Seq(MasterMessage)
      BY <1>3 DEF Process
    <2>2. proc'[p].toMaster = Tail(proc[p].toMaster)
      BY <1>2
    <2>3. /\ Len(proc'[p].toMaster) = Len(proc[p].toMaster) - 1
          /\ \A i \in 1 .. Len(proc'[p].toMaster) :
               proc'[p].toMaster[i] = proc[p].toMaster[i + 1]
      BY <1>1, <2>1, <2>2, HeadTailProperties
    <2>4. proc'[p].toMaster \in Seq(MasterMessage)
      BY <1>3 DEF Process
    <2>5. /\ DOMAIN proc[p].toMaster = 1 .. Len(proc[p].toMaster)
          /\ Len(proc[p].toMaster) \in Nat
          /\ DOMAIN proc'[p].toMaster = 1 .. Len(proc'[p].toMaster)
          /\ Len(proc'[p].toMaster) \in Nat
      BY <2>1, <2>4
    <2>6. \A i \in 1 .. Len(proc'[p].toMaster) :
            i + 1 \in 1 .. Len(proc[p].toMaster) /\ i + 1 # 1
      BY <2>3, <2>5
    <2> QED
      BY <2>3, <2>5, <2>6
  <1>11. ~Announces(proc'[p]) /\ PipeConsistent(proc'[p])
    <2>1. PipeConsistent(proc[p]) /\ proc'[p].status # "booting"
      BY <1>1, <1>2 DEF IInv, SlotInv, PipesConsistent, PipeConsistent
    <2> QED
      BY <1>2, <1>10, <2>1 DEF Announces, PipeConsistent
  <1>12. PipesConsistent'
    <2>1. ASSUME NEW q \in Forked, q # p PROVE PipeConsistent(proc'[q])
      <3>1. PipeConsistent(proc[q])
        BY DEF IInv, SlotInv, PipesConsistent
      <3>2. /\ proc'[q].status = proc[q].status
            /\ proc'[q].plugins = proc[q].plugins
            /\ proc'[q].toMaster = proc[q].toMaster
        BY <1>2, <2>1
      <3> QED
        BY <3>1, <3>2 DEF PipeConsistent
    <2> QED
      BY <1>1, <1>11, <2>1 DEF PipesConsistent
  <1>13. SlotsConsistent'
    <2>1. \A w \in Slot : workers[w] # NoProc => workers[w] \in Forked
      BY DEF IInv, SlotInv, SlotsConsistent, NoProc, TypeOK, Forked
    <2> QED
      BY <1>1, <1>2, <1>9, <2>1 DEF IInv, SlotInv, SlotsConsistent
  <1>14. ClosedSlotHasNoWorker'
    BY <1>1, <1>2, <1>9
       DEF IInv, SlotInv, ClosedSlotHasNoWorker, OccupantIn
  <1>16. SlotsSettled'
    <2> SUFFICES ASSUME NEW q \in Forked, proc'[q].index \notin regrown
                 PROVE  /\ proc'[q].status = "booting" =>
                             ~proc'[q].workerInitialized
                        /\ proc'[q].workerInitialized => ~Announces(proc'[q])
                        /\ workers[proc'[q].index] # q =>
                             /\ proc'[q].status = "reaped"
                             /\ ~Announces(proc'[q])
                             /\ proc'[q].toMaster # << >> =>
                                  NeverUp(proc'[workers[proc'[q].index]])
      BY <1>1, <1>9 DEF SlotsSettled
    <2> DEFINE w == proc[q].index
    <2>1. proc'[q].index = w /\ w \notin regrown
      BY <1>2
    <2>3. /\ proc[q].status = "booting" => ~proc[q].workerInitialized
          /\ proc[q].workerInitialized => ~Announces(proc[q])
          /\ workers[w] # q =>
               /\ proc[q].status = "reaped" /\ ~Announces(proc[q])
               /\ proc[q].toMaster # << >> => NeverUp(proc[workers[w]])
      BY <2>1 DEF IInv, SlotInv, SlotsSettled
    <2>4. CASE w = wi
      <3>1. o = p
        BY <1>1, <2>1, <2>4 DEF IInv, SlotInv, SlotsSettled
      <3>2. proc[p].status # "booting" /\ ~NeverUp(proc[p])
        BY <1>1
           DEF IInv, SlotInv, PipesConsistent, PipeConsistent, NeverUp
      <3>3. CASE q = p
        BY <1>2, <1>11, <2>1, <2>4, <3>1, <3>2, <3>3
      <3>4. CASE q # p
        <4>1. proc[q].toMaster = << >> /\ proc[q].status = "reaped"
          BY <2>3, <2>4, <3>1, <3>2, <3>4
        <4>2. proc'[q].toMaster = << >>
          BY <1>2, <3>4, <4>1
        <4>3. ~Announces(proc'[q])
          BY <4>2 DEF Announces
        <4>4. proc'[q].status = "reaped"
          BY <1>2, <4>1
        <4> QED
          BY <4>2, <4>3, <4>4
      <3> QED
        BY <3>3, <3>4
    <2>5. CASE w # wi
      <3>1. q # o /\ workers[w] # o /\ q # p /\ workers[w] # p
            /\ workers[w] \in Forked
        <4>1. w \in Slot
          BY <1>3 DEF Process
        <4>3. workers[w] \in Forked /\ proc[workers[w]].index = w
          BY <4>1 DEF IInv, SlotInv, SlotsConsistent, NoProc, TypeOK, Forked
        <4> QED
          BY <1>1, <2>5, <4>3
      <3>2. NeverUp(proc[workers[w]]) => NeverUp(proc'[workers[w]])
        BY <1>2, <3>1 DEF NeverUp
      <3>3. Announces(proc'[q]) => Announces(proc[q])
        BY <1>2, <3>1 DEF Announces
      <3>4. /\ proc'[q].status = proc[q].status
            /\ proc'[q].workerInitialized = proc[q].workerInitialized
            /\ proc'[q].toMaster = proc[q].toMaster
        BY <1>2, <3>1
      <3> QED
        BY <2>1, <2>3, <3>2, <3>3, <3>4
    <2> QED
      BY <2>4, <2>5
  <1>17. RememberedPluginsReachWorkers'
    <2>1. Remembered' = Remembered
      BY <1>9 DEF Remembered
    <2> SUFFICES ASSUME NEW w \in Slot \ regrown, NEW q \in Forked,
                        workers[w] = q,
                        proc'[q].status \in {"booting", "serving"},
                        proc'[q].workerInitialized,
                        NEW x \in Remembered
                 PROVE  Provided(proc'[q], x)
      BY <1>1, <1>9, <2>1
         DEF RememberedPluginsReachWorkers, OccupantIn, Provided
    <2>2. CASE q = o
      <3>1. PICK j \in DOMAIN Greeting(wi) :
              Greeting(wi)[j] = [type |-> "addDynamicPlugin", plugin |-> x]
        BY GreetingType DEF IInv
      <3>2. proc'[q].toWorker = Joined(proc[q].toWorker, Greeting(wi))
        BY <1>1, <1>2, <2>2
      <3>3. Greeting(wi) \in Seq(Notification)
        BY GreetingType DEF IInv
      <3> QED
        BY <1>3, <3>1, <3>2, <3>3, SentProvided
    <2>3. CASE q # o
      <3>1. proc[q].status \in {"booting", "serving"} /\ proc[q].workerInitialized
        BY <1>2, <2>3
      <3>2. Provided(proc[q], x)
        BY <3>1
           DEF IInv, RememberedPluginsReachWorkers, OccupantIn, Provided
      <3>3. /\ proc'[q].plugins = proc[q].plugins
            /\ proc'[q].toWorker = proc[q].toWorker
        BY <1>2, <2>3
      <3> QED
        BY <3>2, <3>3 DEF Provided
    <2> QED
      BY <2>2, <2>3
  <1> QED
    BY <1>12, <1>13, <1>14, <1>16, <1>17 DEF SlotInv

-----------------------------------------------------------------------------
(* The quiet steps of the invariant *)

\* Nothing, or a kill(), after a quiet change is quiet.
LEMMA QuietThen ==
  ASSUME NEW r, NEW s, NEW t, Quiet(r, s),
         t.index = s.index, t.workerInitialized = s.workerInitialized,
         t.plugins = s.plugins, t.toMaster = s.toMaster,
         \/ t.status = s.status
         \/ s.status \in {"booting", "serving"} /\ t.status = "ending"
  PROVE  Quiet(r, t)
PROOF
  BY DEF Quiet

LEMMA UnchangedQuiet ==
  ASSUME NEW r
  PROVE  Quiet(r, r)
PROOF
  BY DEF Quiet

\* One process changed quietly.
LEMMA OneQuiet ==
  ASSUME TypeOK, NEW p \in Forked, NEW r \in Process, Quiet(proc[p], r)
  PROVE  /\ [proc EXCEPT ![p] = r] \in Seq(Process)
         /\ Len([proc EXCEPT ![p] = r]) = Len(proc)
         /\ DOMAIN [proc EXCEPT ![p] = r] = Forked
         /\ [proc EXCEPT ![p] = r][p] = r
         /\ \A q \in Forked : Quiet(proc[q], [proc EXCEPT ![p] = r][q])
         /\ \A q \in Forked : q # p => [proc EXCEPT ![p] = r][q] = proc[q]
PROOF
  <1>1. p \in 1 .. Len(proc) /\ proc \in Seq(Process)
    BY DEF TypeOK, Forked
  <1>2. /\ [proc EXCEPT ![p] = r] \in Seq(Process)
        /\ Len([proc EXCEPT ![p] = r]) = Len(proc)
    BY <1>1, ExceptSeq
  <1>3. /\ [proc EXCEPT ![p] = r][p] = r
        /\ \A q \in Forked : q # p => [proc EXCEPT ![p] = r][q] = proc[q]
    BY DEF Forked
  <1>4. \A q \in Forked : Quiet(proc[q], [proc EXCEPT ![p] = r][q])
    BY <1>3, UnchangedQuiet
  <1> QED
    BY <1>2, <1>3, <1>4 DEF Forked

\* A quiet step that leaves the pool and the remembered plugins alone, and
\* takes no plugin from a worker in service, keeps the invariant.
LEMMA PassiveStep ==
  ASSUME IInv, TypeOK', Len(proc') = Len(proc),
         \A q \in Forked :
           /\ Quiet(proc[q], proc'[q])
           /\ \/ proc'[q].status \notin {"booting", "serving"}
              \/ proc'[q].toWorker = proc[q].toWorker,
         workers' = workers, workersNum' = workersNum, regrown' = regrown,
         pluginDefsMap' = pluginDefsMap
  PROVE  SlotInv' /\ RememberedPluginsReachWorkers'
PROOF
  <1>1. \A w \in Slot : ~(w >= workersNum' /\ w < workersNum)
    BY DEF IInv, TypeOK, Slot
  <1>2. MinWorkers <= workersNum' /\ workersNum' <= workersNum
    BY DEF IInv, SlotInv, SlotsConsistent, TypeOK
  <1>3. SlotInv'
    BY <1>1, <1>2, QuietStep
  <1>4. \A q \in Forked :
          \/ proc'[q].status \notin {"booting", "serving"}
          \/ \A x \in Plugin : Provided(proc[q], x) => Provided(proc'[q], x)
    BY DEF Provided, Quiet
  <1>5. RememberedPluginsReachWorkers'
    BY <1>4, QuietRemembered
  <1> QED
    BY <1>3, <1>5

\* The steps of a worker that write one ordinary message or end it.
LEMMA WorkerQuietStep ==
  ASSUME IInv, TypeOK', NEW p \in Forked, NEW r \in Process,
         Quiet(proc[p], r), proc' = [proc EXCEPT ![p] = r],
         \/ r.status \notin {"booting", "serving"}
         \/ r.toWorker = proc[p].toWorker,
         workers' = workers, workersNum' = workersNum, regrown' = regrown,
         pluginDefsMap' = pluginDefsMap
  PROVE  SlotInv' /\ RememberedPluginsReachWorkers'
PROOF
  <1>1. TypeOK
    BY DEF IInv
  <1>2. /\ Len(proc') = Len(proc) /\ proc'[p] = r
        /\ \A q \in Forked : Quiet(proc[q], proc'[q])
        /\ \A q \in Forked : q # p => proc'[q] = proc[q]
    BY <1>1, OneQuiet
  <1>3. \A q \in Forked :
          \/ proc'[q].status \notin {"booting", "serving"}
          \/ proc'[q].toWorker = proc[q].toWorker
    BY <1>2
  <1> QED
    BY <1>2, <1>3, PassiveStep

\* An ordinary message written to the pipe.
LEMMA WriteStep ==
  ASSUME IInv, TypeOK', NEW p \in Forked, NEW m \in MasterMessage,
         proc[p].status = "serving", m.type # "reportInitialized",
         NEW r, r.status = proc[p].status, r.index = proc[p].index,
         r.workerInitialized = proc[p].workerInitialized,
         r.toWorker = proc[p].toWorker, proc[p].plugins \subseteq r.plugins,
         m.type = "addDynamicPlugin" => m.plugin \in r.plugins,
         r.toMaster = Append(proc[p].toMaster, m), r \in Process,
         proc' = [proc EXCEPT ![p] = r],
         workers' = workers, workersNum' = workersNum, regrown' = regrown,
         pluginDefsMap' = pluginDefsMap
  PROVE  SlotInv' /\ RememberedPluginsReachWorkers'
PROOF
  <1>1. Quiet(proc[p], r)
    BY DEF Quiet
  <1> QED
    BY <1>1, WorkerQuietStep

LEMMA RequestReloadStep ==
  ASSUME IInv, TypeOK', NEW p \in Forked, RequestReload(p)
  PROVE  SlotInv' /\ RememberedPluginsReachWorkers'
PROOF
  <1> DEFINE m == [type |-> "reloadAllWorkers"]
             r == [proc[p] EXCEPT !.toMaster = Append(@, m)]
  <1>1. proc[p] \in Process
    BY ElementOfSeq DEF IInv, TypeOK, Forked
  <1>2. m \in MasterMessage /\ m.type = "reloadAllWorkers"
    BY DEF MasterMessage
  <1>3. proc' = [proc EXCEPT ![p] = r] /\ proc[p].status = "serving"
    BY DEF RequestReload
  <1>6. /\ workers' = workers /\ workersNum' = workersNum
        /\ regrown' = regrown /\ pluginDefsMap' = pluginDefsMap
    BY DEF RequestReload
  <1>4. r \in Process
    <2>1. Append(proc[p].toMaster, m) \in Seq(MasterMessage)
      BY <1>1, <1>2 DEF Process
    <2> HIDE DEF m
    <2> QED
      BY <1>1, <2>1 DEF Process
  <1>5. /\ r.status = proc[p].status /\ r.index = proc[p].index
        /\ r.workerInitialized = proc[p].workerInitialized
        /\ r.toWorker = proc[p].toWorker /\ proc[p].plugins = r.plugins
        /\ r.toMaster = Append(proc[p].toMaster, m)
    BY <1>1 DEF Process
  <1> HIDE DEF m, r
  <1> QED
    BY <1>2, <1>3, <1>4, <1>5, <1>6, WriteStep

LEMMA ReportCpuUsageStep ==
  ASSUME IInv, TypeOK', NEW p \in Forked, NEW vote \in {-1, 0, 1},
         ReportCpuUsage(p, vote)
  PROVE  SlotInv' /\ RememberedPluginsReachWorkers'
PROOF
  <1> DEFINE m == [type |-> "reportCpuUsage", vote |-> vote]
             r == [proc[p] EXCEPT !.toMaster = Append(@, m)]
  <1>1. proc[p] \in Process
    BY ElementOfSeq DEF IInv, TypeOK, Forked
  <1>2. m \in MasterMessage /\ m.type = "reportCpuUsage"
    BY DEF MasterMessage
  <1>3. proc' = [proc EXCEPT ![p] = r] /\ proc[p].status = "serving"
    BY DEF ReportCpuUsage
  <1>6. /\ workers' = workers /\ workersNum' = workersNum
        /\ regrown' = regrown /\ pluginDefsMap' = pluginDefsMap
    BY DEF ReportCpuUsage
  <1>4. r \in Process
    <2>1. Append(proc[p].toMaster, m) \in Seq(MasterMessage)
      BY <1>1, <1>2 DEF Process
    <2> HIDE DEF m
    <2> QED
      BY <1>1, <2>1 DEF Process
  <1>5. /\ r.status = proc[p].status /\ r.index = proc[p].index
        /\ r.workerInitialized = proc[p].workerInitialized
        /\ r.toWorker = proc[p].toWorker /\ proc[p].plugins = r.plugins
        /\ r.toMaster = Append(proc[p].toMaster, m)
    BY <1>1 DEF Process
  <1> HIDE DEF m, r
  <1> QED
    BY <1>2, <1>3, <1>4, <1>5, <1>6, WriteStep

LEMMA NewPluginSubmittedStep ==
  ASSUME IInv, TypeOK', NEW p \in Forked, NEW x \in Plugin,
         NewPluginSubmitted(p, x)
  PROVE  SlotInv' /\ RememberedPluginsReachWorkers'
PROOF
  <1> DEFINE m == [type |-> "addDynamicPlugin", plugin |-> x]
             r == [proc[p] EXCEPT !.plugins = @ \cup {x},
                                  !.toMaster = Append(@, m)]
  <1>1. proc[p] \in Process
    BY ElementOfSeq DEF IInv, TypeOK, Forked
  <1>2. m \in MasterMessage /\ m.type = "addDynamicPlugin" /\ m.plugin = x
    BY DEF MasterMessage
  <1>3. proc' = [proc EXCEPT ![p] = r] /\ proc[p].status = "serving"
    BY DEF NewPluginSubmitted
  <1>6. /\ workers' = workers /\ workersNum' = workersNum
        /\ regrown' = regrown /\ pluginDefsMap' = pluginDefsMap
    BY DEF NewPluginSubmitted
  <1>4. r \in Process
    <2>1. Append(proc[p].toMaster, m) \in Seq(MasterMessage)
      BY <1>1, <1>2 DEF Process
    <2>2. proc[p].plugins \cup {x} \in SUBSET Plugin
      BY <1>1 DEF Process
    <2> HIDE DEF m
    <2> QED
      BY <1>1, <2>1, <2>2 DEF Process
  <1>5. /\ r.status = proc[p].status /\ r.index = proc[p].index
        /\ r.workerInitialized = proc[p].workerInitialized
        /\ r.toWorker = proc[p].toWorker
        /\ proc[p].plugins \subseteq r.plugins /\ x \in r.plugins
        /\ r.toMaster = Append(proc[p].toMaster, m)
    BY <1>1 DEF Process
  <1> HIDE DEF m, r
  <1> QED
    BY <1>2, <1>3, <1>4, <1>5, <1>6, WriteStep

\* A worker that ends, whatever the reason.
LEMMA ExitedStep ==
  ASSUME IInv, TypeOK', NEW p \in Forked,
         (\E fatal \in BOOLEAN : Fail(p, fatal)) \/ End(p)
  PROVE  SlotInv' /\ RememberedPluginsReachWorkers'
PROOF
  <1>1. proc[p] \in Process
    BY ElementOfSeq DEF IInv, TypeOK, Forked
  <1>2. CASE End(p)
    <2> DEFINE r == [proc[p] EXCEPT !.status = "exited"]
    <2>1. proc' = [proc EXCEPT ![p] = r] /\ r \in Process
      BY <1>1, <1>2 DEF End, Process
    <2>2. Quiet(proc[p], r) /\ r.status = "exited"
      BY <1>1, <1>2 DEF End, Process, Quiet
    <2> HIDE DEF r
    <2> QED
      BY <1>2, <2>1, <2>2, WorkerQuietStep DEF End
  <1>3. ASSUME NEW fatal \in BOOLEAN, Fail(p, fatal)
        PROVE  SlotInv' /\ RememberedPluginsReachWorkers'
    <2> DEFINE r == [proc[p] EXCEPT !.status = "exited", !.fatal = fatal]
    <2>1. proc' = [proc EXCEPT ![p] = r] /\ r \in Process
      BY <1>1, <1>3 DEF Fail, Process
    <2>2. Quiet(proc[p], r) /\ r.status = "exited"
      BY <1>1, <1>3 DEF Fail, Alive, Process, Quiet
    <2> HIDE DEF r
    <2> QED
      BY <1>3, <2>1, <2>2, WorkerQuietStep DEF Fail
  <1> QED
    BY <1>2, <1>3

\* kill() of any processes after a quiet change.
LEMMA KillQuiet ==
  ASSUME TypeOK, NEW ps \in Seq(Process), Len(ps) = Len(proc), NEW P,
         \A q \in Forked : /\ Quiet(proc[q], ps[q])
                           /\ ps[q].toWorker = proc[q].toWorker
  PROVE  /\ Kill(ps, P) \in Seq(Process) /\ Len(Kill(ps, P)) = Len(proc)
         /\ \A q \in Forked : Quiet(proc[q], Kill(ps, P)[q])
         /\ \A q \in Forked : Kill(ps, P)[q].toWorker = proc[q].toWorker
         /\ \A q \in Forked : q \in P =>
              Kill(ps, P)[q].status \notin {"booting", "serving"}
PROOF
  <1>1. Kill(ps, P) \in Seq(Process) /\ Len(Kill(ps, P)) = Len(proc)
    BY KillType
  <1>2. Forked = DOMAIN ps
    BY DEF Forked, TypeOK
  <1>3. ASSUME NEW q \in Forked
        PROVE  /\ Quiet(proc[q], Kill(ps, P)[q])
               /\ Kill(ps, P)[q].toWorker = proc[q].toWorker
               /\ q \in P => Kill(ps, P)[q].status \notin {"booting", "serving"}
    <2>1. q \in DOMAIN ps
      BY <1>2
    <2>2. /\ q \in P => Kill(ps, P)[q].status \notin {"booting", "serving"}
          /\ \/ Kill(ps, P)[q].status = ps[q].status
             \/ /\ ps[q].status \in {"booting", "serving"}
                /\ Kill(ps, P)[q].status = "ending"
          /\ Kill(ps, P)[q].index = ps[q].index
          /\ Kill(ps, P)[q].workerInitialized = ps[q].workerInitialized
          /\ Kill(ps, P)[q].plugins = ps[q].plugins
          /\ Kill(ps, P)[q].toMaster = ps[q].toMaster
          /\ Kill(ps, P)[q].toWorker = ps[q].toWorker
      BY <2>1, KillFacts
    <2> QED
      BY <2>2, QuietThen
  <1> QED
    BY <1>1, <1>3

LEMMA SigIntStep ==
  ASSUME IInv, TypeOK', SigInt
  PROVE  SlotInv' /\ RememberedPluginsReachWorkers'
PROOF
  <1>1. PICK group : proc' = Kill(proc, group)
    BY DEF SigInt
  <1>2. \A q \in Forked :
          Quiet(proc[q], proc[q]) /\ proc[q].toWorker = proc[q].toWorker
    BY UnchangedQuiet
  <1>3. TypeOK /\ proc \in Seq(Process) /\ Len(proc) = Len(proc)
    BY DEF IInv, TypeOK
  <1>4. /\ Len(proc') = Len(proc)
        /\ \A q \in Forked : Quiet(proc[q], proc'[q])
        /\ \A q \in Forked : proc'[q].toWorker = proc[q].toWorker
    BY <1>1, <1>2, <1>3, KillQuiet
  <1> QED
    BY <1>4, PassiveStep DEF SigInt

\* reloadAllWorkers() only kills: the successors are forked by HandleExit.
LEMMA ReloadAllWorkersStep ==
  ASSUME IInv, TypeOK', NEW p \in Forked, HandleReloadAllWorkers(p)
  PROVE  SlotInv' /\ RememberedPluginsReachWorkers'
PROOF
  <1> DEFINE ps == Receive(p)
             P == Occupants(Slot)
  <1>1. TypeOK /\ proc[p].toMaster # << >> /\ proc' = Kill(ps, P)
    BY DEF IInv, HandleReloadAllWorkers, NextMessageIs
  <1>2. /\ ps \in Seq(Process) /\ Len(ps) = Len(proc)
        /\ \A q \in Forked : /\ Quiet(proc[q], ps[q])
                             /\ ps[q].toWorker = proc[q].toWorker
    BY <1>1, ReceiveFacts
  <1> HIDE DEF ps, P
  <1>3. /\ Len(proc') = Len(proc)
        /\ \A q \in Forked : Quiet(proc[q], proc'[q])
        /\ \A q \in Forked : proc'[q].toWorker = proc[q].toWorker
    BY <1>1, <1>2, KillQuiet
  <1> QED
    BY <1>3, PassiveStep DEF HandleReloadAllWorkers

\* What is left in the pipe after a notification was taken in.
LEMMA TailProvided ==
  ASSUME NEW r \in Process, NEW s \in Process, r.toWorker # << >>,
         s.toWorker = Tail(r.toWorker), r.plugins \subseteq s.plugins,
         NEW x, Provided(r, x),
         \/ Head(r.toWorker) # [type |-> "addDynamicPlugin", plugin |-> x]
         \/ x \in s.plugins
  PROVE  Provided(s, x)
PROOF
  <1>1. r.toWorker \in Seq(Notification) /\ s.toWorker \in Seq(Notification)
    BY DEF Process
  <1>2. CASE x \in s.plugins
    BY <1>2 DEF Provided
  <1>3. CASE x \notin s.plugins
    <2>1. PICK i \in DOMAIN r.toWorker :
            r.toWorker[i] = [type |-> "addDynamicPlugin", plugin |-> x]
      BY <1>3 DEF Provided
    <2>2. i \in 1 .. Len(r.toWorker) /\ Len(r.toWorker) \in Nat
      BY <1>1
    <2>3. i # 1
      BY <1>1, <1>3, <2>1
    <2>4. /\ Len(s.toWorker) = Len(r.toWorker) - 1
          /\ \A j \in 1 .. Len(s.toWorker) : s.toWorker[j] = r.toWorker[j + 1]
      BY <1>1, HeadTailProperties
    <2>5. i - 1 \in 1 .. Len(s.toWorker) /\ (i - 1) + 1 = i
      BY <2>2, <2>3, <2>4
    <2>6. i - 1 \in DOMAIN s.toWorker /\ s.toWorker[i - 1] = r.toWorker[i]
      BY <1>1, <2>4, <2>5
    <2> QED
      BY <2>1, <2>6 DEF Provided
  <1> QED
    BY <1>2, <1>3

\* A worker takes a plugin in, or ends itself over one it has.
LEMMA HandleNotificationStep ==
  ASSUME IInv, TypeOK', NEW p \in Forked, HandleNotification(p)
  PROVE  SlotInv' /\ RememberedPluginsReachWorkers'
PROOF
  <1> DEFINE m == Head(proc[p].toWorker)
             r == [proc[p] EXCEPT !.toWorker = Tail(@)]
             rest == [proc EXCEPT ![p] = r]
  <1>1. TypeOK /\ proc[p] \in Process /\ proc[p].toWorker # << >>
    BY ElementOfSeq DEF IInv, TypeOK, Forked, HandleNotification
  <1>2. /\ m \in Notification /\ Tail(proc[p].toWorker) \in Seq(Notification)
    BY <1>1, HeadTailProperties DEF Process
  <1>3. /\ r \in Process /\ r.toWorker = Tail(proc[p].toWorker)
        /\ r.status = proc[p].status /\ r.index = proc[p].index
        /\ r.workerInitialized = proc[p].workerInitialized
        /\ r.plugins = proc[p].plugins /\ r.toMaster = proc[p].toMaster
    BY <1>1, <1>2 DEF Process
  <1>4. /\ m.type = "initOnce" => proc' = rest
        /\ m.type # "initOnce" /\ m.plugin \in proc[p].plugins =>
             proc' = Kill(rest, {p})
        /\ m.type # "initOnce" /\ m.plugin \notin proc[p].plugins =>
             proc' = [rest EXCEPT ![p].plugins = @ \cup {m.plugin}]
    BY DEF HandleNotification
  <1>5. Quiet(proc[p], r)
    BY <1>3 DEF Quiet
  <1>6. /\ workers' = workers /\ workersNum' = workersNum
        /\ regrown' = regrown /\ pluginDefsMap' = pluginDefsMap
    BY DEF HandleNotification
  <1>7. /\ MinWorkers <= workersNum' /\ workersNum' <= workersNum
        /\ \A w \in Slot : ~(w >= workersNum' /\ w < workersNum)
    BY <1>6 DEF IInv, SlotInv, SlotsConsistent, TypeOK, Slot
  <1> HIDE DEF r
  <1>8. /\ rest \in Seq(Process) /\ Len(rest) = Len(proc)
        /\ DOMAIN rest = Forked /\ rest[p] = r
        /\ \A q \in Forked : Quiet(proc[q], rest[q])
        /\ \A q \in Forked : q # p => rest[q] = proc[q]
    BY <1>1, <1>3, <1>5, OneQuiet
  <1>9. ASSUME NEW s \in Process, proc' = [proc EXCEPT ![p] = s],
               Quiet(proc[p], s),
               s.toWorker = Tail(proc[p].toWorker),
               \A x : m = [type |-> "addDynamicPlugin", plugin |-> x] =>
                        x \in s.plugins
        PROVE  SlotInv' /\ RememberedPluginsReachWorkers'
    <2>1. /\ Len(proc') = Len(proc) /\ proc'[p] = s
          /\ \A q \in Forked : Quiet(proc[q], proc'[q])
          /\ \A q \in Forked : q # p => proc'[q] = proc[q]
      BY <1>1, <1>9, OneQuiet
    <2>2. ASSUME NEW q \in Forked, NEW x \in Plugin, Provided(proc[q], x)
          PROVE  Provided(proc'[q], x)
      <3>1. CASE q = p
        <4>1. proc[p].plugins \subseteq s.plugins
          BY <1>9 DEF Quiet
        <4> QED
          BY <1>1, <1>9, <2>1, <2>2, <3>1, <4>1, TailProvided
      <3>2. CASE q # p
        BY <2>1, <2>2, <3>2
      <3> QED
        BY <3>1, <3>2
    <2>3. SlotInv'
      BY <1>6, <1>7, <2>1, QuietStep
    <2>4. RememberedPluginsReachWorkers'
      BY <1>6, <2>1, <2>2, QuietRemembered
    <2> QED
      BY <2>3, <2>4
  <1>10. CASE m.type = "initOnce"
    <2>1. \A x : m # [type |-> "addDynamicPlugin", plugin |-> x]
      BY <1>10
    <2> QED
      BY <1>3, <1>4, <1>5, <1>9, <1>10, <2>1
  <1>11. CASE m.type # "initOnce" /\ m.plugin \in proc[p].plugins
    <2>1. proc' = Kill(rest, {p})
      BY <1>4, <1>11
    <2> HIDE DEF rest, m
    <2>2. ASSUME NEW q \in Forked
          PROVE  /\ Quiet(proc[q], proc'[q])
                 /\ \/ proc'[q].status \notin {"booting", "serving"}
                    \/ proc'[q].toWorker = proc[q].toWorker
      <3>1. q \in DOMAIN rest
        BY <1>8
      <3>2. /\ q \in {p} => proc'[q].status \notin {"booting", "serving"}
            /\ \/ proc'[q].status = rest[q].status
               \/ /\ rest[q].status \in {"booting", "serving"}
                  /\ proc'[q].status = "ending"
            /\ proc'[q].index = rest[q].index
            /\ proc'[q].workerInitialized = rest[q].workerInitialized
            /\ proc'[q].plugins = rest[q].plugins
            /\ proc'[q].toMaster = rest[q].toMaster
            /\ proc'[q].toWorker = rest[q].toWorker
        BY <1>8, <2>1, <3>1, KillFacts
      <3>3. Quiet(proc[q], proc'[q])
        BY <1>8, <3>2, QuietThen
      <3> QED
        BY <1>8, <3>2, <3>3
    <2>3. Len(proc') = Len(proc)
      BY <1>8, <2>1, KillType
    <2> QED
      BY <1>6, <2>2, <2>3, PassiveStep
  <1>12. CASE m.type # "initOnce" /\ m.plugin \notin proc[p].plugins
    <2> DEFINE s == [r EXCEPT !.plugins = @ \cup {m.plugin}]
    <2>1. m.plugin \in Plugin
      BY <1>2, <1>12 DEF Notification
    <2>2. r.plugins \cup {m.plugin} \in SUBSET Plugin
      BY <1>3, <2>1 DEF Process
    <2>3. /\ s \in Process /\ s.toWorker = r.toWorker
          /\ s.status = r.status /\ s.index = r.index
          /\ s.workerInitialized = r.workerInitialized
          /\ s.plugins = r.plugins \cup {m.plugin} /\ s.toMaster = r.toMaster
      BY <1>3, <2>2 DEF Process
    <2>4. proc' = [proc EXCEPT ![p] = s]
      <3>1. proc' = [rest EXCEPT ![p].plugins = @ \cup {m.plugin}]
        BY <1>4, <1>12
      <3>2. [rest EXCEPT ![p].plugins = @ \cup {m.plugin}]
              = [rest EXCEPT ![p] = s]
        BY <1>8
      <3> QED
        BY <3>1, <3>2
    <2>5. Quiet(proc[p], s)
      BY <1>3, <2>3 DEF Quiet
    <2>6. s.toWorker = Tail(proc[p].toWorker)
      BY <1>3, <2>3
    <2>7. \A x : m = [type |-> "addDynamicPlugin", plugin |-> x] =>
                   x \in s.plugins
      BY <2>3
    <2> HIDE DEF s, m
    <2> QED
      BY <1>9, <2>3, <2>4, <2>5, <2>6, <2>7
  <1> QED
    BY <1>10, <1>11, <1>12

\* A plugin becomes remembered: its sender holds it, the occupants of the
\* other slots are sent it, and a successor of the sender in its own slot has
\* not been up yet, since the sender's pipe was not drained.
LEMMA AddDynamicPluginStep ==
  ASSUME IInv, TypeOK', NEW p \in Forked, HandleAddDynamicPlugin(p)
  PROVE  SlotInv' /\ RememberedPluginsReachWorkers'
PROOF
  <1> DEFINE ps == Receive(p)
             m == Head(proc[p].toMaster)
             P == Occupants(Slot \ {proc[p].index})
             ms == <<m>>
  <1>1. TypeOK /\ proc[p].toMaster # << >> /\ m.type = "addDynamicPlugin"
    BY DEF IInv, HandleAddDynamicPlugin, NextMessageIs
  <1>2. \A q \in Forked : proc[q] \in Process
    BY <1>1, ElementOfSeq DEF TypeOK, Forked
  <1>3. /\ ps \in Seq(Process) /\ Len(ps) = Len(proc) /\ DOMAIN ps = Forked
        /\ \A q \in Forked : /\ Quiet(proc[q], ps[q])
                             /\ ps[q].status = proc[q].status
                             /\ ps[q].plugins = proc[q].plugins
                             /\ ps[q].toWorker = proc[q].toWorker
    BY <1>1, ReceiveFacts
  <1>4. /\ m \in MasterMessage /\ m.plugin \in Plugin
        /\ m = [type |-> "addDynamicPlugin", plugin |-> m.plugin]
    BY <1>1, ReceiveType DEF MasterMessage
  <1>5. ms \in Seq(Notification) /\ 1 \in DOMAIN ms /\ ms[1] = m
    <2>1. m \in Notification
      BY <1>4 DEF Notification
    <2> QED
      BY <2>1
  <1>6. proc' = Send(ps, P, ms)
    BY DEF HandleAddDynamicPlugin
  <1>7. /\ workers' = workers /\ workersNum' = workersNum
        /\ regrown' = regrown /\ pluginDefsMap' = Remember(m.plugin)
    BY DEF HandleAddDynamicPlugin
  <1> HIDE DEF ps, ms
  <1>8. /\ Len(proc') = Len(proc) /\ Forked' = Forked
        /\ Forked = 1 .. Len(proc)
    BY <1>1, <1>3, <1>5, <1>6, SendType DEF Forked, TypeOK
  <1>9. ASSUME NEW q \in Forked
        PROVE  /\ proc'[q].status = proc[q].status
               /\ proc'[q].plugins = proc[q].plugins
               /\ \/ proc'[q].toWorker = proc[q].toWorker
                  \/ proc'[q].toWorker = Joined(proc[q].toWorker, ms)
               /\ q \in P /\ proc[q].status \in {"booting", "serving"} =>
                    proc'[q].toWorker = Joined(proc[q].toWorker, ms)
               /\ Quiet(proc[q], proc'[q])
    <2>1. q \in DOMAIN ps
      BY <1>3
    <2>2. /\ proc'[q].status = ps[q].status
          /\ proc'[q].index = ps[q].index
          /\ proc'[q].workerInitialized = ps[q].workerInitialized
          /\ proc'[q].plugins = ps[q].plugins
          /\ proc'[q].toMaster = ps[q].toMaster
          /\ \/ proc'[q].toWorker = ps[q].toWorker
             \/ proc'[q].toWorker = Joined(ps[q].toWorker, ms)
          /\ q \in P /\ ps[q].status \in {"booting", "serving"} =>
               proc'[q].toWorker = Joined(ps[q].toWorker, ms)
      BY <1>3, <1>5, <1>6, <2>1, SendFacts
    <2>3. Quiet(proc[q], proc'[q])
      BY <1>3, <2>2, QuietThen
    <2> QED
      BY <1>3, <2>2, <2>3
  <1>10. SlotInv'
    <2>1. /\ MinWorkers <= workersNum' /\ workersNum' <= workersNum
          /\ \A w \in Slot : ~(w >= workersNum' /\ w < workersNum)
      BY <1>7 DEF IInv, SlotInv, SlotsConsistent, TypeOK, Slot
    <2> QED
      BY <1>7, <1>8, <1>9, <2>1, QuietStep
  <1>11. RememberedPluginsReachWorkers'
    <2>1. \A x \in Remembered' : x \in Remembered \/ x = m.plugin
      <3>1. pluginDefsMap \in Seq(Plugin)
        BY <1>1 DEF TypeOK
      <3>2. CASE m.plugin \in Remembered
        BY <1>7, <3>2 DEF Remembered, Remember
      <3>3. CASE m.plugin \notin Remembered
        <4>1. pluginDefsMap' = Append(pluginDefsMap, m.plugin)
          BY <1>7, <3>3 DEF Remember
        <4>2. \A i \in DOMAIN pluginDefsMap' :
                \/ i \in DOMAIN pluginDefsMap
                     /\ pluginDefsMap'[i] = pluginDefsMap[i]
                \/ pluginDefsMap'[i] = m.plugin
          BY <3>1, <4>1
        <4> QED
          BY <4>2 DEF Remembered
      <3> QED
        BY <3>2, <3>3
    <2> SUFFICES ASSUME NEW w \in Slot \ regrown, NEW q \in Forked,
                        workers[w] = q,
                        proc'[q].status \in {"booting", "serving"},
                        proc'[q].workerInitialized,
                        NEW x \in Remembered'
                 PROVE  Provided(proc'[q], x)
      BY <1>7, <1>8
         DEF RememberedPluginsReachWorkers, OccupantIn, Provided
    <2>2. proc[q].status \in {"booting", "serving"} /\ proc[q].workerInitialized
      BY <1>9 DEF Quiet
    <2>3. proc[q] \in Process /\ proc'[q] \in Process
      BY <1>2, <1>8, ElementOfSeq DEF TypeOK
    <2>4. CASE x \in Remembered
      <3>1. Provided(proc[q], x)
        BY <2>2, <2>4
           DEF IInv, RememberedPluginsReachWorkers, OccupantIn, Provided
      <3> QED
        BY <1>5, <1>9, <2>3, <3>1, AppendedProvided
    <2>5. CASE x = m.plugin /\ w # proc[p].index
      <3>1. q \in P
        BY <2>5 DEF Occupants
      <3>2. proc'[q].toWorker = Joined(proc[q].toWorker, ms)
        BY <1>9, <2>2, <3>1
      <3>3. ms[1] = [type |-> "addDynamicPlugin", plugin |-> x]
        BY <1>4, <1>5, <2>5
      <3> QED
        BY <1>5, <2>3, <3>2, <3>3, SentProvided
    <2>6. CASE x = m.plugin /\ w = proc[p].index
      <3>1. q = p
        <4>1. workers[w] # p => NeverUp(proc[workers[w]])
          BY <1>1, <2>6 DEF IInv, SlotInv, SlotsSettled
        <4> QED
          BY <2>2, <4>1 DEF NeverUp
      <3>2. x \in proc[p].plugins
        <4>1. proc[p].toMaster \in Seq(MasterMessage)
          BY <1>2 DEF Process
        <4>2. 1 \in DOMAIN proc[p].toMaster /\ m = proc[p].toMaster[1]
          BY <1>1, <4>1
        <4> QED
          BY <1>1, <2>6, <4>2
             DEF IInv, SlotInv, PipesConsistent, PipeConsistent
      <3> QED
        BY <1>9, <3>1, <3>2 DEF Provided
    <2> QED
      BY <2>1, <2>4, <2>5, <2>6
  <1> QED
    BY <1>10, <1>11

\* The exit listener: in a settled slot the occupant it looks at is the
\* process that exited, so a fork finds the slot's former processes done with.
LEMMA HandleExitStep ==
  ASSUME IInv, TypeOK', NEW p \in Forked, HandleExit(p)
  PROVE  SlotInv' /\ RememberedPluginsReachWorkers'
PROOF
  <1> DEFINE wi == proc[p].index
             r == [proc[p] EXCEPT !.status = "reaped"]
             reaped == [proc EXCEPT ![p] = r]
  <1>1. TypeOK /\ proc[p] \in Process /\ proc[p].status = "exited"
    BY ElementOfSeq DEF IInv, TypeOK, Forked, HandleExit
  <1>2. /\ r \in Process /\ r.status = "reaped"
        /\ r.toWorker = proc[p].toWorker /\ r.toMaster = proc[p].toMaster
        /\ Quiet(proc[p], r)
    BY <1>1 DEF Process, Quiet
  <1> HIDE DEF r
  <1>3. /\ reaped \in Seq(Process) /\ Len(reaped) = Len(proc)
        /\ reaped[p] = r
        /\ \A q \in Forked : Quiet(proc[q], reaped[q])
        /\ \A q \in Forked : q # p => reaped[q] = proc[q]
    BY <1>1, <1>2, OneQuiet
  <1>4. \A q \in Forked : reaped[q].toWorker = proc[q].toWorker
    BY <1>2, <1>3
  <1>5. /\ workersNum' = workersNum /\ pluginDefsMap' = pluginDefsMap
        /\ regrown' = regrown
    BY DEF HandleExit
  <1>6. \/ proc' = reaped /\ workers' = workers
        \/ proc' = Kill(reaped, Forked) /\ workers' = workers
        \/ /\ ~ExitIgnored(wi) /\ proc[workers[wi]].workerInitialized
           /\ StartWorker(reaped, wi)
    BY DEF HandleExit, r
  <1> HIDE DEF reaped
  <1>7. CASE proc' = reaped /\ workers' = workers
    <2>1. /\ Len(proc') = Len(proc)
          /\ \A q \in Forked : Quiet(proc[q], proc'[q])
          /\ \A q \in Forked : proc'[q].toWorker = proc[q].toWorker
      BY <1>3, <1>4, <1>7
    <2> QED
      BY <1>5, <1>7, <2>1, PassiveStep
  <1>8. CASE proc' = Kill(reaped, Forked) /\ workers' = workers
    <2>1. /\ Len(proc') = Len(proc)
          /\ \A q \in Forked : Quiet(proc[q], proc'[q])
          /\ \A q \in Forked : proc'[q].toWorker = proc[q].toWorker
      BY <1>1, <1>3, <1>4, <1>8, KillQuiet
    <2> QED
      BY <1>5, <1>8, <2>1, PassiveStep
  <1>9. CASE /\ ~ExitIgnored(wi) /\ proc[workers[wi]].workerInitialized
             /\ StartWorker(reaped, wi)
    <2>1. wi \in Slot /\ wi < workersNum
      <3>1. wi \in Slot /\ workersNum \in Nat
        BY <1>1 DEF Process, TypeOK
      <3>2. ~(wi >= workersNum) /\ wi \in Int
        BY <1>9, <3>1 DEF ExitIgnored, Slot
      <3> HIDE DEF wi
      <3> QED
        BY <3>1, <3>2
    <2>2. ASSUME wi \notin regrown, NEW q \in Forked, proc[q].index = wi
          PROVE  reaped[q].status = "reaped" /\ ~Announces(reaped[q])
      <3>1. workers[wi] = p
        BY <1>1, <2>2 DEF IInv, SlotInv, SlotsSettled
      <3>2. CASE q = p
        <4>1. ~Announces(proc[p])
          BY <1>9, <2>2, <3>1 DEF IInv, SlotInv, SlotsSettled
        <4>2. ~Announces(reaped[p])
          BY <1>2, <1>3, <4>1 DEF Announces
        <4> QED
          BY <1>2, <1>3, <3>2, <4>2
      <3>3. CASE q # p
        <4>1. proc[q].status = "reaped" /\ ~Announces(proc[q])
          BY <2>2, <3>1, <3>3 DEF IInv, SlotInv, SlotsSettled
        <4> QED
          BY <1>3, <3>3, <4>1
      <3> QED
        BY <3>2, <3>3
    <2>3. \A q \in Forked : /\ Quiet(proc[q], reaped[q])
                            /\ reaped[q].toWorker = proc[q].toWorker
      BY <1>3, <1>4
    <2> HIDE DEF wi
    <2> QED
      BY <1>3, <1>5, <1>9, <2>1, <2>2, <2>3, ForkStep
  <1> QED
    BY <1>6, <1>7, <1>8, <1>9

\* A CPU report: the pool is widened, narrowed or left as it is.
LEMMA HandleReportCpuUsageStep ==
  ASSUME IInv, TypeOK', NEW p \in Forked, HandleReportCpuUsage(p)
  PROVE  SlotInv' /\ RememberedPluginsReachWorkers'
PROOF
  <1> DEFINE ps == Receive(p)
             threshold == workersNum * WorkerChangeDecisionDelay
             pushed == Append(workerResourceRequests,
                              Head(proc[p].toMaster).vote)
             queue == LastOf(pushed, threshold)
  <1>1. TypeOK /\ proc[p].toMaster # << >>
    BY DEF IInv, HandleReportCpuUsage, NextMessageIs
  <1>2. /\ ps \in Seq(Process) /\ Len(ps) = Len(proc) /\ DOMAIN ps = Forked
        /\ \A q \in Forked : /\ Quiet(proc[q], ps[q])
                             /\ ps[q].toWorker = proc[q].toWorker
    BY <1>1, ReceiveFacts
  <1>3. pluginDefsMap' = pluginDefsMap
    BY DEF HandleReportCpuUsage
  <1>4. \/ MoreWorkersWanted(queue) /\ MoreWorker(ps)
        \/ LessWorkersWanted(queue) /\ LessWorker(ps)
        \/ proc' = ps /\ UNCHANGED <<workersNum, workers, regrown>>
    BY DEF HandleReportCpuUsage
  <1>5. workersNum \in Nat /\ MinWorkers \in Nat \ {0} /\ MaxWorkers \in Nat
        /\ workersNum <= MaxWorkers
    BY <1>1, ClusterAssumption DEF TypeOK, IInv, SlotInv, SlotsConsistent
  <1> HIDE DEF ps, queue
  <1>6. CASE MoreWorkersWanted(queue) /\ MoreWorker(ps)
    <2>1. workersNum < MaxWorkers /\ workersNum \in Slot
      BY <1>5, <1>6 DEF MoreWorkersWanted, Slot
    <2>2. /\ workersNum' = workersNum + 1 /\ StartWorker(ps, workersNum)
          /\ regrown \subseteq regrown'
      BY <1>6 DEF MoreWorker
    <2>3. ASSUME workersNum \notin regrown', NEW q \in Forked,
                 proc[q].index = workersNum
          PROVE  ps[q].status = "reaped" /\ ~Announces(ps[q])
      <3>1. ps[q].index = workersNum
        BY <1>2, <2>3 DEF Quiet
      <3>2. ps[q].status = "reaped" /\ ps[q].toMaster = << >>
        BY <1>2, <1>6, <2>3, <3>1 DEF MoreWorker
      <3> QED
        BY <3>2 DEF Announces
    <2> QED
      BY <1>2, <1>3, <2>1, <2>2, <2>3, ForkStep
  <1>7. CASE LessWorkersWanted(queue) /\ LessWorker(ps)
    <2> DEFINE wi == workersNum - 1
               o == workers[wi]
               c == [ps[o] EXCEPT !.closed = TRUE]
               marked == [ps EXCEPT ![o] = c]
    <2>1. MinWorkers <= wi /\ wi \in Slot /\ wi < workersNum
      BY <1>5, <1>7 DEF LessWorkersWanted, Slot
    <2>2. o \in Forked
      BY <1>1, <2>1 DEF IInv, SlotInv, SlotsConsistent, NoProc, TypeOK, Forked
    <2>3. ps[o] \in Process
      BY <1>2, <2>2, ElementOfSeq
    <2>4. /\ c \in Process /\ c.status = ps[o].status
          /\ c.index = ps[o].index
          /\ c.workerInitialized = ps[o].workerInitialized
          /\ c.plugins = ps[o].plugins /\ c.toMaster = ps[o].toMaster
          /\ c.toWorker = ps[o].toWorker
      BY <2>3 DEF Process
    <2>5. /\ workersNum' = wi /\ workers' = workers /\ regrown' = regrown
          /\ proc' = Kill(marked, {o})
      BY <1>7 DEF LessWorker
    <2> HIDE DEF c
    <2>6. marked \in Seq(Process) /\ Len(marked) = Len(proc)
      <3>1. o \in 1 .. Len(ps)
        BY <1>2, <2>2
      <3> QED
        BY <1>2, <2>4, <3>1, ExceptSeq
    <2>7. marked[o] = c /\ \A q \in Forked : q # o => marked[q] = ps[q]
      BY <1>2, <2>2
    <2> HIDE DEF marked
    <2>8. ASSUME NEW q \in Forked
          PROVE  /\ Quiet(proc[q], marked[q])
                 /\ marked[q].toWorker = proc[q].toWorker
      <3>1. CASE q = o
        <4>1. Quiet(proc[o], ps[o]) /\ ps[o].toWorker = proc[o].toWorker
          BY <1>2, <2>2
        <4>2. Quiet(proc[o], c)
          BY <2>4, <4>1, QuietThen
        <4> QED
          BY <2>4, <2>7, <3>1, <4>1, <4>2
      <3>2. CASE q # o
        BY <1>2, <2>7, <3>2
      <3> QED
        BY <3>1, <3>2
    <2>9. /\ Len(proc') = Len(proc)
          /\ \A q \in Forked : Quiet(proc[q], proc'[q])
          /\ \A q \in Forked : proc'[q].toWorker = proc[q].toWorker
          /\ proc'[o].status \notin {"booting", "serving"}
      BY <1>1, <2>2, <2>5, <2>6, <2>8, KillQuiet
    <2>10. \A w \in Slot : w >= wi /\ w < workersNum => w = wi
      BY <1>5 DEF Slot
    <2>11. SlotInv'
      <3>1. MinWorkers <= workersNum' /\ workersNum' <= workersNum
        BY <1>5, <2>1, <2>5
      <3>2. \A w \in Slot : w >= workersNum' /\ w < workersNum =>
              proc'[workers[w]].status \notin {"booting", "serving"}
        BY <2>5, <2>9, <2>10
      <3> QED
        BY <2>5, <2>9, <3>1, <3>2, QuietStep
    <2>12. RememberedPluginsReachWorkers'
      <3>1. \A q \in Forked : \A x \in Plugin :
              Provided(proc[q], x) => Provided(proc'[q], x)
        BY <2>9 DEF Provided, Quiet
      <3> QED
        BY <1>3, <2>5, <2>9, <3>1, QuietRemembered
    <2> QED
      BY <2>11, <2>12
  <1>8. CASE proc' = ps /\ UNCHANGED <<workersNum, workers, regrown>>
    BY <1>2, <1>3, <1>8, PassiveStep
  <1> QED
    BY <1>4, <1>6, <1>7, <1>8

-----------------------------------------------------------------------------
(* The theorems *)

\* The invariant holds when the first workers are forked.
LEMMA InitIInv == Init => IInv
PROOF
  <1> SUFFICES ASSUME Init PROVE IInv
    OBVIOUS
  <1>1. TypeOK
    BY InitType
  <1>2. /\ Forked = 1 .. MinWorkers /\ Len(proc) = MinWorkers
        /\ \A p \in Forked : /\ proc[p].index = p - 1
                             /\ proc[p].status = "booting"
                             /\ ~proc[p].workerInitialized
                             /\ proc[p].toMaster = << >>
    BY ClusterAssumption DEF Init, Forked, NewWorker
  <1>3. /\ workersNum = MinWorkers /\ MinWorkers \in Nat \ {0}
        /\ MaxWorkers \in Nat /\ MinWorkers <= MaxWorkers
    BY ClusterAssumption DEF Init
  <1>4. \A w \in Slot : workers[w] = IF w < MinWorkers THEN w + 1 ELSE 0
    BY DEF Init, NoProc
  <1>5. SlotsConsistent
    <2>1. \A p \in Forked : proc[p].index \in Slot /\ workers[proc[p].index] = p
      BY <1>2, <1>3, <1>4 DEF Slot
    <2>2. \A w \in Slot :
            /\ workers[w] \in 0 .. Len(proc)
            /\ workers[w] # 0 => proc[workers[w]].index = w
            /\ w < workersNum => workers[w] # 0
      BY <1>2, <1>3, <1>4 DEF Slot
    <2> QED
      BY <1>2, <1>3, <2>1, <2>2 DEF SlotsConsistent, NoProc
  <1>6. PipesConsistent
    BY <1>2 DEF PipesConsistent, PipeConsistent
  <1>7. SlotsSettled
    BY <1>2, <1>3, <1>4 DEF SlotsSettled, Announces, Slot
  <1>8. ClosedSlotHasNoWorker
    <2>1. \A w \in Slot : w >= workersNum => workers[w] \notin Forked
      BY <1>2, <1>3, <1>4 DEF Slot
    <2> QED
      BY <2>1 DEF ClosedSlotHasNoWorker, OccupantIn
  <1>9. RememberedPluginsReachWorkers
    <2>1. pluginDefsMap = << >>
      BY DEF Init
    <2>2. Len(pluginDefsMap) = 0 /\ DOMAIN pluginDefsMap = {}
      BY <2>1
    <2>3. Remembered = {}
      BY <2>2 DEF Remembered
    <2> QED
      BY <2>3 DEF RememberedPluginsReachWorkers
  <1> QED
    BY <1>1, <1>5, <1>6, <1>7, <1>8, <1>9 DEF IInv, SlotInv

\* Every step keeps the invariant: one lemma per action.
LEMMA StepIInv == IInv /\ [Next]_vars => IInv'
PROOF
  <1> SUFFICES ASSUME IInv, [Next]_vars PROVE IInv'
    OBVIOUS
  <1>1. TypeOK'
    BY StepType DEF IInv
  <1>2. CASE UNCHANGED vars
    BY <1>2 DEF vars, IInv, TypeOK, SlotInv, SlotsConsistent, PipesConsistent,
       SlotsSettled, ClosedSlotHasNoWorker, OccupantIn, Forked, Remembered,
       RememberedPluginsReachWorkers, PipeConsistent, Announces, NeverUp
  <1>3. CASE SigInt
    BY <1>1, <1>3, SigIntStep DEF IInv
  <1>4. CASE MasterStep
    <2> SUFFICES ASSUME NEW p \in Forked,
                        \/ HandleExit(p)
                        \/ HandleReportInitialized(p)
                        \/ HandleAddDynamicPlugin(p)
                        \/ HandleReloadAllWorkers(p)
                        \/ HandleReportCpuUsage(p)
                 PROVE  SlotInv' /\ RememberedPluginsReachWorkers'
      BY <1>1, <1>4 DEF MasterStep, IInv
    <2>1. CASE HandleExit(p)
      BY <1>1, <2>1, HandleExitStep
    <2>2. CASE HandleReportInitialized(p)
      BY <1>1, <2>2, ReportInitializedStep
    <2>3. CASE HandleAddDynamicPlugin(p)
      BY <1>1, <2>3, AddDynamicPluginStep
    <2>4. CASE HandleReloadAllWorkers(p)
      BY <1>1, <2>4, ReloadAllWorkersStep
    <2>5. CASE HandleReportCpuUsage(p)
      BY <1>1, <2>5, HandleReportCpuUsageStep
    <2> QED
      BY <2>1, <2>2, <2>3, <2>4, <2>5
  <1>5. CASE WorkerStep
    <2> SUFFICES ASSUME NEW p \in Forked,
                        Boot(p) \/ HandleNotification(p) \/ End(p)
                 PROVE  SlotInv' /\ RememberedPluginsReachWorkers'
      BY <1>1, <1>5 DEF WorkerStep, IInv
    <2>1. CASE Boot(p)
      BY <1>1, <2>1, BootStep
    <2>2. CASE HandleNotification(p)
      BY <1>1, <2>2, HandleNotificationStep
    <2>3. CASE End(p)
      BY <1>1, <2>3, ExitedStep
    <2> QED
      BY <2>1, <2>2, <2>3
  <1>6. ASSUME NEW p \in Forked,
               \/ RequestReload(p)
               \/ \E vote \in {-1, 0, 1} : ReportCpuUsage(p, vote)
               \/ \E x \in Plugin : NewPluginSubmitted(p, x)
               \/ \E fatal \in BOOLEAN : Fail(p, fatal)
        PROVE  SlotInv' /\ RememberedPluginsReachWorkers'
    <2>1. CASE RequestReload(p)
      BY <1>1, <2>1, RequestReloadStep
    <2>2. CASE \E vote \in {-1, 0, 1} : ReportCpuUsage(p, vote)
      BY <1>1, <2>2, ReportCpuUsageStep
    <2>3. CASE \E x \in Plugin : NewPluginSubmitted(p, x)
      BY <1>1, <2>3, NewPluginSubmittedStep
    <2>4. CASE \E fatal \in BOOLEAN : Fail(p, fatal)
      BY <1>1, <2>4, ExitedStep
    <2> QED
      BY <1>6, <2>1, <2>2, <2>3, <2>4
  <1>7. CASE Environment
    BY <1>1, <1>3, <1>6, <1>7 DEF Environment, IInv
  <1> QED
    BY <1>2, <1>4, <1>5, <1>7 DEF Next

\* The inductive invariant holds in every reachable state.
THEOREM Invariance == Spec => []IInv
PROOF
  BY InitIInv, StepIInv, PTL DEF Spec

\* Whatever exits, restarts, reloads and resizes interleave, no worker that
\* lessWorker() did not end is left in a slot beyond workersNum.
THEOREM ClosedSlots == Spec => []ClosedSlotHasNoWorker
PROOF
  <1>1. IInv => ClosedSlotHasNoWorker
    BY DEF IInv, SlotInv
  <1> QED
    BY <1>1, Invariance, PTL

\* A slot that was not reopened too early never has a second live process:
\* the array workers[] names every worker the master has to reach.
THEOREM SlotsHaveOneWorker == Spec => []OneWorkerPerSlot
PROOF
  <1>1. IInv => OneWorkerPerSlot
    BY DEF IInv, SlotInv, SlotsSettled, OneWorkerPerSlot, Unkilled
  <1> QED
    BY <1>1, Invariance, PTL

\* Broadcast and replay together leave no initialised worker without a
\* remembered plugin.
THEOREM RememberedPluginsReach == Spec => []RememberedPluginsReachWorkers
PROOF
  <1>1. IInv => RememberedPluginsReachWorkers
    BY DEF IInv
  <1> QED
    BY <1>1, Invariance, PTL

\* A window of n votes out of more than n has n votes.
LEMMA LastOfWindow ==
  ASSUME NEW S, NEW s \in Seq(S), NEW n \in Nat, Len(s) > n
  PROVE  LastOf(s, n) \in [1 .. n -> S]
PROOF
  <1>1. \A i \in Len(s) - n + 1 .. Len(s) : s[i] \in S
    BY ElementOfSeq
  <1>2. LastOf(s, n) = SubSeq(s, Len(s) - n + 1, Len(s))
    BY DEF LastOf
  <1>3. /\ Len(s) - n + 1 \in 1 .. Len(s) + 1
        /\ Len(s) \in Len(s) - n .. Len(s)
        /\ Len(s) - (Len(s) - n + 1) + 1 = n
    OBVIOUS
  <1>4. /\ LastOf(s, n) \in Seq(S)
        /\ Len(LastOf(s, n)) = n
    BY <1>1, <1>2, <1>3, SubSeqProperties
  <1> QED
    BY <1>4

LEMMA TimesMonotone ==
  ASSUME NEW a \in Nat, NEW b \in Nat, NEW d \in Nat, a <= b
  PROVE  a * d <= b * d
PROOF
  <1>1. (b - a) * d >= 0
    BY Z3
  <1>2. (b - a) * d = b * d - a * d
    BY Z3
  <1> QED
    BY <1>1, <1>2, Z3

\* Only the queue's handler resizes the pool or changes the queue.
LEMMA OthersKeepQueue ==
  ASSUME [Next]_vars, \A p \in Forked : ~HandleReportCpuUsage(p)
  PROVE  UNCHANGED <<workersNum, workerResourceRequests>>
PROOF
  BY DEF Next, MasterStep, WorkerStep, Environment, vars, SigInt, Boot,
     HandleNotification, End, RequestReload, ReportCpuUsage,
     NewPluginSubmitted, Fail, HandleExit, HandleReportInitialized,
     HandleAddDynamicPlugin, HandleReloadAllWorkers

\* The queue after a vote, and what a resize says of it.
LEMMA QueueAfterVote ==
  ASSUME TypeOK, NEW p \in Forked, HandleReportCpuUsage(p)
  PROVE  /\ Len(workerResourceRequests') <=
              workersNum * WorkerChangeDecisionDelay
         /\ workersNum' # workersNum =>
              /\ workersNum' - workersNum \in {-1, 1}
              /\ workerResourceRequests' =
                   [i \in 1 .. workersNum * WorkerChangeDecisionDelay |->
                      workersNum' - workersNum]
PROOF
  <1> DEFINE vote == Head(proc[p].toMaster).vote
             threshold == workersNum * WorkerChangeDecisionDelay
             pushed == Append(workerResourceRequests, vote)
             queue == LastOf(pushed, threshold)
             grow == Len(pushed) > threshold /\ MoreWorkersWanted(queue)
             shrink == Len(pushed) > threshold /\ LessWorkersWanted(queue)
  <1>1. vote \in {-1, 0, 1}
    <2>1. Head(proc[p].toMaster) \in MasterMessage
      BY ReceiveType DEF HandleReportCpuUsage, NextMessageIs
    <2> QED
      BY <2>1 DEF HandleReportCpuUsage, NextMessageIs, MasterMessage
  <1>2. threshold \in Nat /\ workersNum \in Nat
    BY ClusterAssumption DEF TypeOK
  <1>3. pushed \in Seq({-1, 0, 1})
    BY <1>1 DEF TypeOK
  <1>4. /\ workerResourceRequests' = queue
        /\ \/ grow /\ workersNum' = workersNum + 1
           \/ shrink /\ workersNum' = workersNum - 1
           \/ workersNum' = workersNum
    BY DEF HandleReportCpuUsage, MoreWorker, LessWorker
  <1>5. Len(queue) <= threshold
    BY <1>2, <1>3, LastOfType
  <1>6. ASSUME Len(pushed) > threshold
        PROVE  queue \in [1 .. threshold -> {-1, 0, 1}]
    BY <1>2, <1>3, <1>6, LastOfWindow
  <1> HIDE DEF vote, threshold, pushed, queue
  <1>7. CASE grow /\ workersNum' = workersNum + 1
    <2>1. \A i \in 1 .. threshold : queue[i] = 1
      BY <1>6, <1>7 DEF MoreWorkersWanted, AllAre
    <2>2. queue = [i \in 1 .. threshold |-> 1]
      BY <1>6, <1>7, <2>1
    <2>3. workersNum' - workersNum = 1
      BY <1>2, <1>7
    <2> QED
      BY <1>4, <1>5, <2>2, <2>3 DEF threshold
  <1>8. CASE shrink /\ workersNum' = workersNum - 1
    <2>1. \A i \in 1 .. threshold : queue[i] = -1
      BY <1>6, <1>8 DEF LessWorkersWanted, AllAre
    <2>2. queue = [i \in 1 .. threshold |-> -1]
      BY <1>6, <1>8, <2>1
    <2>3. workersNum' - workersNum = -1
      BY <1>2, <1>8
    <2> QED
      BY <1>4, <1>5, <2>2, <2>3 DEF threshold
  <1>9. CASE workersNum' = workersNum
    BY <1>4, <1>5, <1>9 DEF threshold
  <1> QED
    BY <1>4, <1>7, <1>8, <1>9

\* The pool and the queue of votes stay within their limits.
THEOREM PoolLimits == Spec => []PoolWithinLimits
PROOF
  <1> DEFINE L == Len(workerResourceRequests) <=
                    MaxWorkers * WorkerChangeDecisionDelay
  <1>1. Init => L
    <2>1. 0 <= MaxWorkers * WorkerChangeDecisionDelay
      BY ClusterAssumption, TimesMonotone
    <2> QED
      BY <2>1 DEF Init
  <1>2. IInv /\ L /\ [Next]_vars => L'
    <2> SUFFICES ASSUME IInv, L, [Next]_vars PROVE L'
      OBVIOUS
    <2>1. CASE \A p \in Forked : ~HandleReportCpuUsage(p)
      BY <2>1, OthersKeepQueue
    <2>2. ASSUME NEW p \in Forked, HandleReportCpuUsage(p) PROVE L'
      <3>1. Len(workerResourceRequests') <=
              workersNum * WorkerChangeDecisionDelay
        BY <2>2, QueueAfterVote DEF IInv
      <3>2. workersNum * WorkerChangeDecisionDelay <=
              MaxWorkers * WorkerChangeDecisionDelay
        BY ClusterAssumption, TimesMonotone
           DEF IInv, TypeOK, SlotInv, SlotsConsistent
      <3>3. /\ workersNum * WorkerChangeDecisionDelay \in Nat
            /\ MaxWorkers * WorkerChangeDecisionDelay \in Nat
            /\ Len(workerResourceRequests') \in Nat
        <4>1. TypeOK'
          BY StepType DEF IInv
        <4> QED
          BY <4>1, ClusterAssumption DEF IInv, TypeOK
      <3> QED
        BY <3>1, <3>2, <3>3
    <2> QED
      BY <2>1, <2>2
  <1>3. IInv /\ L => PoolWithinLimits
    BY DEF IInv, SlotInv, SlotsConsistent, PoolWithinLimits
  <1> HIDE DEF L
  <1> QED
    BY <1>1, <1>2, <1>3, Invariance, PTL DEF Spec

\* The pool is resized by one, and only by a full unanimous window.
THEOREM ResizesAreUnanimous == Spec => ResizeNeedsUnanimousWindow
PROOF
  <1> DEFINE A == workersNum' # workersNum =>
                    /\ workersNum' - workersNum \in {-1, 1}
                    /\ workerResourceRequests' =
                         [i \in 1 .. workersNum * WorkerChangeDecisionDelay |->
                            workersNum' - workersNum]
  <1>1. TypeOK /\ [Next]_vars => A
    BY OthersKeepQueue, QueueAfterVote
  <1> HIDE DEF A
  <1>2. Spec => [][A]_vars
    BY <1>1, TypeCorrect, PTL DEF Spec
  <1> QED
    BY <1>2 DEF A, ResizeNeedsUnanimousWindow

\* A fork is the exit listener's, before SIGINT, or widens the pool.
LEMMA ForkWhen ==
  ASSUME TypeOK, [Next]_vars, stoppingProcess
  PROVE  Len(proc') = Len(proc) \/ workersNum' = workersNum + 1
PROOF
  <1>0. ASSUME DOMAIN proc' = DOMAIN proc PROVE Len(proc') = Len(proc)
    <2>1. /\ proc \in Seq(Process) /\ proc' \in Seq(Process)
      BY StepType DEF TypeOK
    <2>2. /\ DOMAIN proc = 1 .. Len(proc) /\ Len(proc) \in Nat
          /\ DOMAIN proc' = 1 .. Len(proc') /\ Len(proc') \in Nat
      BY <2>1
    <2> QED
      BY <1>0, <2>2
  <1>1. CASE UNCHANGED vars \/ SigInt
    BY <1>0, <1>1 DEF vars, SigInt, Kill
  <1>3. CASE WorkerStep \/ Environment
    <2>1. ASSUME NEW p \in Forked, HandleNotification(p)
          PROVE  DOMAIN proc' = DOMAIN proc
      BY <2>1 DEF HandleNotification, Kill
    <2>2. ASSUME NEW p \in Forked, Boot(p) \/ End(p)
          PROVE  DOMAIN proc' = DOMAIN proc
      BY <2>2 DEF Boot, End
    <2>3. ASSUME NEW p \in Forked,
                 \/ RequestReload(p)
                 \/ \E vote \in {-1, 0, 1} : ReportCpuUsage(p, vote)
                 \/ \E x \in Plugin : NewPluginSubmitted(p, x)
                 \/ \E fatal \in BOOLEAN : Fail(p, fatal)
          PROVE  DOMAIN proc' = DOMAIN proc
      BY <2>3 DEF RequestReload, ReportCpuUsage, NewPluginSubmitted, Fail
    <2> QED
      BY <1>0, <1>1, <1>3, <2>1, <2>2, <2>3 DEF WorkerStep, Environment
  <1>4. CASE MasterStep
    <2>1. ASSUME NEW p \in Forked, HandleExit(p)
          PROVE  DOMAIN proc' = DOMAIN proc
      BY <2>1 DEF HandleExit, ExitIgnored
    <2>2. ASSUME NEW p \in Forked,
                 \/ HandleReportInitialized(p)
                 \/ HandleAddDynamicPlugin(p)
                 \/ HandleReloadAllWorkers(p)
          PROVE  DOMAIN proc' = DOMAIN proc
      BY <2>2 DEF HandleReportInitialized, HandleAddDynamicPlugin,
         HandleReloadAllWorkers, Receive, Send, Kill
    <2>3. ASSUME NEW p \in Forked, HandleReportCpuUsage(p)
          PROVE  DOMAIN proc' = DOMAIN proc \/ workersNum' = workersNum + 1
      BY <2>3 DEF HandleReportCpuUsage, MoreWorker, LessWorker, Kill, Receive
    <2> QED
      BY <1>0, <1>4, <2>1, <2>2, <2>3 DEF MasterStep
  <1> QED
    BY <1>1, <1>3, <1>4 DEF Next

\* Once SIGINT is seen, no exit is answered with a fork.
THEOREM NoRestarts == Spec => NoRestartWhileStopping
PROOF
  <1> DEFINE A == stoppingProcess /\ Len(proc') > Len(proc)
                    => workersNum' > workersNum
  <1>1. TypeOK /\ TypeOK' /\ [Next]_vars => A
    BY ForkWhen DEF TypeOK
  <1> HIDE DEF A
  <1>2. Spec => [][A]_vars
    BY <1>1, TypeCorrect, PTL DEF Spec
  <1> QED
    BY <1>2 DEF A, NoRestartWhileStopping
=============================================================================
