---------------------------- MODULE PluginStorage ----------------------------
(***************************************************************************)
(* The storage of one plugin: PluginStorageFactory of lib/pluginStorage.ts *)
(* over its three locations.  "local" is a dictionary of the worker;       *)
(* "cluster" is a dictionary of the master that the workers reach by       *)
(* remote calls (lib/clusterManager.js), and into which every starting     *)
(* worker merges its local one; "ha" is the API ML caching service, shared *)
(* with other servers and reached by HTTP (lib/apimlStorage.ts).           *)
(*                                                                         *)
(* A location is named by the worker for its local storage.  A value is    *)
(* opaque, up to being falsy.  The master's handlers are synchronous; an   *)
(* HTTP request, its handling and its answer are apart.                    *)
(***************************************************************************)
EXTENDS Integers, SequencesExt

CONSTANTS
  Worker, Key, Value, NoValue,
  Falsy,              \* the values of Value that are falsy in JavaScript
  Cluster, Ha,        \* the shared locations
  Operation,          \* bound: the operations that plugins call
  MaxCalls,           \* bound: operations called
  MaxFaults           \* bound: calls given up, HTTP requests that fail, exits

Caller == Worker \X {"plugin", "startup"}
Location == Worker \cup {Cluster, Ha}

ASSUME PluginStorageAssumption ==
  /\ NoValue \notin Value /\ Falsy \subseteq Value /\ IsFiniteSet(Key)
  /\ Cluster \notin Worker /\ Ha \notin Worker /\ Cluster # Ha
  /\ Operation \subseteq
       [type : {"get", "delete"}, key : Key]
         \cup [type : {"set"}, key : Key, value : Value]
         \cup [type : {"getAll", "deleteAll"}]
         \cup [type : {"setAll"}, dict : [Key -> Value \cup {NoValue}]]
  /\ MaxCalls \in Nat /\ MaxFaults \in Nat

VARIABLES
  shared,        \* bound: the one shared location that the plugin uses
  local,         \* localStorage of each worker
  cluster,       \* the plugin's dictionary in the master's storage
  ha,            \* the plugin's keys in the caching service
  op,            \* the operation of each caller
  messageIndex,  \* this.messageIndex of each worker
  toMaster,      \* remote calls on their way
  replies,       \* answers of the master on their way
  orphans,       \* HTTP requests that nobody waits for
  spent,         \* how much of the bounds is used
  alone          \* history: no other write to ha since the caller's began

vars == <<shared, local, cluster, ha, op, messageIndex, toMaster, replies, orphans,
          spent, alone>>

Dict == [Key -> Value \cup {NoValue}]
EmptyDict == [k \in Key |-> NoValue]

Request ==
  [type : {"get", "remove"}, key : Key]
    \cup [type : {"put"}, key : Key, value : Value]
    \cup [type : {"getAll", "clear"}]
    \cup [type : {"replace", "merge"}, dict : Dict]

Answer == {<<x>> : x \in Value \cup {NoValue} \cup Dict} \cup {<< >>}

Op ==
  [phase : {"idle", "waiting", "resolved", "rejected"},
   at : Location,
   todo : Seq(Request),       \* what is left, the request under way first
   index : Nat,               \* message index of the remote call
   http : {"sent", "ok", "notFound", "failed"},
   handled : BOOLEAN,         \* the service carried the request out
   create : BOOLEAN,          \* a put goes as POST, not as PUT
   answer : Answer,
   writes : Dict \cup {NoValue}]  \* what a setAll() writes

TypeOK ==
  /\ shared \in {Cluster, Ha}
  /\ local \in [Worker -> Dict] /\ cluster \in Dict /\ ha \in Dict
  /\ op \in [Caller -> Op]
  /\ messageIndex \in [Worker -> Nat]
  /\ toMaster \in [Worker -> Seq([index : Nat, request : Request])]
  /\ replies \subseteq [worker : Worker, index : Nat, answer : Answer]
  /\ orphans \subseteq [request : Request, create : BOOLEAN]
  /\ spent \in [calls : 0 .. MaxCalls, faults : 0 .. MaxFaults]
  /\ alone \in [Caller -> BOOLEAN]

-----------------------------------------------------------------------------
(* LocalStorageFactory: the dictionaries of the workers and of the master  *)

LocalAnswer(m, q) ==
  CASE q.type = "get"    -> <<IF m[q.key] \in Falsy THEN NoValue ELSE m[q.key]>>
    [] q.type = "getAll" -> <<m>>
    [] OTHER             -> << >>

\* deepAssign(): what the worker has wins.
Merged(m, d) == [k \in Key |-> IF d[k] = NoValue THEN m[k] ELSE d[k]]

\* (mutant: delete() deletes the whole of the plugin's storage)
LocalApplyForgetting(m, q) ==
  CASE q.type = "put"     -> [m EXCEPT ![q.key] = q.value]
    [] q.type = "remove"  -> IF m[q.key] \in Falsy \cup {NoValue} THEN m ELSE NoValue
    [] q.type = "replace" -> q.dict
    [] q.type = "merge"   -> Merged(m, q.dict)
    [] OTHER              -> m

\* delete() looks at the value, not at the key.
LocalApply(m, q) ==
  CASE q.type = "put"     -> [m EXCEPT ![q.key] = q.value]
    [] q.type = "remove"  -> IF m[q.key] \in Falsy THEN m
                             ELSE [m EXCEPT ![q.key] = NoValue]
    [] q.type = "replace" -> q.dict
    [] q.type = "merge"   -> Merged(m, q.dict)
    [] OTHER              -> m

(* The caching service: PUT of a key it has, POST of one it has not.       *)

Found(m, q, create) ==
  CASE q.type = "put"               -> (m[q.key] # NoValue) # create
    [] q.type \in {"get", "remove"} -> m[q.key] # NoValue
    [] OTHER                        -> TRUE

ServiceApply(m, q) ==
  CASE q.type = "put"    -> [m EXCEPT ![q.key] = q.value]
    [] q.type = "remove" -> [m EXCEPT ![q.key] = NoValue]
    [] q.type = "clear"  -> EmptyDict
    [] OTHER             -> m

ServiceAnswer(m, q) ==
  CASE q.type = "get"    -> <<m[q.key]>>
    [] q.type = "getAll" -> <<m>>
    [] OTHER             -> << >>

\* A put that is not carried out is answered by 404 to PUT and 409 to POST;
\* get() and delete() of a missing key are carried out, in vain.
Outcome(m, q, create) ==
  IF Found(m, q, create) THEN "ok"
  ELSE IF q.type = "put" /\ create THEN "failed" ELSE "notFound"

CarriedOut(m, q, create) == q.type = "put" => Found(m, q, create)

-----------------------------------------------------------------------------
(* The operations of PluginStorageFactory                                  *)

\* (mutant: the old contents are not deleted)
SetAllWithoutClear(d) ==
  SetToSeq({[type |-> "put", key |-> k, value |-> d[k]] :
              k \in {x \in Key : d[x] # NoValue}})

\* setAll() of ApimlStorage: deleteAll(), then set() key by key.
SetAllRequests(d) ==
  <<[type |-> "clear"]>> \o
    SetToSeq({[type |-> "put", key |-> k, value |-> d[k]] :
                k \in {x \in Key : d[x] # NoValue}})

\* The requests an operation comes down to at a location.
Requests(o, at) ==
  CASE o.type = "get"       -> <<o>>
    [] o.type = "getAll"    -> <<o>>
    [] o.type = "set"       -> <<[type |-> "put", key |-> o.key, value |-> o.value]>>
    [] o.type = "delete"    -> <<[type |-> "remove", key |-> o.key]>>
    [] o.type = "setAll"    -> IF at = Ha THEN SetAllRequests(o.dict)
                               ELSE <<[type |-> "replace", dict |-> o.dict]>>
    [] o.type = "deleteAll" -> IF at = Ha THEN <<[type |-> "clear"]>>
                               ELSE <<[type |-> "replace", dict |-> EmptyDict]>>

Waiting(c) == op[c].phase = "waiting"
Started(w) == op[<<w, "startup">>].phase # "idle"
Writes(c) == Waiting(c) /\ op[c].at = Ha
               /\ \E i \in DOMAIN op[c].todo :
                    op[c].todo[i].type \in {"put", "remove", "clear"}

\* callClusterMethodRemote() with the first of o.todo.
RemoteCall(w, a, o) ==
  /\ op' = [op EXCEPT ![<<w, a>>] = [o EXCEPT !.index = messageIndex[w]]]
  /\ toMaster' = [toMaster EXCEPT ![w] =
       Append(@, [index |-> messageIndex[w], request |-> Head(o.todo)])]
  /\ messageIndex' = [messageIndex EXCEPT ![w] = @ + 1]

Opened(todo, at) ==
  [phase |-> "waiting", at |-> at, todo |-> todo, index |-> 0,
   http |-> "sent", handled |-> FALSE, create |-> FALSE, answer |-> << >>,
   writes |-> NoValue]

\* A starting worker's PluginStorageFactory asks for the cluster's storage.
\* The master has by then read what the slot's former process sent; it answers
\* to workers[wi], with message indexes that the new process counts again.
Start(w) ==
  /\ ~Started(w) /\ toMaster[w] = << >>
  /\ RemoteCall(w, "startup", Opened(<<[type |-> "getAll"]>>, Cluster))
  /\ UNCHANGED <<local, cluster, ha, replies, orphans, spent, alone>>

\* get, set, delete, getAll, setAll or deleteAll of a plugin in worker w.
Operate(w, o, at) ==
  LET c == <<w, "plugin">>
      new == Opened(Requests(o, at), at)
  IN
  /\ Started(w) /\ ~Waiting(c)
  /\ spent.calls < MaxCalls /\ spent' = [spent EXCEPT !.calls = @ + 1]
  /\ \/ /\ at = w
        /\ local' = [local EXCEPT ![w] = LocalApply(@, Head(new.todo))]
        /\ op' = [op EXCEPT ![c] =
             [new EXCEPT !.phase = "resolved", !.todo = << >>,
                         !.answer = LocalAnswer(local[w], Head(new.todo))]]
        /\ UNCHANGED <<messageIndex, toMaster, alone>>
     \/ /\ at = Cluster
        /\ RemoteCall(w, "plugin", new)
        /\ UNCHANGED <<local, alone>>
     \/ /\ at = Ha
        /\ op' = [op EXCEPT ![c] =
             IF o.type = "setAll" THEN [new EXCEPT !.writes = o.dict] ELSE new]
        /\ alone' = [d \in Caller |->
             IF d = c THEN orphans = {} /\ \A e \in Caller \ {c} : ~Writes(e)
             ELSE alone[d] /\ o.type \in {"get", "getAll"}]
        /\ UNCHANGED <<local, messageIndex, toMaster>>
  /\ UNCHANGED <<cluster, ha, replies, orphans>>

(* ------------------------- "cluster": the master ------------------------ *)

\* getStorageByKey and the others: the next remote call of worker w.
HandleCall(w) ==
  /\ toMaster[w] # << >>
  /\ LET m == Head(toMaster[w]) IN
       /\ cluster' = LocalApply(cluster, m.request)
       /\ replies' = replies \cup
            (IF \E a \in {"plugin", "startup"} :
                  Waiting(<<w, a>>) /\ op[<<w, a>>].at = Cluster
                    /\ op[<<w, a>>].index = m.index
             THEN {[worker |-> w, index |-> m.index,
                    answer |-> LocalAnswer(cluster, m.request)]}
             ELSE {})  \* nobody listens to the answer any more
  /\ toMaster' = [toMaster EXCEPT ![w] = Tail(@)]
  /\ UNCHANGED <<local, ha, op, messageIndex, orphans, spent, alone>>

\* (mutant: the message index of an answer is not looked at)
AnswersAny(r, c) == r.worker = c[1] /\ Waiting(c) /\ op[c].at = Cluster

\* messageListener of the call: this answer is for this caller.
AnswersCall(r, c) ==
  r.worker = c[1] /\ Waiting(c) /\ op[c].at = Cluster /\ r.index = op[c].index

\* The promise is resolved; at the start the worker then merges its storage.
TakeReply(w, a, r) ==
  LET c == <<w, a>> IN
  /\ AnswersCall(r, c)
  /\ replies' = replies \ {r}
  /\ \/ /\ a = "startup" /\ Head(op[c].todo).type = "getAll"
        /\ RemoteCall(w, a,
             Opened(<<[type |-> "merge", dict |-> local[w]]>>, Cluster))
     \/ /\ ~(a = "startup" /\ Head(op[c].todo).type = "getAll")
        /\ op' = [op EXCEPT ![c].phase = "resolved", ![c].todo = << >>,
                            ![c].answer = r.answer]
        /\ UNCHANGED <<messageIndex, toMaster>>
  /\ UNCHANGED <<local, cluster, ha, orphans, spent, alone>>

Idle == [Opened(<< >>, Cluster) EXCEPT !.phase = "idle"]

\* The HTTP requests the processes of W have sent and that may still arrive.
InFlight(W) ==
  {[request |-> Head(op[<<w, "plugin">>].todo), create |-> op[<<w, "plugin">>].create] :
     w \in {v \in W : /\ Waiting(<<v, "plugin">>) /\ op[<<v, "plugin">>].at = Ha
                      /\ op[<<v, "plugin">>].http = "sent"}}

\* Workers exit: they lose their storage and operations, not what they sent.
End(W) ==
  /\ local' = [w \in Worker |-> IF w \in W THEN EmptyDict ELSE local[w]]
  /\ op' = [c \in Caller |-> IF c[1] \in W THEN Idle ELSE op[c]]
  /\ orphans' = orphans \cup InFlight(W)
  /\ replies' = {r \in replies : r.worker \notin W}
  /\ alone' = [c \in Caller |-> IF c[1] \in W THEN FALSE ELSE alone[c]]
  /\ messageIndex' = [w \in Worker |-> IF w \in W THEN 0 ELSE messageIndex[w]]
  /\ UNCHANGED ha

\* One worker exits and is restarted.
Crash(w) ==
  /\ Started(w)
  /\ spent.faults < MaxFaults /\ spent' = [spent EXCEPT !.faults = @ + 1]
  /\ End({w})
  /\ UNCHANGED <<cluster, toMaster>>

\* The server is stopped and started: the master's storage is gone as well.
ServerEnds ==
  /\ End(Worker)
  /\ cluster' = EmptyDict
  /\ toMaster' = [w \in Worker |-> << >>]

\* A remote call is given up: a warning and a promise resolved with nothing,
\* but getStorageAll() ends the process with EXIT_GENERIC, and so the server.
\* Once the call is answered it is given up no more.
GiveUp(c) ==
  /\ Waiting(c) /\ op[c].at = Cluster
  /\ spent.faults < MaxFaults
  /\ spent' = [spent EXCEPT !.faults = @ + 1]
  /\ \/ Head(op[c].todo).type = "getAll" /\ ServerEnds
     \/ /\ Head(op[c].todo).type # "getAll"
        /\ op' = [op EXCEPT ![c].phase = "resolved", ![c].todo = << >>]
        /\ replies' = {r \in replies : ~AnswersCall(r, c)}
        /\ UNCHANGED <<local, cluster, ha, messageIndex, toMaster, orphans, alone>>

(* ----------------------- "ha": the caching service ---------------------- *)

\* The service handles the request of c, and its answer may be lost; or the
\* request is.
HandleHttp(c) ==
  /\ Waiting(c) /\ op[c].at = Ha /\ op[c].http = "sent"
  /\ LET q == Head(op[c].todo)
         done == CarriedOut(ha, q, op[c].create)
         outcome == Outcome(ha, q, op[c].create)
     IN  \/ /\ ha' = IF done THEN ServiceApply(ha, q) ELSE ha
            /\ \E http \in {outcome, "failed"} :
                 /\ http # outcome => spent.faults < MaxFaults
                 /\ spent' = [spent EXCEPT !.faults =
                                IF http # outcome THEN @ + 1 ELSE @]
                 /\ op' = [op EXCEPT ![c].http = http, ![c].handled = done,
                             ![c].answer = IF done THEN ServiceAnswer(ha, q)
                                           ELSE << >>]
         \/ /\ spent.faults < MaxFaults
            /\ spent' = [spent EXCEPT !.faults = @ + 1]
            /\ op' = [op EXCEPT ![c].http = "failed"]
            /\ UNCHANGED ha
  /\ UNCHANGED <<local, cluster, messageIndex, toMaster, replies, orphans, alone>>

\* What follows the await of a request: 404 to a PUT is followed by POST, to
\* get() and delete() it is an answer, and any other failure is thrown.
Continue(o) ==
  IF o.http = "failed"
  THEN [o EXCEPT !.phase = "rejected", !.todo = << >>, !.answer = << >>]
  ELSE IF o.http = "ok" \/ Head(o.todo).type # "put"
  THEN [o EXCEPT !.todo = Tail(@), !.create = FALSE,
                 !.phase = IF Len(o.todo) = 1 THEN "resolved" ELSE @]
  ELSE [o EXCEPT !.create = TRUE]

\* The answer arrives, or the failure is noticed while the request may still
\* be on its way.
TakeHttp(c) ==
  /\ Waiting(c) /\ op[c].at = Ha /\ op[c].http # "sent"
  /\ orphans' \in {orphans,
       IF op[c].http = "failed" /\ ~op[c].handled
       THEN orphans \cup {[request |-> Head(op[c].todo), create |-> op[c].create]}
       ELSE orphans}
  /\ op' = [op EXCEPT ![c] =
              [Continue(op[c]) EXCEPT !.http = "sent", !.handled = FALSE]]
  /\ UNCHANGED <<local, cluster, ha, messageIndex, toMaster, replies, spent, alone>>

\* A request that nobody waits for arrives, or does not.
HandleOrphan(x) ==
  /\ ha' \in {ha, IF CarriedOut(ha, x.request, x.create)
                  THEN ServiceApply(ha, x.request) ELSE ha}
  /\ orphans' = orphans \ {x}
  /\ UNCHANGED <<local, cluster, op, messageIndex, toMaster, replies, spent, alone>>

-----------------------------------------------------------------------------
Init ==
  /\ shared \in {Cluster, Ha}
  /\ local = [w \in Worker |-> EmptyDict]
  /\ cluster = EmptyDict /\ ha = EmptyDict
  /\ op = [c \in Caller |-> Idle]
  /\ messageIndex = [w \in Worker |-> 0]
  /\ toMaster = [w \in Worker |-> << >>]
  /\ replies = {} /\ orphans = {}
  /\ spent = [calls |-> 0, faults |-> 0]
  /\ alone = [c \in Caller |-> FALSE]

CallerStep(c) ==
  \/ HandleHttp(c) \/ TakeHttp(c)
  \/ \E r \in replies : TakeReply(c[1], c[2], r)

Next ==
  /\ \/ \E w \in Worker :
          \/ Start(w) \/ HandleCall(w) \/ Crash(w)
          \/ \E o \in Operation, at \in {w, shared} : Operate(w, o, at)
     \/ \E c \in Caller : CallerStep(c) \/ GiveUp(c)
     \/ \E x \in orphans : HandleOrphan(x)
  /\ UNCHANGED shared

Spec == Init /\ [][Next]_vars

-----------------------------------------------------------------------------
(* Properties *)

InPipe(c) == \E i \in DOMAIN toMaster[c[1]] : toMaster[c[1]][i].index = op[c].index

\* What is left to be carried out of an operation that is under way.
Remaining(c) ==
  IF op[c].at = Ha
  THEN IF op[c].handled THEN Tail(op[c].todo) ELSE op[c].todo
  ELSE IF InPipe(c) THEN op[c].todo ELSE << >>

\* What the master has answered and the caller has not taken yet.
Answered(c) == {r.answer : r \in {s \in replies : AnswersCall(s, c)}}

CallOf(c) ==
  [status |-> IF Waiting(c) THEN "open" ELSE op[c].phase,
   at     |-> op[c].at,
   todo   |-> IF Waiting(c) THEN Remaining(c) ELSE << >>,
   answer |-> IF Answered(c) = {} THEN op[c].answer
              ELSE CHOOSE x \in Answered(c) : TRUE]

Listening(w, i) ==
  \E a \in {"plugin", "startup"} :
    Waiting(<<w, a>>) /\ op[<<w, a>>].at = Cluster
      /\ op[<<w, a>>].index = toMaster[w][i].index

Unheard ==
  {[at |-> Ha, request |-> x.request] : x \in orphans}
    \cup UNION {{[at |-> Cluster, request |-> toMaster[w][i].request] :
                   i \in {j \in DOMAIN toMaster[w] : ~Listening(w, j)}} :
                w \in Worker}

Maps == [l \in Location |-> IF l = Cluster THEN cluster
                            ELSE IF l = Ha THEN ha ELSE local[l]]

Calls == [c \in Caller |-> CallOf(c)]

Service == INSTANCE StorageService WITH
  Volatile <- Worker \cup {Cluster}, map <- Maps, call <- Calls, late <- Unheard

\* At every location an operation is carried out once, in order and before it
\* is resolved, and returns what was stored at that time: neither the two-step
\* set() of the caching service, nor the answers of calls given up, nor the
\* exits of processes and the merges at their start can be told from an atomic
\* map.
ImplementsService == Service!Spec

\* setAll() at the caching service deletes, then writes key by key; it never
\* mixes old and new contents, wherever it fails, and when it is resolved the
\* new contents are there, if nobody else wrote.
SetAllNeverMixes ==
  \A c \in Caller :
    (op[c].at = Ha /\ op[c].writes # NoValue /\ alone[c]) =>
      /\ (Waiting(c) /\ (op[c].handled \/ op[c].todo[1].type # "clear")) =>
           \A k \in Key : ha[k] \in {NoValue, op[c].writes[k]}
      /\ (op[c].phase = "resolved") => (ha = op[c].writes)
=============================================================================
