------------------------ MODULE PluginStorageProofs ------------------------
(***************************************************************************)
(* PluginStorage: type correctness, setAll() at the caching service, and   *)
(* the refinement of StorageService, for any number of workers, keys,      *)
(* values, operations and faults.                                          *)
(***************************************************************************)
EXTENDS PluginStorage, FiniteSetTheorems, SequenceTheorems, TLAPS

-----------------------------------------------------------------------------
(* Requests: what they are, and what an operation comes down to            *)

LEMMA RequestParts ==
  ASSUME NEW q \in Request
  PROVE  /\ q.type \in {"get", "remove", "put", "getAll", "clear", "replace", "merge"}
         /\ q.type \in {"get", "remove", "put"} => q.key \in Key
         /\ q.type = "put" => q.value \in Value
         /\ q.type \in {"replace", "merge"} => q.dict \in Dict
  BY DEF Request

LEMMA DictApply ==
  ASSUME NEW m \in Dict, NEW q \in Request
  PROVE  LocalApply(m, q) \in Dict /\ ServiceApply(m, q) \in Dict
PROOF
  <1>1. EmptyDict \in Dict
    BY DEF EmptyDict, Dict
  <1>2. CASE q.type = "put"
    <2>1. [m EXCEPT ![q.key] = q.value] \in Dict
      BY <1>2, RequestParts DEF Dict
    <2> QED
      BY <1>2, <2>1 DEF LocalApply, ServiceApply
  <1>3. CASE q.type = "remove"
    <2>1. [m EXCEPT ![q.key] = NoValue] \in Dict
      BY <1>3, RequestParts DEF Dict
    <2> QED
      BY <1>3, <2>1 DEF LocalApply, ServiceApply
  <1>4. CASE q.type \in {"replace", "merge"}
    <2>1. q.dict \in Dict /\ Merged(m, q.dict) \in Dict
      BY <1>4, RequestParts DEF Merged, Dict
    <2> QED
      BY <1>4, <2>1 DEF LocalApply, ServiceApply
  <1>5. CASE q.type \in {"get", "getAll", "clear"}
    BY <1>1, <1>5 DEF LocalApply, ServiceApply
  <1> QED
    BY <1>2, <1>3, <1>4, <1>5, RequestParts

LEMMA AnswerApply ==
  ASSUME NEW m \in Dict, NEW q \in Request
  PROVE  LocalAnswer(m, q) \in Answer /\ ServiceAnswer(m, q) \in Answer
PROOF
  <1>1. \A x \in Value \cup {NoValue} \cup Dict : <<x>> \in Answer
    BY DEF Answer
  <1>2. << >> \in Answer
    BY DEF Answer
  <1>3. CASE q.type = "get"
    <2>1. m[q.key] \in Value \cup {NoValue}
      BY <1>3, RequestParts DEF Dict
    <2>2. (IF m[q.key] \in Falsy THEN NoValue ELSE m[q.key]) \in Value \cup {NoValue}
      BY <2>1
    <2> QED
      BY <1>1, <1>3, <2>1, <2>2 DEF LocalAnswer, ServiceAnswer
  <1>4. CASE q.type = "getAll"
    BY <1>1, <1>4 DEF LocalAnswer, ServiceAnswer
  <1>5. CASE q.type \notin {"get", "getAll"}
    BY <1>2, <1>5 DEF LocalAnswer, ServiceAnswer
  <1> QED
    BY <1>3, <1>4, <1>5

\* A sequence made of a finite set has its members, all of them.
LEMMA SetToSeqFacts ==
  ASSUME NEW S, IsFiniteSet(S)
  PROVE  /\ SetToSeq(S) \in Seq(S) /\ Len(SetToSeq(S)) = Cardinality(S)
         /\ \A x \in S : \E i \in 1 .. Cardinality(S) : SetToSeq(S)[i] = x
PROOF
  <1> DEFINE n == Cardinality(S)
             s == SetToSeq(S)
  <1>1. n \in Nat /\ ExistsBijection(1 .. n, S)
    BY FS_CardinalityType
  <1>2. PICK f \in Bijection(1 .. n, S) : TRUE
    BY <1>1 DEF ExistsBijection
  <1>3. f \in [1 .. n -> S] /\ IsInjective(f)
    BY <1>2 DEF Bijection, Injection, IsInjective
  <1>4. s \in [1 .. n -> S] /\ IsInjective(s)
    BY <1>3 DEF SetToSeq
  <1>5. s \in Seq(S) /\ Len(s) = n
    BY <1>1, <1>4
  <1>6. s \in Injection(1 .. n, S)
    BY <1>4 DEF Injection
  <1>7. IsFiniteSet(1 .. n) /\ Cardinality(1 .. n) = n
    BY <1>1, FS_Interval
  <1>8. s \in Surjection(1 .. n, S)
    BY <1>6, <1>7, FS_Injection
  <1>9. \A x \in S : \E i \in 1 .. n : s[i] = x
    BY <1>8 DEF Surjection
  <1> QED
    BY <1>5, <1>9

-----------------------------------------------------------------------------
(* The inductive invariant                                                 *)

AtCluster(c) == Waiting(c) /\ op[c].at = Cluster
AtHa(c) == Waiting(c) /\ op[c].at = Ha

\* The indexes of a worker's remote calls on their way are its own, each of
\* them used once; a process that has not started calls nothing.
OwnPipe(w) ==
  /\ Started(w) \/ ~Waiting(<<w, "plugin">>)
  /\ \A i \in DOMAIN toMaster[w] :
       /\ toMaster[w][i].request.type # "clear"
       /\ Started(w) => toMaster[w][i].index < messageIndex[w]
  /\ \A i, j \in DOMAIN toMaster[w] :
       toMaster[w][i].index = toMaster[w][j].index => i = j

PipeInv == \A w \in Worker : OwnPipe(w)

\* What was answered is not on its way any more, and is answered once.
OwnReply(r) ==
  /\ Started(r.worker) /\ r.index < messageIndex[r.worker]
  /\ \A i \in DOMAIN toMaster[r.worker] : toMaster[r.worker][i].index # r.index
  /\ \A s \in replies : s.worker = r.worker /\ s.index = r.index => s = r

ReplyInv == \A r \in replies : OwnReply(r)

\* A remote call is one request, under an index that is no other call's.
OneRequest(c) ==
  /\ op[c].index < messageIndex[c[1]] /\ op[c].answer = << >>
  /\ Len(op[c].todo) = 1 /\ op[c].todo[1].type # "clear"
  /\ \A i \in DOMAIN toMaster[c[1]] :
       toMaster[c[1]][i].index = op[c].index => toMaster[c[1]][i].request = op[c].todo[1]
  /\ \A d \in Caller \ {c} : AtCluster(d) /\ d[1] = c[1] => op[d].index # op[c].index

ClusterInv ==
  \A c \in Caller : /\ Waiting(c) => op[c].at \in {Cluster, Ha}
                    /\ AtCluster(c) => OneRequest(c)

HaType == {"get", "getAll", "put", "remove", "clear"}
Mute == {"put", "clear"}       \* requests with no answer

\* What an outcome says of the request it is the outcome of.
OutcomeInv(o) ==
  /\ o.http = "sent" => ~o.handled
  /\ o.http = "ok" => o.handled
  /\ o.http = "notFound" => (o.handled <=> Head(o.todo).type # "put")
  /\ ~o.handled \/ Head(o.todo).type \in Mute => o.answer = << >>

HaInv ==
  /\ \A c \in Caller :
       AtHa(c) =>
         /\ op[c].todo # << >>
         /\ \A i \in DOMAIN op[c].todo : op[c].todo[i].type \in HaType
         /\ Len(op[c].todo) = 1
              \/ \A i \in DOMAIN op[c].todo : op[c].todo[i].type \in Mute
         /\ OutcomeInv(op[c])
  /\ \A x \in orphans : x.request.type \in HaType

WriteType == {"put", "remove", "clear"}

\* The request with index i of setAll(d) is one that writes d.
PartOf(d, q, i) ==
  \/ i = 1 /\ q.type = "clear"
  \/ q.type = "put" /\ q.value = d[q.key]

\* Key k is still to be written by one of the requests from n on.
StillToPut(todo, n, k) ==
  \E i \in DOMAIN todo : i >= n /\ todo[i].type = "put" /\ todo[i].key = k

Cleared(o) == o.handled \/ o.todo[1].type # "clear"

\* How far a setAll() has got: before the old contents are deleted every key of
\* the new ones is still to be written, from then on every key holds what it
\* should or is still to be written.
Progress(o, m) ==
  /\ o.phase = "waiting" =>
       /\ \A i \in DOMAIN o.todo : PartOf(o.writes, o.todo[i], i)
       /\ Cleared(o) =>
            \A k \in Key : \/ m[k] = o.writes[k]
                           \/ /\ m[k] = NoValue
                              /\ StillToPut(o.todo, IF o.handled THEN 2 ELSE 1, k)
       /\ ~Cleared(o) =>
            \A k \in Key : o.writes[k] = NoValue \/ StillToPut(o.todo, 2, k)
  /\ o.phase = "resolved" => m = o.writes

Undisturbed(c) ==
  /\ op[c].at = Ha /\ op[c].writes # NoValue /\ alone[c]
  /\ op[c].phase \in {"waiting", "resolved"}

NobodyElse(c) ==
  /\ \A x \in orphans : x.request.type \notin WriteType
  /\ \A e \in Caller \ {c} : ~Writes(e)

SetAllInv == \A c \in Caller : Undisturbed(c) => NobodyElse(c) /\ Progress(op[c], ha)

CallsInv == PipeInv /\ ReplyInv /\ ClusterInv

-----------------------------------------------------------------------------
(* Type correctness                                                        *)

LEMMA OperationParts ==
  ASSUME NEW o \in Operation
  PROVE  /\ o.type \in {"get", "delete", "set", "getAll", "deleteAll", "setAll"}
         /\ o.type \in {"get", "delete", "set"} => o.key \in Key
         /\ o.type = "set" => o.value \in Value
         /\ o.type = "setAll" => o.dict \in Dict
         /\ o.type \in {"get", "getAll"} => o \in Request
  BY PluginStorageAssumption DEF Request, Dict

LEMMA SingleRequest ==
  ASSUME NEW q \in Request
  PROVE  <<q>> \in Seq(Request) /\ <<q>> # << >> /\ Len(<<q>>) = 1 /\ Head(<<q>>) = q
         /\ <<q>>[1] = q
  OBVIOUS

Puts(d) == {[type |-> "put", key |-> k, value |-> d[k]] : k \in {x \in Key : d[x] # NoValue}}

\* The writes of setAll(d), in whatever order: a deletion, then puts of all of
\* d and of nothing else.
LEMMA SetAllFacts ==
  ASSUME NEW d \in Dict
  PROVE  LET s == SetAllRequests(d) IN
         /\ s \in Seq(Request) /\ s # << >> /\ s[1].type = "clear"
         /\ \A i \in DOMAIN s : i # 1 => s[i] \in Puts(d)
         /\ \A i \in DOMAIN s : s[i].type \in Mute /\ PartOf(d, s[i], i)
         /\ \A k \in Key : d[k] = NoValue \/ StillToPut(s, 2, k)
PROOF
  <1> DEFINE K == {x \in Key : d[x] # NoValue}
             t == SetToSeq(Puts(d))
             s == SetAllRequests(d)
  <1>1. IsFiniteSet(Puts(d))
    <2>1. IsFiniteSet(K)
      BY PluginStorageAssumption, FS_Subset
    <2> DEFINE f == [k \in K |-> [type |-> "put", key |-> k, value |-> d[k]]]
    <2>2. f \in Surjection(K, Puts(d))
      BY DEF Puts, Surjection
    <2> QED
      BY <2>1, <2>2, FS_Surjection
  <1>2. Puts(d) \subseteq Request
    BY DEF Puts, Request, Dict
  <1>3. t \in Seq(Puts(d)) /\ \A x \in Puts(d) : \E i \in 1 .. Len(t) : t[i] = x
    BY <1>1, SetToSeqFacts
  <1>4. t \in Seq(Request)
    BY <1>2, <1>3, SeqMonotonic
  <1>5. [type |-> "clear"] \in Request
    BY DEF Request
  <1>6. s = <<[type |-> "clear"]>> \o t
    BY DEF SetAllRequests, Puts
  <1> HIDE DEF t, s
  <1>7. /\ s \in Seq(Request) /\ Len(s) = 1 + Len(t) /\ s[1] = [type |-> "clear"]
        /\ \A i \in 1 .. Len(t) : s[i + 1] = t[i]
    BY <1>4, <1>5, <1>6
  <1>8. \A i \in DOMAIN s : i # 1 => s[i] \in Puts(d)
    <2> SUFFICES ASSUME NEW i \in DOMAIN s, i # 1 PROVE s[i] \in Puts(d)
      OBVIOUS
    <2>1. i - 1 \in 1 .. Len(t) /\ s[(i - 1) + 1] = t[i - 1]
      BY <1>4, <1>7
    <2>2. t[i - 1] \in Puts(d)
      BY <1>3, <2>1, ElementOfSeq
    <2> QED
      BY <2>1, <2>2
  <1>9. \A x \in Puts(d) : x.type = "put" /\ x.value = d[x.key]
    BY DEF Puts
  <1>10. \A i \in DOMAIN s : s[i].type \in Mute /\ PartOf(d, s[i], i)
    BY <1>7, <1>8, <1>9 DEF Mute, PartOf
  <1>11. ASSUME NEW k \in Key, d[k] # NoValue
         PROVE  StillToPut(s, 2, k)
    <2>1. [type |-> "put", key |-> k, value |-> d[k]] \in Puts(d)
      BY <1>11 DEF Puts
    <2>2. PICK i \in 1 .. Len(t) : t[i] = [type |-> "put", key |-> k, value |-> d[k]]
      BY <1>3, <2>1
    <2>3. i + 1 \in DOMAIN s /\ i + 1 >= 2 /\ s[i + 1] = t[i]
      BY <1>4, <1>7
    <2>4. s[i + 1].type = "put" /\ s[i + 1].key = k
      BY <2>2, <2>3
    <2> QED
      BY <2>3, <2>4 DEF StillToPut
  <1>12. s # << >>
    BY <1>4, <1>7
  <1> QED
    BY <1>7, <1>8, <1>10, <1>11, <1>12 DEF s

\* What an operation comes down to: one request, but for setAll() at the
\* caching service.
LEMMA RequestsFacts ==
  ASSUME NEW o \in Operation, NEW at \in Location
  PROVE  LET s == Requests(o, at) IN
         /\ s \in Seq(Request) /\ s # << >>
         /\ at # Ha => Len(s) = 1 /\ s[1].type # "clear"
         /\ at = Ha => /\ \A i \in DOMAIN s : s[i].type \in HaType
                       /\ Len(s) = 1 \/ \A i \in DOMAIN s : s[i].type \in Mute
         /\ at = Ha /\ o.type \in {"get", "getAll"} =>
              \A i \in DOMAIN s : s[i].type \notin WriteType
         /\ at = Ha /\ o.type = "setAll" => o.dict \in Dict /\ s = SetAllRequests(o.dict)
PROOF
  <1> DEFINE s == Requests(o, at)
             Single(q) == /\ s = <<q>> /\ q \in Request
                          /\ at # Ha => q.type # "clear"
                          /\ at = Ha => q.type \in HaType
                          /\ o.type \in {"get", "getAll"} => q.type \notin WriteType
  <1>1. CASE o.type = "setAll" /\ at = Ha
    <2>1. s = SetAllRequests(o.dict) /\ o.dict \in Dict
      BY <1>1, OperationParts DEF Requests
    <2> QED
      BY <1>1, <2>1, SetAllFacts DEF Mute, HaType
  <1>2. CASE ~(o.type = "setAll" /\ at = Ha)
    <2>1. \E q : Single(q)
      <3>1. CASE o.type \in {"get", "getAll"}
        <4>1. s = <<o>>
          BY <3>1 DEF Requests
        <4> QED
          BY <3>1, <4>1, OperationParts DEF HaType, WriteType
      <3>2. CASE o.type = "set"
        <4> DEFINE q == [type |-> "put", key |-> o.key, value |-> o.value]
        <4>1. s = <<q>>
          BY <3>2 DEF Requests
        <4>2. q \in Request /\ q.type = "put"
          BY <3>2, OperationParts DEF Request
        <4> QED
          BY <3>2, <4>1, <4>2 DEF HaType, WriteType
      <3>3. CASE o.type = "delete"
        <4> DEFINE q == [type |-> "remove", key |-> o.key]
        <4>1. s = <<q>>
          BY <3>3 DEF Requests
        <4>2. q \in Request /\ q.type = "remove"
          BY <3>3, OperationParts DEF Request
        <4> QED
          BY <3>3, <4>1, <4>2 DEF HaType, WriteType
      <3>4. CASE o.type = "setAll"
        <4> DEFINE q == [type |-> "replace", dict |-> o.dict]
        <4>1. s = <<q>> /\ at # Ha
          BY <1>2, <3>4 DEF Requests
        <4>2. q \in Request /\ q.type = "replace"
          BY <3>4, OperationParts DEF Request
        <4> QED
          BY <3>4, <4>1, <4>2 DEF HaType, WriteType
      <3>5. CASE o.type = "deleteAll" /\ at = Ha
        <4> DEFINE q == [type |-> "clear"]
        <4>1. s = <<q>>
          BY <3>5 DEF Requests
        <4>2. q \in Request /\ q.type = "clear"
          BY DEF Request
        <4> QED
          BY <3>5, <4>1, <4>2 DEF HaType, WriteType
      <3>6. CASE o.type = "deleteAll" /\ at # Ha
        <4> DEFINE q == [type |-> "replace", dict |-> EmptyDict]
        <4>1. s = <<q>>
          BY <3>6 DEF Requests
        <4>2. q \in Request /\ q.type = "replace"
          BY DEF Request, EmptyDict, Dict
        <4> QED
          BY <3>6, <4>1, <4>2 DEF HaType, WriteType
      <3> QED
        BY <3>1, <3>2, <3>3, <3>4, <3>5, <3>6, OperationParts
    <2>2. PICK q : Single(q)
      BY <2>1
    <2> HIDE DEF s
    <2>3. s \in Seq(Request) /\ s # << >> /\ Len(s) = 1 /\ DOMAIN s = {1} /\ s[1] = q
      BY <2>2
    <2>4. \A i \in DOMAIN s : s[i] = q
      BY <2>3
    <2> QED
      BY <1>2, <2>2, <2>3, <2>4 DEF s
  <1> QED
    BY <1>1, <1>2

LEMMA OpenedOp ==
  ASSUME NEW todo \in Seq(Request), NEW at \in Location
  PROVE  Opened(todo, at) \in Op
PROOF
  <1>1. << >> \in Answer
    BY DEF Answer
  <1> QED
    BY <1>1 DEF Opened, Op

LEMMA IdleOp == Idle \in Op
PROOF
  <1>1. << >> \in Seq(Request) /\ Cluster \in Location
    BY DEF Location
  <1>2. Opened(<< >>, Cluster) \in Op
    BY <1>1, OpenedOp
  <1> QED
    BY <1>2 DEF Idle, Op

LEMMA CallerOf ==
  ASSUME NEW w \in Worker
  PROVE  /\ <<w, "plugin">> \in Caller /\ <<w, "startup">> \in Caller
         /\ \A c \in Caller : c[1] = w => c = <<w, "plugin">> \/ c = <<w, "startup">>
  BY DEF Caller

Message == [index : Nat, request : Request]

LEMMA PipeType ==
  ASSUME TypeOK, NEW w \in Worker
  PROVE  /\ toMaster[w] \in Seq(Message)
         /\ \A m \in Message : Append(toMaster[w], m) \in Seq(Message)
         /\ toMaster[w] # << >> =>
              Head(toMaster[w]) \in Message /\ Tail(toMaster[w]) \in Seq(Message)
PROOF
  <1>1. toMaster[w] \in Seq(Message)
    BY DEF TypeOK, Message
  <1> QED
    BY <1>1

LEMMA RemoteCallType ==
  ASSUME TypeOK, NEW w \in Worker, NEW a \in {"plugin", "startup"}, NEW o \in Op,
         o.todo # << >>, RemoteCall(w, a, o)
  PROVE  /\ op' \in [Caller -> Op] /\ messageIndex' \in [Worker -> Nat]
         /\ toMaster' \in [Worker -> Seq([index : Nat, request : Request])]
PROOF
  <1>1. messageIndex[w] \in Nat /\ <<w, a>> \in Caller
    BY DEF TypeOK, Caller
  <1>2. [o EXCEPT !.index = messageIndex[w]] \in Op
    BY <1>1 DEF Op
  <1>3. op' \in [Caller -> Op]
    BY <1>1, <1>2 DEF RemoteCall, TypeOK
  <1>4. messageIndex' \in [Worker -> Nat]
    BY <1>1 DEF RemoteCall, TypeOK
  <1>5. Head(o.todo) \in Request
    BY DEF Op
  <1>6. [index |-> messageIndex[w], request |-> Head(o.todo)] \in Message
    BY <1>1, <1>5 DEF Message
  <1>7. toMaster' \in [Worker -> Seq(Message)]
    <2>1. Append(toMaster[w], [index |-> messageIndex[w], request |-> Head(o.todo)]) \in Seq(Message)
      BY <1>6, PipeType
    <2>2. toMaster \in [Worker -> Seq(Message)]
      BY DEF TypeOK, Message
    <2> QED
      BY <2>1, <2>2 DEF RemoteCall
  <1> QED
    BY <1>3, <1>4, <1>7 DEF Message

LEMMA StartType ==
  ASSUME TypeOK, NEW w \in Worker, Start(w), UNCHANGED shared
  PROVE  TypeOK'
PROOF
  <1> DEFINE q == [type |-> "getAll"]
             o == Opened(<<q>>, Cluster)
  <1>1. q \in Request /\ Cluster \in Location
    BY DEF Request, Location
  <1>2. o \in Op /\ o.todo = <<q>> /\ o.todo # << >>
    <2>1. <<q>> \in Seq(Request) /\ <<q>> # << >>
      BY <1>1, SingleRequest
    <2>2. o \in Op
      BY <1>1, <2>1, OpenedOp
    <2>3. o.todo = <<q>>
      BY DEF Opened
    <2> QED
      BY <2>1, <2>2, <2>3
  <1>3. RemoteCall(w, "startup", o)
    BY DEF Start
  <1> HIDE DEF o, q
  <1>4. /\ op' \in [Caller -> Op] /\ messageIndex' \in [Worker -> Nat]
        /\ toMaster' \in [Worker -> Seq([index : Nat, request : Request])]
    BY <1>2, <1>3, RemoteCallType
  <1> QED
    BY <1>4 DEF Start, TypeOK

LEMMA OperateType ==
  ASSUME TypeOK, NEW w \in Worker, NEW o \in Operation, NEW at \in {w, shared},
         Operate(w, o, at), UNCHANGED shared
  PROVE  TypeOK'
PROOF
  <1> DEFINE c == <<w, "plugin">>
             new == Opened(Requests(o, at), at)
             q == Head(Requests(o, at))
  <1>1. at \in Location /\ c \in Caller
    BY DEF TypeOK, Location, Caller
  <1>2. Requests(o, at) \in Seq(Request) /\ Requests(o, at) # << >> /\ q \in Request
    BY <1>1, RequestsFacts
  <1>3. new \in Op /\ new.todo = Requests(o, at)
    BY <1>1, <1>2, OpenedOp DEF Opened
  <1>4. spent' \in [calls : 0 .. MaxCalls, faults : 0 .. MaxFaults]
    <2>1. spent.calls + 1 \in 0 .. MaxCalls
      BY PluginStorageAssumption DEF Operate, TypeOK
    <2> QED
      BY <2>1 DEF Operate, TypeOK
  <1>5. CASE at = w /\ local' = [local EXCEPT ![w] = LocalApply(@, Head(new.todo))]
             /\ op' = [op EXCEPT ![c] =
                  [new EXCEPT !.phase = "resolved", !.todo = << >>,
                              !.answer = LocalAnswer(local[w], Head(new.todo))]]
             /\ UNCHANGED <<messageIndex, toMaster, alone>>
    <2>1. local[w] \in Dict
      BY DEF TypeOK
    <2>2. LocalApply(local[w], q) \in Dict /\ LocalAnswer(local[w], q) \in Answer
      BY <1>2, <2>1, DictApply, AnswerApply
    <2>3. local' \in [Worker -> Dict]
      BY <1>3, <1>5, <2>2 DEF TypeOK
    <2> HIDE DEF new, q
    <2>4. << >> \in Seq(Request)
      OBVIOUS
    <2>5. [new EXCEPT !.phase = "resolved", !.todo = << >>, !.answer = LocalAnswer(local[w], q)] \in Op
      BY <1>3, <2>2, <2>4 DEF Op
    <2>6. Head(new.todo) = q
      BY <1>3 DEF q
    <2>7. op' \in [Caller -> Op]
      BY <1>1, <1>5, <2>5, <2>6 DEF TypeOK
    <2> QED
      BY <1>4, <1>5, <2>3, <2>7 DEF Operate, TypeOK
  <1>6. CASE at = Cluster /\ RemoteCall(w, "plugin", new) /\ UNCHANGED <<local, alone>>
    <2> HIDE DEF new
    <2>1. /\ op' \in [Caller -> Op] /\ messageIndex' \in [Worker -> Nat]
          /\ toMaster' \in [Worker -> Seq([index : Nat, request : Request])]
      BY <1>2, <1>3, <1>6, RemoteCallType
    <2> QED
      BY <1>4, <1>6, <2>1 DEF Operate, TypeOK
  <1>7. CASE at = Ha /\ op' = [op EXCEPT ![c] =
                                 IF o.type = "setAll" THEN [new EXCEPT !.writes = o.dict] ELSE new]
             /\ alone' = [d \in Caller |->
                  IF d = c THEN orphans = {} /\ \A e \in Caller \ {c} : ~Writes(e)
                  ELSE alone[d] /\ o.type \in {"get", "getAll"}]
             /\ UNCHANGED <<local, messageIndex, toMaster>>
    <2> HIDE DEF new
    <2>1. (IF o.type = "setAll" THEN [new EXCEPT !.writes = o.dict] ELSE new) \in Op
      <3>1. CASE o.type = "setAll"
        <4>1. o.dict \in Dict \cup {NoValue}
          BY <3>1, OperationParts
        <4>2. [new EXCEPT !.writes = o.dict] \in Op
          BY <1>3, <4>1 DEF Op
        <4> QED
          BY <3>1, <4>2
      <3>2. CASE o.type # "setAll"
        BY <1>3, <3>2
      <3> QED
        BY <3>1, <3>2
    <2>2. op' \in [Caller -> Op]
      BY <1>1, <1>7, <2>1 DEF TypeOK
    <2>3. alone' \in [Caller -> BOOLEAN]
      BY <1>7 DEF TypeOK
    <2> QED
      BY <1>4, <1>7, <2>2, <2>3 DEF Operate, TypeOK
  <1> QED
    BY <1>5, <1>6, <1>7 DEF Operate

LEMMA HandleCallType ==
  ASSUME TypeOK, NEW w \in Worker, HandleCall(w), UNCHANGED shared
  PROVE  TypeOK'
PROOF
  <1> DEFINE m == Head(toMaster[w])
  <1>1. m \in Message
    BY PipeType DEF HandleCall
  <1>2. cluster \in Dict /\ m.index \in Nat /\ m.request \in Request
    BY <1>1 DEF TypeOK, Message
  <1>3. LocalApply(cluster, m.request) \in Dict /\ LocalAnswer(cluster, m.request) \in Answer
    BY <1>2, DictApply, AnswerApply
  <1>4. cluster' \in Dict
    BY <1>3 DEF HandleCall
  <1>5. [worker |-> w, index |-> m.index, answer |-> LocalAnswer(cluster, m.request)]
          \in [worker : Worker, index : Nat, answer : Answer]
    BY <1>2, <1>3
  <1>6. replies' \subseteq [worker : Worker, index : Nat, answer : Answer]
    BY <1>5 DEF HandleCall, TypeOK
  <1>7. toMaster' \in [Worker -> Seq(Message)]
    <2>1. toMaster \in [Worker -> Seq(Message)]
      BY DEF TypeOK, Message
    <2> QED
      BY <2>1, PipeType DEF HandleCall
  <1> QED
    BY <1>4, <1>6, <1>7 DEF HandleCall, TypeOK, Message

LEMMA TakeReplyType ==
  ASSUME TypeOK, NEW w \in Worker, NEW a \in {"plugin", "startup"}, NEW r \in replies,
         TakeReply(w, a, r), UNCHANGED shared
  PROVE  TypeOK'
PROOF
  <1> DEFINE c == <<w, a>>
             getAll == a = "startup" /\ Head(op[c].todo).type = "getAll"
             o == Opened(<<[type |-> "merge", dict |-> local[w]]>>, Cluster)
  <1>1. c \in Caller /\ op[c] \in Op /\ r.answer \in Answer
    BY DEF TypeOK, Caller
  <1>2. replies' \subseteq [worker : Worker, index : Nat, answer : Answer]
    BY DEF TakeReply, TypeOK
  <1>3. CASE getAll
    <2>1. [type |-> "merge", dict |-> local[w]] \in Request /\ Cluster \in Location
      BY DEF Request, TypeOK, Location
    <2>2. o \in Op /\ o.todo # << >>
      <3> DEFINE q == [type |-> "merge", dict |-> local[w]]
      <3>1. <<q>> \in Seq(Request) /\ <<q>> # << >>
        BY <2>1, SingleRequest
      <3>2. Opened(<<q>>, Cluster) \in Op
        BY <2>1, <3>1, OpenedOp
      <3>3. o.todo = <<q>>
        BY DEF Opened
      <3> QED
        BY <3>1, <3>2, <3>3
    <2>3. RemoteCall(w, a, o)
      BY <1>3 DEF TakeReply
    <2> HIDE DEF o
    <2>4. /\ op' \in [Caller -> Op] /\ messageIndex' \in [Worker -> Nat]
          /\ toMaster' \in [Worker -> Seq([index : Nat, request : Request])]
      BY <2>2, <2>3, RemoteCallType
    <2> QED
      BY <1>2, <2>4 DEF TakeReply, TypeOK
  <1>4. CASE ~getAll
    <2>1. op' = [op EXCEPT ![c].phase = "resolved", ![c].todo = << >>, ![c].answer = r.answer]
      BY <1>4 DEF TakeReply
    <2> DEFINE x == op[c]
    <2>5. << >> \in Seq(Request) /\ x \in Op
      BY <1>1
    <2>2. [x EXCEPT !.phase = "resolved", !.todo = << >>, !.answer = r.answer] \in Op
      <3> HIDE DEF x
      <3> QED
        BY <1>1, <2>5 DEF Op
    <2>3. op' = [op EXCEPT ![c] = [op[c] EXCEPT !.phase = "resolved", !.todo = << >>,
                                               !.answer = r.answer]]
      BY <1>1, <2>1 DEF TypeOK
    <2>4. op' \in [Caller -> Op]
      BY <1>1, <2>2, <2>3 DEF TypeOK
    <2> QED
      BY <1>2, <1>4, <2>4 DEF TakeReply, TypeOK
  <1> QED
    BY <1>3, <1>4

LEMMA EndType ==
  ASSUME TypeOK, HaInv, NEW W \in SUBSET Worker, End(W), UNCHANGED shared
  PROVE  /\ local' \in [Worker -> Dict] /\ ha' \in Dict
         /\ op' \in [Caller -> Op] /\ messageIndex' \in [Worker -> Nat]
         /\ replies' \subseteq [worker : Worker, index : Nat, answer : Answer]
         /\ orphans' \subseteq [request : Request, create : BOOLEAN]
         /\ alone' \in [Caller -> BOOLEAN]
         /\ shared' \in {Cluster, Ha}
PROOF
  <1>1. EmptyDict \in Dict
    BY DEF EmptyDict, Dict
  <1>2. local' \in [Worker -> Dict] /\ ha' \in Dict
    BY <1>1 DEF End, TypeOK
  <1>3. op' \in [Caller -> Op]
    BY IdleOp DEF End, TypeOK
  <1>4. messageIndex' \in [Worker -> Nat]
    BY DEF End, TypeOK
  <1>5. replies' \subseteq [worker : Worker, index : Nat, answer : Answer]
    BY DEF End, TypeOK
  <1>6. alone' \in [Caller -> BOOLEAN]
    BY DEF End, TypeOK
  <1>7. InFlight(W) \subseteq [request : Request, create : BOOLEAN]
    <2> SUFFICES ASSUME NEW x \in InFlight(W) PROVE x \in [request : Request, create : BOOLEAN]
      OBVIOUS
    <2>1. PICK w \in W : x = [request |-> Head(op[<<w, "plugin">>].todo),
                              create |-> op[<<w, "plugin">>].create]
                         /\ Waiting(<<w, "plugin">>) /\ AtHa(<<w, "plugin">>)
      BY DEF InFlight, AtHa
    <2>2. <<w, "plugin">> \in Caller
      BY DEF Caller
    <2>3. op[<<w, "plugin">>] \in Op /\ op[<<w, "plugin">>].todo # << >>
      BY <2>1, <2>2 DEF TypeOK, HaInv
    <2>4. Head(op[<<w, "plugin">>].todo) \in Request /\ op[<<w, "plugin">>].create \in BOOLEAN
      BY <2>3 DEF Op
    <2> QED
      BY <2>1, <2>4
  <1>8. orphans' \subseteq [request : Request, create : BOOLEAN]
    BY <1>7 DEF End, TypeOK
  <1>9. shared' \in {Cluster, Ha}
    BY DEF TypeOK
  <1> QED
    BY <1>2, <1>3, <1>4, <1>5, <1>6, <1>8, <1>9

LEMMA FaultSpent ==
  ASSUME TypeOK, spent.faults < MaxFaults
  PROVE  [spent EXCEPT !.faults = @ + 1] \in [calls : 0 .. MaxCalls, faults : 0 .. MaxFaults]
PROOF
  <1>1. spent.faults + 1 \in 0 .. MaxFaults
    BY PluginStorageAssumption DEF TypeOK
  <1> QED
    BY <1>1 DEF TypeOK

LEMMA CrashType ==
  ASSUME TypeOK, HaInv, NEW w \in Worker, Crash(w), UNCHANGED shared
  PROVE  TypeOK'
PROOF
  <1>1. {w} \in SUBSET Worker /\ End({w})
    BY DEF Crash
  <1>2. spent' \in [calls : 0 .. MaxCalls, faults : 0 .. MaxFaults]
    BY FaultSpent DEF Crash
  <1>3. UNCHANGED <<cluster, toMaster>>
    BY DEF Crash
  <1> QED
    BY <1>1, <1>2, <1>3, EndType DEF TypeOK

LEMMA GiveUpType ==
  ASSUME TypeOK, HaInv, NEW c \in Caller, GiveUp(c), UNCHANGED shared
  PROVE  TypeOK'
PROOF
  <1>1. spent' \in [calls : 0 .. MaxCalls, faults : 0 .. MaxFaults]
    BY FaultSpent DEF GiveUp
  <1>2. CASE ServerEnds
    <2>1. cluster' \in Dict
      BY <1>2 DEF ServerEnds, EmptyDict, Dict
    <2>2. << >> \in Seq(Message)
      OBVIOUS
    <2>3. toMaster' \in [Worker -> Seq(Message)]
      BY <1>2, <2>2 DEF ServerEnds
    <2>4. Worker \in SUBSET Worker /\ End(Worker)
      BY <1>2 DEF ServerEnds
    <2> QED
      BY <1>1, <2>1, <2>3, <2>4, EndType DEF TypeOK, Message
  <1>3. CASE /\ op' = [op EXCEPT ![c].phase = "resolved", ![c].todo = << >>]
             /\ replies' = {r \in replies : ~AnswersCall(r, c)}
             /\ UNCHANGED <<local, cluster, ha, messageIndex, toMaster, orphans, alone>>
    <2> DEFINE x == op[c]
    <2>1. x \in Op /\ << >> \in Seq(Request)
      BY DEF TypeOK
    <2>2. [x EXCEPT !.phase = "resolved", !.todo = << >>] \in Op
      <3> HIDE DEF x
      <3> QED
        BY <2>1 DEF Op
    <2>3. op' = [op EXCEPT ![c] = [x EXCEPT !.phase = "resolved", !.todo = << >>]]
      BY <1>3 DEF TypeOK
    <2>4. op' \in [Caller -> Op]
      BY <2>2, <2>3 DEF TypeOK
    <2> QED
      BY <1>1, <1>3, <2>4 DEF TypeOK
  <1> QED
    BY <1>2, <1>3 DEF GiveUp

\* A request under way is one of the caching service's.
LEMMA HaCall ==
  ASSUME TypeOK, HaInv, NEW c \in Caller, AtHa(c)
  PROVE  /\ op[c] \in Op /\ op[c].todo \in Seq(Request) /\ op[c].todo # << >>
         /\ Head(op[c].todo) \in Request /\ Head(op[c].todo).type \in HaType
         /\ Head(op[c].todo) = op[c].todo[1] /\ Len(op[c].todo) >= 1
         /\ 1 \in DOMAIN op[c].todo
         /\ Tail(op[c].todo) \in Seq(Request)
PROOF
  <1>1. op[c] \in Op /\ op[c].todo # << >>
    BY DEF TypeOK, HaInv
  <1>2. op[c].todo \in Seq(Request)
    BY <1>1 DEF Op
  <1> DEFINE t == op[c].todo
  <1>3. t # << >> /\ t \in Seq(Request)
    BY <1>1, <1>2
  <1>4. /\ Head(t) = t[1] /\ Head(t) \in Request /\ 1 \in DOMAIN t /\ Len(t) >= 1
        /\ Tail(t) \in Seq(Request)
    <2> HIDE DEF t
    <2> QED
      BY <1>3
  <1>5. t[1].type \in HaType
    BY <1>4 DEF HaInv
  <1> QED
    BY <1>1, <1>3, <1>4, <1>5

LEMMA HandleHttpType ==
  ASSUME TypeOK, HaInv, NEW c \in Caller, HandleHttp(c), UNCHANGED shared
  PROVE  TypeOK'
PROOF
  <1> DEFINE x == op[c]
             q == Head(op[c].todo)
             done == CarriedOut(ha, q, op[c].create)
             outcome == Outcome(ha, q, op[c].create)
             Handles == /\ ha' = IF done THEN ServiceApply(ha, q) ELSE ha
                        /\ \E http \in {outcome, "failed"} :
                             /\ http # outcome => spent.faults < MaxFaults
                             /\ spent' = [spent EXCEPT !.faults =
                                            IF http # outcome THEN @ + 1 ELSE @]
                             /\ op' = [op EXCEPT ![c].http = http, ![c].handled = done,
                                         ![c].answer = IF done THEN ServiceAnswer(ha, q)
                                                       ELSE << >>]
  <1>1. x \in Op /\ q \in Request /\ ha \in Dict
    BY HaCall DEF HandleHttp, AtHa, TypeOK
  <1>2. ServiceApply(ha, q) \in Dict /\ ServiceAnswer(ha, q) \in Answer /\ << >> \in Answer
    BY <1>1, DictApply, AnswerApply DEF Answer
  <1>3. outcome \in {"ok", "notFound", "failed"}
    BY DEF Outcome
  <1>4. done \in BOOLEAN
    BY DEF CarriedOut
  <1>5. Handles \/ ( /\ spent.faults < MaxFaults
                     /\ spent' = [spent EXCEPT !.faults = @ + 1]
                     /\ op' = [op EXCEPT ![c].http = "failed"]
                     /\ UNCHANGED ha)
    BY DEF HandleHttp
  <1>6. UNCHANGED <<local, cluster, messageIndex, toMaster, replies, orphans, alone>>
    BY DEF HandleHttp
  <1>7. CASE Handles
    <2> DEFINE answer == IF done THEN ServiceAnswer(ha, q) ELSE << >>
    <2>1. ha' \in Dict
      BY <1>1, <1>2, <1>7
    <2>2. PICK http \in {outcome, "failed"} :
            /\ http # outcome => spent.faults < MaxFaults
            /\ spent' = [spent EXCEPT !.faults = IF http # outcome THEN @ + 1 ELSE @]
            /\ op' = [op EXCEPT ![c].http = http, ![c].handled = done, ![c].answer = answer]
      BY <1>7
    <2>3. answer \in Answer
      BY <1>2
    <2>4. op' = [op EXCEPT ![c] = [x EXCEPT !.http = http, !.handled = done, !.answer = answer]]
      BY <2>2 DEF TypeOK
    <2>5. http \in {"ok", "notFound", "failed"}
      BY <1>3
    <2>6. [x EXCEPT !.http = http, !.handled = done, !.answer = answer] \in Op
      <3> HIDE DEF x, done, answer
      <3> QED
        BY <1>1, <1>4, <2>3, <2>5 DEF Op
    <2>7. op' \in [Caller -> Op]
      BY <2>4, <2>6 DEF TypeOK
    <2>8. spent' \in [calls : 0 .. MaxCalls, faults : 0 .. MaxFaults]
      <3>1. CASE http # outcome
        <4>1. spent' = [spent EXCEPT !.faults = @ + 1]
          BY <2>2, <3>1
        <4> QED
          BY <2>2, <3>1, <4>1, FaultSpent
      <3>2. CASE http = outcome
        <4>1. spent' = [spent EXCEPT !.faults = @]
          BY <2>2, <3>2
        <4> QED
          BY <4>1 DEF TypeOK
      <3> QED
        BY <3>1, <3>2
    <2> QED
      BY <1>6, <2>1, <2>7, <2>8 DEF TypeOK
  <1>8. CASE /\ spent.faults < MaxFaults /\ spent' = [spent EXCEPT !.faults = @ + 1]
             /\ op' = [op EXCEPT ![c].http = "failed"] /\ UNCHANGED ha
    <2>1. op' = [op EXCEPT ![c] = [x EXCEPT !.http = "failed"]]
      BY <1>8 DEF TypeOK
    <2>2. [x EXCEPT !.http = "failed"] \in Op
      <3> HIDE DEF x
      <3> QED
        BY <1>1 DEF Op
    <2>3. op' \in [Caller -> Op]
      BY <2>1, <2>2 DEF TypeOK
    <2>4. spent' \in [calls : 0 .. MaxCalls, faults : 0 .. MaxFaults]
      BY <1>8, FaultSpent
    <2> QED
      BY <1>6, <1>8, <2>3, <2>4 DEF TypeOK
  <1> QED
    BY <1>5, <1>7, <1>8

LEMMA TakeHttpType ==
  ASSUME TypeOK, HaInv, NEW c \in Caller, TakeHttp(c), UNCHANGED shared
  PROVE  TypeOK'
PROOF
  <1> DEFINE x == op[c]
             y == [Continue(x) EXCEPT !.http = "sent", !.handled = FALSE]
             o == [request |-> Head(op[c].todo), create |-> op[c].create]
  <1>1. /\ x \in Op /\ Head(x.todo) \in Request /\ Tail(x.todo) \in Seq(Request)
        /\ << >> \in Seq(Request) /\ << >> \in Answer
    BY HaCall DEF TakeHttp, AtHa, Answer
  <1>2. Continue(x) \in Op
    <2> HIDE DEF x
    <2> QED
      BY <1>1 DEF Continue, Op
  <1>3. y \in Op
    <2> DEFINE z == Continue(x)
    <2>1. z \in Op
      BY <1>2
    <2>2. [z EXCEPT !.http = "sent", !.handled = FALSE] \in Op
      <3> HIDE DEF z
      <3> QED
        BY <2>1 DEF Op
    <2> QED
      BY <2>2
  <1>4. op' \in [Caller -> Op]
    BY <1>3 DEF TakeHttp, TypeOK
  <1>5. o \in [request : Request, create : BOOLEAN]
    BY <1>1 DEF Op
  <1>6. orphans' \subseteq [request : Request, create : BOOLEAN]
    BY <1>5 DEF TakeHttp, TypeOK
  <1> QED
    BY <1>4, <1>6 DEF TakeHttp, TypeOK

LEMMA HandleOrphanType ==
  ASSUME TypeOK, NEW x \in orphans, HandleOrphan(x), UNCHANGED shared
  PROVE  TypeOK'
PROOF
  <1>1. x.request \in Request /\ ha \in Dict
    BY DEF TypeOK
  <1>2. ServiceApply(ha, x.request) \in Dict
    BY <1>1, DictApply
  <1>3. ha' \in Dict
    BY <1>1, <1>2 DEF HandleOrphan
  <1>4. orphans' \subseteq [request : Request, create : BOOLEAN]
    BY DEF HandleOrphan, TypeOK
  <1> QED
    BY <1>3, <1>4 DEF HandleOrphan, TypeOK

-----------------------------------------------------------------------------
(* Remote calls: CallsInv is inductive                                     *)

\* Steps that make no remote call and answer none.
LEMMA CallsFrame ==
  ASSUME TypeOK, CallsInv, UNCHANGED <<messageIndex, toMaster>>, replies' \subseteq replies,
         \A w \in Worker : /\ Started(w)' = Started(w)
                           /\ Waiting(<<w, "plugin">>)' => Started(w),
         \A c \in Caller :
           /\ Waiting(c)' => op'[c].at \in {Cluster, Ha}
           /\ AtCluster(c)' => AtCluster(c) /\ op'[c] = op[c]
  PROVE  CallsInv'
PROOF
  <1>1. PipeInv'
    BY DEF CallsInv, PipeInv, OwnPipe
  <1>2. ReplyInv'
    <2>1. \A r \in replies' : r \in replies /\ r.worker \in Worker
      BY DEF TypeOK
    <2> QED
      BY <2>1 DEF CallsInv, ReplyInv, OwnReply
  <1>3. ClusterInv'
    <2>1. \A c, d \in Caller : AtCluster(c)' /\ AtCluster(d)' =>
            AtCluster(c) /\ AtCluster(d) /\ op'[c] = op[c] /\ op'[d] = op[d]
      OBVIOUS
    <2> QED
      BY <2>1 DEF CallsInv, ClusterInv, OneRequest
  <1> QED
    BY <1>1, <1>2, <1>3 DEF CallsInv

\* What callClusterMethodRemote() leaves of the old state and what it adds.
RemoteCalled(w, a, o) ==
  LET c == <<w, a>>
      n == Len(toMaster[w]) IN
  /\ c \in Caller /\ op'[c] = [o EXCEPT !.index = messageIndex[w]]
  /\ op'[c].phase = o.phase /\ op'[c].at = o.at /\ op'[c].todo = o.todo
  /\ op'[c].answer = o.answer /\ op'[c].index = messageIndex[w]
  /\ \A d \in Caller \ {c} : op'[d] = op[d]
  /\ messageIndex[w] \in Nat /\ messageIndex'[w] = messageIndex[w] + 1
  /\ n \in Nat /\ Len(toMaster'[w]) = n + 1
  /\ DOMAIN toMaster[w] = 1 .. n /\ DOMAIN toMaster'[w] = 1 .. n + 1
  /\ toMaster'[w][n + 1].index = messageIndex[w]
  /\ toMaster'[w][n + 1].request = o.todo[1]
  /\ \A i \in 1 .. n : toMaster'[w][i] = toMaster[w][i]
  /\ \A v \in Worker \ {w} : toMaster'[v] = toMaster[v] /\ messageIndex'[v] = messageIndex[v]

LEMMA RemoteCallParts ==
  ASSUME TypeOK, NEW w \in Worker, NEW a \in {"plugin", "startup"}, NEW o \in Op,
         Len(o.todo) = 1, RemoteCall(w, a, o)
  PROVE  RemoteCalled(w, a, o)
PROOF
  <1> DEFINE c == <<w, a>>
             m == [index |-> messageIndex[w], request |-> Head(o.todo)]
             s == toMaster[w]
  <1>1. c \in Caller
    BY DEF Caller
  <1>2. op' = [op EXCEPT ![c] = [o EXCEPT !.index = messageIndex[w]]]
    BY DEF RemoteCall
  <1>3. op'[c] = [o EXCEPT !.index = messageIndex[w]] /\ \A d \in Caller \ {c} : op'[d] = op[d]
    BY <1>1, <1>2 DEF TypeOK
  <1>4. /\ op'[c].phase = o.phase /\ op'[c].at = o.at /\ op'[c].todo = o.todo
        /\ op'[c].answer = o.answer /\ op'[c].index = messageIndex[w]
    BY <1>3 DEF Op
  <1>5. o.todo \in Seq(Request) /\ Head(o.todo) = o.todo[1]
    BY DEF Op
  <1>6. s \in Seq(Message) /\ toMaster'[w] = Append(s, m)
        /\ \A v \in Worker \ {w} : toMaster'[v] = toMaster[v]
    BY PipeType DEF RemoteCall, TypeOK
  <1>7. /\ messageIndex[w] \in Nat /\ messageIndex'[w] = messageIndex[w] + 1
        /\ \A v \in Worker \ {w} : messageIndex'[v] = messageIndex[v]
    BY DEF RemoteCall, TypeOK
  <1>8. m.index = messageIndex[w] /\ m.request = o.todo[1]
    BY <1>5
  <1>9. /\ Len(s) \in Nat /\ Len(Append(s, m)) = Len(s) + 1 /\ DOMAIN s = 1 .. Len(s)
        /\ DOMAIN Append(s, m) = 1 .. Len(s) + 1
        /\ Append(s, m)[Len(s) + 1] = m
        /\ \A i \in 1 .. Len(s) : Append(s, m)[i] = s[i]
    <2>1. m \in Message
      BY <1>5, <1>7, <1>8 DEF Message, Op
    <2> HIDE DEF m, s
    <2> QED
      BY <1>6, <2>1
  <1> QED
    BY <1>1, <1>3, <1>4, <1>6, <1>7, <1>8, <1>9 DEF RemoteCalled

LEMMA RemoteCallCalls ==
  ASSUME TypeOK, CallsInv, NEW w \in Worker, NEW a \in {"plugin", "startup"}, NEW o \in Op,
         o.phase = "waiting", o.at = Cluster, o.answer = << >>,
         Len(o.todo) = 1, o.todo[1].type # "clear",
         RemoteCall(w, a, o), replies' \subseteq replies,
         Started(w) \/ (a = "startup" /\ toMaster[w] = << >>)
  PROVE  CallsInv'
PROOF
  <1> DEFINE c == <<w, a>>
             n == Len(toMaster[w])
  <1>0. RemoteCalled(w, a, o)
    BY RemoteCallParts
  <1>1. /\ c \in Caller /\ op'[c].phase = "waiting" /\ op'[c].at = Cluster
        /\ op'[c].todo = o.todo
        /\ op'[c].answer = << >> /\ op'[c].index = messageIndex[w]
        /\ \A d \in Caller \ {c} : op'[d] = op[d]
    BY <1>0 DEF RemoteCalled
  <1>2. /\ messageIndex[w] \in Nat /\ messageIndex'[w] = messageIndex[w] + 1
        /\ n \in Nat /\ DOMAIN toMaster[w] = 1 .. n /\ DOMAIN toMaster'[w] = 1 .. n + 1
        /\ toMaster'[w][n + 1].index = messageIndex[w]
        /\ toMaster'[w][n + 1].request = o.todo[1]
        /\ \A i \in 1 .. n : toMaster'[w][i] = toMaster[w][i]
        /\ \A v \in Worker \ {w} : toMaster'[v] = toMaster[v] /\ messageIndex'[v] = messageIndex[v]
    BY <1>0 DEF RemoteCalled
  <1>3. Started(w)' /\ \A v \in Worker \ {w} : Started(v)' = Started(v)
    BY <1>1, CallerOf DEF Started
  <1>4. ~Started(w) => n = 0
    BY PipeType
  <1>5. \A i \in 1 .. n : toMaster[w][i].index \in Nat /\ toMaster[w][i].index < messageIndex[w]
    <2> SUFFICES ASSUME NEW i \in 1 .. n
                 PROVE  toMaster[w][i].index \in Nat /\ toMaster[w][i].index < messageIndex[w]
      OBVIOUS
    <2>1. toMaster[w][i] \in Message
      BY PipeType, ElementOfSeq
    <2>2. Started(w)
      BY <1>2, <1>4
    <2> QED
      BY <1>2, <2>1, <2>2 DEF CallsInv, PipeInv, OwnPipe, Message
  <1>6. PipeInv'
    <2> SUFFICES ASSUME NEW v \in Worker
                 PROVE
           /\ Started(v)' \/ ~Waiting(<<v, "plugin">>)'
           /\ \A i \in DOMAIN toMaster'[v] :
                /\ toMaster'[v][i].request.type # "clear"
                /\ Started(v)' => toMaster'[v][i].index < messageIndex'[v]
           /\ \A i, j \in DOMAIN toMaster'[v] :
                toMaster'[v][i].index = toMaster'[v][j].index => i = j
      BY DEF PipeInv, OwnPipe
    <2>1. CASE v # w
      <3>1. Waiting(<<v, "plugin">>)' = Waiting(<<v, "plugin">>)
        BY <1>1, <2>1, CallerOf DEF Waiting
      <3> QED
        BY <1>2, <1>3, <2>1, <3>1 DEF CallsInv, PipeInv, OwnPipe
    <2>2. CASE v = w
      <3>1. \A i \in 1 .. n + 1 : i = n + 1 \/ i \in 1 .. n
        BY <1>2
      <3>2. \A i \in 1 .. n : toMaster[w][i].request.type # "clear"
              /\ \A j \in 1 .. n : toMaster[w][i].index = toMaster[w][j].index => i = j
        BY <1>2 DEF CallsInv, PipeInv, OwnPipe
      <3>3. \A i \in 1 .. n + 1 : toMaster'[w][i].request.type # "clear"
        BY <1>2, <3>1, <3>2
      <3>6. \A i \in 1 .. n : /\ toMaster'[w][i].index = toMaster[w][i].index
                              /\ toMaster'[w][i].index \in Nat
                              /\ toMaster'[w][i].index < messageIndex[w]
        BY <1>2, <1>5
      <3>4. ASSUME NEW i \in 1 .. n + 1
            PROVE  toMaster'[w][i].index < messageIndex'[w]
        <4>1. CASE i = n + 1
          BY <1>2, <4>1
        <4>2. CASE i \in 1 .. n
          <5> DEFINE x == toMaster'[w][i].index
          <5>1. x \in Nat /\ x < messageIndex[w]
            BY <3>6, <4>2
          <5> HIDE DEF x
          <5>2. x < messageIndex[w] + 1
            BY <1>2, <5>1
          <5> QED
            BY <1>2, <5>2 DEF x
        <4> QED
          BY <3>1, <4>1, <4>2
      <3>5. ASSUME NEW i \in 1 .. n + 1, NEW j \in 1 .. n + 1,
                   toMaster'[w][i].index = toMaster'[w][j].index
            PROVE  i = j
        <4>1. CASE i \in 1 .. n /\ j \in 1 .. n
          BY <3>2, <3>5, <3>6, <4>1
        <4>2. \A k \in 1 .. n : toMaster'[w][k].index # messageIndex[w]
          BY <1>2, <3>6
        <4> QED
          BY <1>2, <3>1, <3>5, <4>1, <4>2
      <3> QED
        BY <1>2, <1>3, <2>2, <3>3, <3>4, <3>5
    <2> QED
      BY <2>1, <2>2
  <1>7. \A r \in replies : r.worker = w =>
          Started(w) /\ r.index \in Nat /\ r.index < messageIndex[w]
    BY DEF CallsInv, ReplyInv, OwnReply, TypeOK
  <1>8. ReplyInv'
    <2> SUFFICES ASSUME NEW r \in replies'
                 PROVE
           /\ Started(r.worker)' /\ r.index < messageIndex'[r.worker]
           /\ \A i \in DOMAIN toMaster'[r.worker] : toMaster'[r.worker][i].index # r.index
           /\ \A s \in replies' : s.worker = r.worker /\ s.index = r.index => s = r
      BY DEF ReplyInv, OwnReply
    <2>1. r \in replies /\ r.worker \in Worker
      BY DEF TypeOK
    <2>2. /\ Started(r.worker) /\ r.index < messageIndex[r.worker]
          /\ \A i \in DOMAIN toMaster[r.worker] : toMaster[r.worker][i].index # r.index
          /\ \A s \in replies : s.worker = r.worker /\ s.index = r.index => s = r
      BY <2>1 DEF CallsInv, ReplyInv, OwnReply
    <2>3. CASE r.worker # w
      BY <1>2, <1>3, <2>1, <2>2, <2>3
    <2>4. CASE r.worker = w
      <3>1. \A i \in 1 .. n + 1 : i = n + 1 \/ i \in 1 .. n
        BY <1>2
      <3>2. r.index < messageIndex'[w] /\ r.index # messageIndex[w]
        BY <1>2, <1>7, <2>1, <2>4
      <3>3. \A i \in 1 .. n + 1 : toMaster'[w][i].index # r.index
        BY <1>2, <2>2, <2>4, <3>1, <3>2
      <3> QED
        BY <1>2, <1>3, <2>2, <2>4, <3>2, <3>3
    <2> QED
      BY <2>3, <2>4
  <1>9. ASSUME NEW d \in Caller \ {c}, AtCluster(d)'
        PROVE  /\ op'[d] = op[d] /\ AtCluster(d) /\ op[d].index \in Nat
               /\ op[d].index < messageIndex[d[1]] /\ op[d].answer = << >>
               /\ Len(op[d].todo) = 1 /\ op[d].todo[1].type # "clear"
               /\ \A i \in DOMAIN toMaster[d[1]] :
                    toMaster[d[1]][i].index = op[d].index =>
                      toMaster[d[1]][i].request = op[d].todo[1]
    <2>1. op'[d] = op[d] /\ AtCluster(d)
      BY <1>1, <1>9 DEF AtCluster, Waiting
    <2>2. op[d].index \in Nat
      BY DEF TypeOK, Op
    <2> QED
      BY <2>1, <2>2 DEF CallsInv, ClusterInv, OneRequest
  <1>10. ClusterInv'
    <2> SUFFICES ASSUME NEW d \in Caller
                 PROVE
           /\ Waiting(d)' => op'[d].at \in {Cluster, Ha}
           /\ AtCluster(d)' =>
                /\ op'[d].index < messageIndex'[d[1]] /\ op'[d].answer = << >>
                /\ Len(op'[d].todo) = 1 /\ op'[d].todo[1].type # "clear"
                /\ \A i \in DOMAIN toMaster'[d[1]] :
                     toMaster'[d[1]][i].index = op'[d].index =>
                       toMaster'[d[1]][i].request = op'[d].todo[1]
                /\ \A e \in Caller \ {d} :
                     AtCluster(e)' /\ e[1] = d[1] => op'[e].index # op'[d].index
      BY DEF ClusterInv, OneRequest
    <2>0. \A i \in 1 .. n + 1 : i = n + 1 \/ i \in 1 .. n
      BY <1>2
    <2>4. c[1] = w /\ DOMAIN toMaster'[w] = 1 .. n + 1
      BY <1>2
    <2> HIDE DEF c, n
    <2>1. CASE d = c
      <3>1. d[1] = w
        BY <2>1, <2>4
      <3>2. /\ op'[d].index = messageIndex[w] /\ op'[d].index < messageIndex'[w]
            /\ op'[d].answer = << >> /\ op'[d].todo = o.todo
        BY <1>1, <1>2, <2>1
      <3>3. \A i \in 1 .. n + 1 : toMaster'[w][i].index = messageIndex[w] =>
               toMaster'[w][i].request = o.todo[1]
        BY <1>2, <1>5, <2>0
      <3>4. \A e \in Caller \ {d} : AtCluster(e)' /\ e[1] = w => op'[e].index # messageIndex[w]
        BY <1>2, <1>9, <2>1
      <3>5. op'[d].at = Cluster /\ Len(op'[d].todo) = 1 /\ op'[d].todo[1].type # "clear"
        BY <1>1, <2>1
      <3> QED
        BY <2>4, <3>1, <3>2, <3>3, <3>4, <3>5
    <2>2. CASE d # c /\ d[1] = w
      <3>1. Waiting(d)' => op'[d].at \in {Cluster, Ha}
        BY <1>1, <2>2 DEF CallsInv, ClusterInv, OneRequest, Waiting
      <3>2. ASSUME AtCluster(d)'
            PROVE  /\ op'[d].index < messageIndex'[w] /\ op'[d].answer = << >>
                   /\ Len(op'[d].todo) = 1 /\ op'[d].todo[1].type # "clear"
                   /\ \A i \in 1 .. n + 1 :
                        toMaster'[w][i].index = op'[d].index =>
                          toMaster'[w][i].request = op'[d].todo[1]
        <4>1. op[d].index # messageIndex[w] /\ op[d].index < messageIndex[w] + 1
          BY <1>2, <1>9, <2>2, <3>2
        <4>2. /\ op'[d] = op[d] /\ op[d].answer = << >>
              /\ Len(op[d].todo) = 1 /\ op[d].todo[1].type # "clear"
              /\ \A i \in 1 .. n :
                   toMaster[w][i].index = op[d].index => toMaster[w][i].request = op[d].todo[1]
          BY <1>2, <1>9, <2>2, <3>2
        <4>3. \A i \in 1 .. n + 1 :
                toMaster'[w][i].index = op[d].index => toMaster'[w][i].request = op[d].todo[1]
          BY <1>2, <2>0, <4>1, <4>2
        <4> QED
          BY <1>2, <4>1, <4>2, <4>3
      <3>3. ASSUME AtCluster(d)', NEW e \in Caller \ {d}, AtCluster(e)', e[1] = w
            PROVE  op'[e].index # op'[d].index
        <4>1. CASE e = c
          BY <1>1, <1>2, <1>9, <2>2, <3>3, <4>1
        <4>2. CASE e # c
          BY <1>9, <2>2, <3>3, <4>2 DEF CallsInv, ClusterInv, OneRequest
        <4> QED
          BY <4>1, <4>2
      <3> QED
        BY <1>2, <2>2, <3>1, <3>2, <3>3
    <2>3. CASE d[1] # w
      <3>1. d # c /\ d[1] \in Worker
        BY <2>3, <2>4 DEF Caller
      <3>2. Waiting(d)' => op'[d].at \in {Cluster, Ha}
        BY <1>1, <3>1 DEF CallsInv, ClusterInv, OneRequest, Waiting
      <3>3. \A e \in Caller : e[1] = d[1] => e # c
        BY <2>3, <2>4
      <3>4. AtCluster(d)' => \A e \in Caller \ {d} :
              AtCluster(e)' /\ e[1] = d[1] => op'[e].index # op'[d].index
        BY <1>9, <3>1, <3>3 DEF CallsInv, ClusterInv, OneRequest
      <3>5. toMaster'[d[1]] = toMaster[d[1]] /\ messageIndex'[d[1]] = messageIndex[d[1]]
        BY <1>2, <2>3, <3>1
      <3>6. AtCluster(d)' =>
              /\ op'[d].index < messageIndex'[d[1]] /\ op'[d].answer = << >>
              /\ Len(op'[d].todo) = 1 /\ op'[d].todo[1].type # "clear"
              /\ \A i \in DOMAIN toMaster'[d[1]] :
                   toMaster'[d[1]][i].index = op'[d].index =>
                     toMaster'[d[1]][i].request = op'[d].todo[1]
        BY <1>9, <3>1, <3>5
      <3> QED
        BY <3>2, <3>4, <3>6
    <2> QED
      BY <2>1, <2>2, <2>3
  <1> QED
    BY <1>6, <1>8, <1>10 DEF CallsInv

\* Taking the first message off a pipe.
LEMMA TailOfPipe ==
  ASSUME TypeOK, NEW w \in Worker, toMaster[w] # << >>,
         toMaster' = [toMaster EXCEPT ![w] = Tail(@)]
  PROVE  LET n == Len(toMaster[w]) IN
         /\ n \in Nat /\ n >= 1 /\ Head(toMaster[w]) = toMaster[w][1]
         /\ DOMAIN toMaster[w] = 1 .. n /\ DOMAIN toMaster'[w] = 1 .. n - 1
         /\ \A i \in 1 .. n - 1 : toMaster'[w][i] = toMaster[w][i + 1] /\ i + 1 \in 1 .. n
         /\ \A i \in 1 .. n : i = 1 \/ (i - 1 \in 1 .. n - 1 /\ toMaster'[w][i - 1] = toMaster[w][i])
         /\ \A v \in Worker \ {w} : toMaster'[v] = toMaster[v]
         /\ \A v \in Worker : \A i \in DOMAIN toMaster'[v] :
              \E j \in DOMAIN toMaster[v] : toMaster'[v][i] = toMaster[v][j]
                                            /\ j = (IF v = w THEN i + 1 ELSE i)
PROOF
  <1> DEFINE s == toMaster[w]
             n == Len(s)
             t == Tail(s)
  <1>1. s \in Seq(Message) /\ s # << >>
    BY PipeType
  <1>2. toMaster'[w] = t /\ \A v \in Worker \ {w} : toMaster'[v] = toMaster[v]
    BY DEF TypeOK
  <1>3. /\ n \in Nat /\ n >= 1 /\ Head(s) = s[1]
        /\ DOMAIN s = 1 .. n /\ DOMAIN t = 1 .. n - 1
        /\ \A i \in 1 .. n - 1 : t[i] = s[i + 1] /\ i + 1 \in 1 .. n
    <2> HIDE DEF s
    <2> QED
      BY <1>1
  <1> HIDE DEF s, t
  <1>4. \A i \in 1 .. n : i = 1 \/ (i - 1 \in 1 .. n - 1 /\ t[i - 1] = s[i])
    <2> SUFFICES ASSUME NEW i \in 1 .. n, i # 1
                 PROVE  i - 1 \in 1 .. n - 1 /\ t[i - 1] = s[i]
      OBVIOUS
    <2>1. i - 1 \in 1 .. n - 1 /\ (i - 1) + 1 = i
      BY <1>3
    <2>2. t[i - 1] = s[(i - 1) + 1]
      BY <1>3, <2>1
    <2> QED
      BY <2>1, <2>2
  <1>5. \A v \in Worker : \A i \in DOMAIN toMaster'[v] :
          \E j \in DOMAIN toMaster[v] : toMaster'[v][i] = toMaster[v][j]
                                        /\ j = (IF v = w THEN i + 1 ELSE i)
    BY <1>2, <1>3 DEF s
  <1> QED
    BY <1>2, <1>3, <1>4, <1>5 DEF s

LEMMA HandleCallCalls ==
  ASSUME TypeOK, CallsInv, NEW w \in Worker, HandleCall(w)
  PROVE  CallsInv'
PROOF
  <1> DEFINE m == toMaster[w][1]
             n == Len(toMaster[w])
  <1>1. toMaster[w] # << >> /\ toMaster' = [toMaster EXCEPT ![w] = Tail(@)]
        /\ UNCHANGED <<op, messageIndex>>
    BY DEF HandleCall
  <1>2. /\ n \in Nat /\ n >= 1 /\ Head(toMaster[w]) = m /\ DOMAIN toMaster[w] = 1 .. n
        /\ DOMAIN toMaster'[w] = 1 .. n - 1
        /\ \A i \in 1 .. n - 1 : toMaster'[w][i] = toMaster[w][i + 1] /\ i + 1 \in 1 .. n
        /\ \A v \in Worker \ {w} : toMaster'[v] = toMaster[v]
    BY <1>1, TailOfPipe
  <1>3. \A v \in Worker : \A i \in DOMAIN toMaster'[v] :
          \E j \in DOMAIN toMaster[v] : toMaster'[v][i] = toMaster[v][j]
                                        /\ j = (IF v = w THEN i + 1 ELSE i)
    BY <1>1, TailOfPipe
  <1>4. PipeInv'
    <2> SUFFICES ASSUME NEW v \in Worker
                 PROVE
           /\ Started(v)' \/ ~Waiting(<<v, "plugin">>)'
           /\ \A i \in DOMAIN toMaster'[v] :
                /\ toMaster'[v][i].request.type # "clear"
                /\ Started(v)' => toMaster'[v][i].index < messageIndex'[v]
           /\ \A i, j \in DOMAIN toMaster'[v] :
                toMaster'[v][i].index = toMaster'[v][j].index => i = j
      BY DEF PipeInv, OwnPipe
    <2>1. Started(v)' = Started(v) /\ Waiting(<<v, "plugin">>)' = Waiting(<<v, "plugin">>)
      BY <1>1 DEF Started, Waiting
    <2>2. \A i \in DOMAIN toMaster'[v] : i \in Int
      BY <1>2, PipeType
    <2>3. \A i, j \in DOMAIN toMaster'[v] : (IF v = w THEN i + 1 ELSE i) = (IF v = w THEN j + 1 ELSE j)
                                               => i = j
      BY <2>2
    <2>4. ASSUME NEW i \in DOMAIN toMaster'[v], NEW j \in DOMAIN toMaster'[v],
                 toMaster'[v][i].index = toMaster'[v][j].index
          PROVE  i = j
      <3>1. PICK k \in DOMAIN toMaster[v] : toMaster'[v][i] = toMaster[v][k]
                                           /\ k = (IF v = w THEN i + 1 ELSE i)
        BY <1>3
      <3>2. PICK l \in DOMAIN toMaster[v] : toMaster'[v][j] = toMaster[v][l]
                                           /\ l = (IF v = w THEN j + 1 ELSE j)
        BY <1>3
      <3>3. k = l
        BY <2>4, <3>1, <3>2 DEF CallsInv, PipeInv, OwnPipe
      <3> QED
        BY <2>3, <3>1, <3>2, <3>3
    <2> QED
      BY <1>1, <1>3, <2>1, <2>4 DEF CallsInv, PipeInv, OwnPipe
  <1>5. \A i \in DOMAIN toMaster'[w] : toMaster'[w][i].index # m.index
    <2> SUFFICES ASSUME NEW i \in 1 .. n - 1 PROVE toMaster'[w][i].index # m.index
      BY <1>2
    <2>1. i + 1 \in 1 .. n /\ i + 1 # 1 /\ 1 \in 1 .. n /\ toMaster'[w][i] = toMaster[w][i + 1]
      BY <1>2
    <2>2. toMaster[w][i + 1].index = toMaster[w][1].index => i + 1 = 1
      BY <1>2, <2>1 DEF CallsInv, PipeInv, OwnPipe
    <2> QED
      BY <2>1, <2>2
  <1>6. PICK a \in {"plugin", "startup"} :
          \A r \in replies' \ replies :
            /\ r.worker = w /\ r.index = m.index /\ r.answer = LocalAnswer(cluster, m.request)
            /\ AtCluster(<<w, a>>) /\ op[<<w, a>>].index = m.index
    <2> DEFINE r0 == [worker |-> w, index |-> m.index, answer |-> LocalAnswer(cluster, m.request)]
    <2>1. CASE \E a \in {"plugin", "startup"} :
                 Waiting(<<w, a>>) /\ op[<<w, a>>].at = Cluster /\ op[<<w, a>>].index = m.index
      <3>1. replies' = replies \cup {r0}
        BY <1>2, <2>1 DEF HandleCall
      <3> QED
        BY <2>1, <3>1 DEF AtCluster
    <2>2. CASE ~ \E a \in {"plugin", "startup"} :
                 Waiting(<<w, a>>) /\ op[<<w, a>>].at = Cluster /\ op[<<w, a>>].index = m.index
      <3>1. replies' = replies
        BY <1>2, <2>2 DEF HandleCall
      <3> QED
        BY <3>1
    <2> QED
      BY <2>1, <2>2
  <1>7. ReplyInv'
    <2>0. 1 \in DOMAIN toMaster[w]
      BY <1>2
    <2>1. \A r \in replies : /\ Started(r.worker) /\ r.index < messageIndex[r.worker]
                             /\ r.worker \in Worker
                             /\ r.worker = w => r.index # m.index
      BY <2>0 DEF CallsInv, ReplyInv, OwnReply, TypeOK
    <2>2. \A v \in Worker : Started(v)' = Started(v)
      BY <1>1 DEF Started
    <2>3. ASSUME NEW r \in replies' \ replies
          PROVE  /\ r.worker = w /\ r.index = m.index /\ r.answer = LocalAnswer(cluster, m.request)
                 /\ Started(w) /\ r.index < messageIndex[w]
      <3>1. <<w, a>> \in Caller /\ <<w, a>>[1] = w
        BY DEF Caller
      <3>2. /\ r.worker = w /\ r.index = m.index /\ r.answer = LocalAnswer(cluster, m.request)
            /\ AtCluster(<<w, a>>) /\ op[<<w, a>>].index = m.index
        BY <1>6, <2>3
      <3>3. r.index < messageIndex[w]
        BY <3>1, <3>2 DEF CallsInv, ClusterInv, OneRequest
      <3>4. Started(w)
        BY <3>2 DEF AtCluster, Waiting, Started, CallsInv, PipeInv, OwnPipe
      <3> QED
        BY <3>2, <3>3, <3>4
    <2>4. ASSUME NEW r \in replies'
          PROVE  /\ Started(r.worker)' /\ r.index < messageIndex'[r.worker]
                 /\ \A i \in DOMAIN toMaster'[r.worker] : toMaster'[r.worker][i].index # r.index
      <3>1. CASE r \in replies
        <4>1. /\ Started(r.worker)' /\ r.index < messageIndex'[r.worker] /\ r.worker \in Worker
              /\ \A i \in DOMAIN toMaster[r.worker] : toMaster[r.worker][i].index # r.index
          BY <1>1, <2>1, <2>2, <3>1 DEF CallsInv, ReplyInv, OwnReply
        <4> QED
          BY <1>3, <4>1
      <3>2. CASE r \notin replies
        BY <1>1, <1>5, <2>2, <2>3, <3>2
      <3> QED
        BY <3>1, <3>2
    <2>5. replies' \subseteq [worker : Worker, index : Nat, answer : Answer]
      <3>1. 1 \in DOMAIN toMaster[w] /\ m \in Message
        BY <1>2, PipeType, ElementOfSeq
      <3>2. LocalAnswer(cluster, m.request) \in Answer
        BY <3>1, AnswerApply DEF Message, TypeOK
      <3>3. [worker |-> w, index |-> m.index, answer |-> LocalAnswer(cluster, m.request)]
              \in [worker : Worker, index : Nat, answer : Answer]
        BY <3>1, <3>2 DEF Message
      <3> QED
        BY <1>2, <3>3 DEF HandleCall, TypeOK
    <2>6. ASSUME NEW r \in replies', NEW s \in replies', s.worker = r.worker, s.index = r.index
          PROVE  s = r
      <3>1. CASE r \in replies /\ s \in replies
        BY <2>6, <3>1 DEF CallsInv, ReplyInv, OwnReply
      <3>2. CASE (r \in replies) # (s \in replies)
        BY <2>1, <2>3, <2>6, <3>2
      <3>3. CASE r \notin replies /\ s \notin replies
        BY <2>3, <2>5, <3>3
      <3> QED
        BY <3>1, <3>2, <3>3
    <2> QED
      BY <2>4, <2>6 DEF ReplyInv, OwnReply
  <1>8. ClusterInv'
    <2>1. \A c \in Caller : op'[c] = op[c] /\ AtCluster(c)' = AtCluster(c)
                            /\ Waiting(c)' = Waiting(c) /\ c[1] \in Worker
      BY <1>1 DEF AtCluster, Waiting, Caller
    <2>2. messageIndex' = messageIndex
      BY <1>1
    <2> SUFFICES ASSUME NEW c \in Caller, AtCluster(c)
                 PROVE  OneRequest(c)'
      BY <2>1 DEF CallsInv, ClusterInv
    <2>3. OneRequest(c) /\ c[1] \in Worker
      BY <2>1 DEF CallsInv, ClusterInv
    <2>4. \A i \in DOMAIN toMaster'[c[1]] :
            toMaster'[c[1]][i].index = op[c].index => toMaster'[c[1]][i].request = op[c].todo[1]
      BY <1>3, <2>3 DEF OneRequest
    <2> QED
      BY <2>1, <2>2, <2>3, <2>4 DEF OneRequest
  <1> QED
    BY <1>4, <1>7, <1>8 DEF CallsInv

LEMMA EndCalls ==
  ASSUME TypeOK, CallsInv, NEW W \in SUBSET Worker, End(W),
         toMaster' = toMaster \/ toMaster' = [w \in Worker |-> << >>]
  PROVE  CallsInv'
PROOF
  <1>1. \A c \in Caller : /\ c[1] \in Worker
                          /\ op'[c] = IF c[1] \in W THEN Idle ELSE op[c]
    BY DEF End, Caller
  <1>2. Idle.phase = "idle"
    BY DEF Idle, Opened
  <1>3. \A w \in Worker : /\ messageIndex'[w] = IF w \in W THEN 0 ELSE messageIndex[w]
                          /\ Started(w)' = (w \notin W /\ Started(w))
                          /\ Waiting(<<w, "plugin">>)' = (w \notin W /\ Waiting(<<w, "plugin">>))
    BY <1>1, <1>2, CallerOf DEF End, Started, Waiting
  <1>4. \A w \in Worker : \A i \in DOMAIN toMaster'[w] :
          i \in DOMAIN toMaster[w] /\ toMaster'[w][i] = toMaster[w][i]
    OBVIOUS
  <1>5. PipeInv'
    <2>1. \A w \in Worker : Started(w)' => Started(w) /\ messageIndex'[w] = messageIndex[w]
      BY <1>3
    <2>2. \A w \in Worker : Started(w)' \/ ~Waiting(<<w, "plugin">>)'
      BY <1>3 DEF CallsInv, PipeInv, OwnPipe
    <2> SUFFICES ASSUME NEW w \in Worker PROVE OwnPipe(w)'
      BY DEF PipeInv
    <2>3. OwnPipe(w)
      BY DEF CallsInv, PipeInv
    <2>4. \A i \in DOMAIN toMaster'[w] : i \in DOMAIN toMaster[w] /\ toMaster'[w][i] = toMaster[w][i]
      BY <1>4
    <2>5. Started(w)' => Started(w) /\ messageIndex'[w] = messageIndex[w]
      BY <2>1
    <2> QED
      BY <2>2, <2>3, <2>4, <2>5 DEF OwnPipe
  <1>6. ReplyInv'
    <2>1. \A r \in replies' : r \in replies /\ r.worker \in Worker /\ r.worker \notin W
      BY DEF End, TypeOK
    <2> SUFFICES ASSUME NEW r \in replies' PROVE OwnReply(r)'
      BY DEF ReplyInv
    <2>2. OwnReply(r) /\ r.worker \in Worker /\ r.worker \notin W /\ replies' \subseteq replies
      BY <2>1 DEF CallsInv, ReplyInv
    <2>3. \A i \in DOMAIN toMaster'[r.worker] :
            i \in DOMAIN toMaster[r.worker] /\ toMaster'[r.worker][i] = toMaster[r.worker][i]
      BY <1>4, <2>2
    <2>4. Started(r.worker)' = Started(r.worker) /\ messageIndex'[r.worker] = messageIndex[r.worker]
      BY <1>3, <2>2 DEF Started
    <2> QED
      BY <2>2, <2>3, <2>4 DEF OwnReply
  <1>7. ClusterInv'
    <2>1. \A c \in Caller : Waiting(c)' => c[1] \notin W /\ Waiting(c) /\ op'[c] = op[c]
                                           /\ messageIndex'[c[1]] = messageIndex[c[1]]
      BY <1>1, <1>2, <1>3 DEF Waiting
    <2>2. \A c \in Caller : AtCluster(c)' => AtCluster(c) /\ Waiting(c)'
      BY <2>1 DEF AtCluster
    <2> QED
      BY <1>1, <1>4, <2>1, <2>2 DEF CallsInv, ClusterInv, OneRequest
  <1> QED
    BY <1>5, <1>6, <1>7 DEF CallsInv

LEMMA StartCalls ==
  ASSUME TypeOK, CallsInv, NEW w \in Worker, Start(w)
  PROVE  CallsInv'
PROOF
  <1> DEFINE q == [type |-> "getAll"]
             o == Opened(<<q>>, Cluster)
  <1>1. <<q>> \in Seq(Request) /\ Cluster \in Location
    BY DEF Request, Location
  <1>2. o \in Op
    BY <1>1, OpenedOp
  <1>3. /\ o.phase = "waiting" /\ o.at = Cluster /\ o.answer = << >> /\ o.todo = <<q>>
        /\ Len(<<q>>) = 1 /\ <<q>>[1].type # "clear"
    BY DEF Opened
  <1>4. RemoteCall(w, "startup", o) /\ replies' \subseteq replies /\ toMaster[w] = << >>
    BY DEF Start
  <1> HIDE DEF o, q
  <1> QED
    BY <1>2, <1>3, <1>4, RemoteCallCalls

\* What operate() does to the caller's operation, in the three locations.
LEMMA OperateParts ==
  ASSUME TypeOK, NEW w \in Worker, NEW o \in Operation, NEW at \in {w, shared},
         Operate(w, o, at)
  PROVE  LET c == <<w, "plugin">> IN
         /\ c \in Caller /\ Started(w) /\ ~Waiting(c) /\ at \in Location
         /\ replies' = replies /\ orphans' = orphans
         /\ at = Cluster =>
              RemoteCall(w, "plugin", Opened(Requests(o, at), at)) /\ UNCHANGED <<local, alone, ha>>
         /\ at # Cluster =>
              /\ UNCHANGED <<messageIndex, toMaster, cluster>>
              /\ op'[c].at = at /\ \A d \in Caller \ {c} : op'[d] = op[d]
         /\ at = w => op'[c].phase = "resolved"
         /\ at = Ha =>
              /\ op'[c].phase = "waiting" /\ op'[c].todo = Requests(o, at)
              /\ op'[c].http = "sent" /\ ~op'[c].handled /\ op'[c].answer = << >>
              /\ op'[c].writes = IF o.type = "setAll" THEN o.dict ELSE NoValue
              /\ UNCHANGED <<ha, local>>
              /\ alone' = [d \in Caller |->
                   IF d = c THEN orphans = {} /\ \A e \in Caller \ {c} : ~Writes(e)
                   ELSE alone[d] /\ o.type \in {"get", "getAll"}]
PROOF
  <1> DEFINE c == <<w, "plugin">>
             new == Opened(Requests(o, at), at)
  <1>1. c \in Caller /\ at \in Location
    BY DEF Caller, TypeOK, Location
  <1>2. w # Cluster /\ w # Ha /\ Cluster # Ha
    BY PluginStorageAssumption
  <1>3. Started(w) /\ ~Waiting(c) /\ replies' = replies /\ orphans' = orphans /\ UNCHANGED <<cluster, ha>>
    BY DEF Operate
  <1>4. CASE at = Cluster
    BY <1>1, <1>2, <1>3, <1>4 DEF Operate
  <1>5. CASE at = w
    <2>1. /\ op' = [op EXCEPT ![c] =
             [new EXCEPT !.phase = "resolved", !.todo = << >>,
                         !.answer = LocalAnswer(local[w], Head(new.todo))]]
          /\ UNCHANGED <<messageIndex, toMaster, alone>>
      BY <1>2, <1>5 DEF Operate
    <2>2. op'[c].phase = "resolved" /\ op'[c].at = at /\ \A d \in Caller \ {c} : op'[d] = op[d]
      BY <1>1, <2>1 DEF TypeOK, Opened
    <2> QED
      BY <1>1, <1>2, <1>3, <1>5, <2>1, <2>2
  <1>6. CASE at = Ha
    <2>1. /\ op' = [op EXCEPT ![c] =
             IF o.type = "setAll" THEN [new EXCEPT !.writes = o.dict] ELSE new]
          /\ alone' = [d \in Caller |->
             IF d = c THEN orphans = {} /\ \A e \in Caller \ {c} : ~Writes(e)
             ELSE alone[d] /\ o.type \in {"get", "getAll"}]
          /\ UNCHANGED <<local, messageIndex, toMaster>>
      BY <1>2, <1>6 DEF Operate
    <2>2. op'[c] = (IF o.type = "setAll" THEN [new EXCEPT !.writes = o.dict] ELSE new)
          /\ \A d \in Caller \ {c} : op'[d] = op[d]
      BY <1>1, <2>1 DEF TypeOK
    <2>3. /\ op'[c].phase = "waiting" /\ op'[c].todo = Requests(o, at) /\ op'[c].at = at
          /\ op'[c].http = "sent" /\ ~op'[c].handled /\ op'[c].answer = << >>
          /\ op'[c].writes = IF o.type = "setAll" THEN o.dict ELSE NoValue
      BY <2>2 DEF Opened
    <2>4. ~op'[c].handled /\ UNCHANGED <<ha, local, cluster, messageIndex, toMaster>>
      BY <1>3, <2>1, <2>3
    <2>5. at # Cluster /\ at # w
      BY <1>2, <1>6
    <2> QED
      BY <1>1, <1>3, <2>1, <2>2, <2>3, <2>4, <2>5
  <1>7. at \in {w, Cluster, Ha}
    BY DEF TypeOK
  <1> QED
    BY <1>4, <1>5, <1>6, <1>7

LEMMA OperateCalls ==
  ASSUME TypeOK, CallsInv, NEW w \in Worker, NEW o \in Operation, NEW at \in {w, shared},
         Operate(w, o, at)
  PROVE  CallsInv'
PROOF
  <1> DEFINE c == <<w, "plugin">>
             new == Opened(Requests(o, at), at)
  <1>1. c \in Caller /\ Started(w) /\ ~Waiting(c) /\ at \in Location /\ replies' = replies
    BY OperateParts
  <1>2. w # Cluster /\ w # Ha /\ Cluster # Ha
    BY PluginStorageAssumption
  <1>3. CASE at = Cluster
    <2>1. /\ Requests(o, at) \in Seq(Request) /\ Len(Requests(o, at)) = 1
          /\ Requests(o, at)[1].type # "clear"
      BY <1>1, <1>2, <1>3, RequestsFacts
    <2>2. new \in Op
      BY <1>1, <2>1, OpenedOp
    <2>3. /\ new.phase = "waiting" /\ new.at = Cluster /\ new.answer = << >>
          /\ new.todo = Requests(o, at)
      BY <1>3 DEF Opened
    <2>4. RemoteCall(w, "plugin", new)
      BY <1>3, OperateParts
    <2> HIDE DEF new
    <2> QED
      BY <1>1, <2>1, <2>2, <2>3, <2>4, RemoteCallCalls
  <1>4. CASE at # Cluster
    <2>1. /\ UNCHANGED <<messageIndex, toMaster>>
          /\ op'[c].at = at /\ \A d \in Caller \ {c} : op'[d] = op[d]
      BY <1>4, OperateParts
    <2>6. at = w => op'[c].phase = "resolved"
      BY OperateParts
    <2>2. at = Ha \/ (at = w /\ op'[c].phase = "resolved")
      BY <1>4, <2>6 DEF TypeOK
    <2>3. \A v \in Worker : <<v, "startup">> \in Caller \ {c} /\ <<v, "plugin">> \in Caller
      BY DEF Caller
    <2> HIDE DEF c
    <2>4. \A v \in Worker : Started(v)' = Started(v) /\ (Waiting(<<v, "plugin">>)' => Started(v))
      <3> SUFFICES ASSUME NEW v \in Worker
                   PROVE  Started(v)' = Started(v) /\ (Waiting(<<v, "plugin">>)' => Started(v))
        OBVIOUS
      <3>1. Started(v)' = Started(v)
        BY <2>1, <2>3 DEF Started
      <3>2. CASE <<v, "plugin">> = c
        BY <1>1, <3>1, <3>2 DEF c
      <3>3. CASE <<v, "plugin">> # c
        BY <2>1, <2>3, <3>1, <3>3 DEF CallsInv, PipeInv, OwnPipe, Waiting
      <3> QED
        BY <3>1, <3>2, <3>3
    <2>5. ASSUME NEW d \in Caller
          PROVE  /\ Waiting(d)' => op'[d].at \in {Cluster, Ha}
                 /\ AtCluster(d)' => AtCluster(d) /\ op'[d] = op[d]
      <3>1. CASE d = c
        BY <1>4, <2>1, <2>2, <3>1 DEF Waiting, AtCluster
      <3>2. CASE d # c
        BY <2>1, <3>2 DEF Waiting, AtCluster, CallsInv, ClusterInv
      <3> QED
        BY <3>1, <3>2
    <2> QED
      BY <1>1, <2>1, <2>4, <2>5, CallsFrame
  <1> QED
    BY <1>3, <1>4

\* The promise of a remote call is resolved.
Resolved(c, answer) ==
  /\ op'[c] = [op[c] EXCEPT !.phase = "resolved", !.todo = << >>, !.answer = answer]
  /\ op'[c].phase = "resolved" /\ op'[c].at = op[c].at /\ op'[c].answer = answer
  /\ \A d \in Caller \ {c} : op'[d] = op[d]
  /\ UNCHANGED <<messageIndex, toMaster>>

\* A starting worker calls mergeStorage().
Merges(w, a) ==
  a = "startup" /\ RemoteCall(w, a, Opened(<<[type |-> "merge", dict |-> local[w]]>>, Cluster))

\* What the arrival of an answer does to the caller's operation.
LEMMA TakeReplyParts ==
  ASSUME TypeOK, NEW w \in Worker, NEW a \in {"plugin", "startup"}, NEW r \in replies,
         TakeReply(w, a, r)
  PROVE  LET c == <<w, a>> IN
         /\ c \in Caller /\ AtCluster(c) /\ r.worker = w /\ r.index = op[c].index
         /\ replies' = replies \ {r} /\ UNCHANGED <<local, cluster, ha, orphans, alone>>
  BY DEF TakeReply, AnswersCall, AtCluster, Caller

LEMMA TakeReplyCases ==
  ASSUME TypeOK, NEW w \in Worker, NEW a \in {"plugin", "startup"}, NEW r \in replies,
         TakeReply(w, a, r)
  PROVE  Merges(w, a) \/ Resolved(<<w, a>>, r.answer)
PROOF
  <1> DEFINE c == <<w, a>>
             x == op[c]
  <1>1. c \in Caller /\ x \in Op
    BY DEF Caller, TypeOK
  <1>2. CASE op' = [op EXCEPT ![c].phase = "resolved", ![c].todo = << >>, ![c].answer = r.answer]
             /\ UNCHANGED <<messageIndex, toMaster>>
    <2>1. op'[c] = [x EXCEPT !.phase = "resolved", !.todo = << >>, !.answer = r.answer]
          /\ \A d \in Caller \ {c} : op'[d] = op[d]
      BY <1>1, <1>2 DEF TypeOK
    <2>2. op'[c].phase = "resolved" /\ op'[c].at = x.at /\ op'[c].answer = r.answer
      <3> HIDE DEF x
      <3> QED
        BY <1>1, <2>1 DEF Op
    <2> QED
      BY <1>2, <2>1, <2>2 DEF Resolved
  <1> QED
    BY <1>2 DEF TakeReply, Merges

LEMMA MergeOp ==
  ASSUME TypeOK, NEW w \in Worker
  PROVE  LET q == [type |-> "merge", dict |-> local[w]]
             o == Opened(<<q>>, Cluster) IN
         /\ q \in Request /\ o \in Op /\ o.phase = "waiting" /\ o.at = Cluster
         /\ o.answer = << >> /\ o.todo = <<q>> /\ o.todo \in Seq(Request)
         /\ Len(o.todo) = 1 /\ o.todo[1].type # "clear"
PROOF
  <1> DEFINE q == [type |-> "merge", dict |-> local[w]]
             o == Opened(<<q>>, Cluster)
  <1>1. q \in Request /\ Cluster \in Location /\ q.type # "clear"
    BY DEF Request, Location, TypeOK
  <1>2. <<q>> \in Seq(Request) /\ Len(<<q>>) = 1 /\ <<q>>[1] = q
    BY <1>1, SingleRequest
  <1>3. o \in Op
    BY <1>1, <1>2, OpenedOp
  <1>4. o.phase = "waiting" /\ o.at = Cluster /\ o.answer = << >> /\ o.todo = <<q>>
    BY DEF Opened
  <1> QED
    BY <1>1, <1>2, <1>3, <1>4

LEMMA TakeReplyCalls ==
  ASSUME TypeOK, CallsInv, NEW w \in Worker, NEW a \in {"plugin", "startup"}, NEW r \in replies,
         TakeReply(w, a, r)
  PROVE  CallsInv'
PROOF
  <1> DEFINE c == <<w, a>>
             merge == Opened(<<[type |-> "merge", dict |-> local[w]]>>, Cluster)
  <1>1. c \in Caller /\ AtCluster(c) /\ replies' \subseteq replies
    BY TakeReplyParts
  <1>2. CASE a = "startup" /\ RemoteCall(w, a, merge)
    <2>1. /\ merge \in Op /\ merge.phase = "waiting" /\ merge.at = Cluster
          /\ merge.answer = << >> /\ Len(merge.todo) = 1 /\ merge.todo[1].type # "clear"
      BY MergeOp
    <2>2. Started(w)
      BY <1>1, <1>2 DEF AtCluster, Waiting, Started
    <2> HIDE DEF merge
    <2> QED
      BY <1>1, <1>2, <2>1, <2>2, RemoteCallCalls
  <1>3. CASE Resolved(c, r.answer)
    <2>5. /\ op'[c].phase = "resolved"
          /\ \A d \in Caller \ {c} : op'[d] = op[d]
          /\ UNCHANGED <<messageIndex, toMaster>>
      BY <1>3 DEF Resolved
    <2>1. \A v \in Worker : Started(v)' = Started(v)
      <3> SUFFICES ASSUME NEW v \in Worker PROVE Started(v)' = Started(v)
        OBVIOUS
      <3>1. CASE <<v, "startup">> = c
        BY <1>1, <2>5, <3>1 DEF AtCluster, Waiting, Started
      <3>2. CASE <<v, "startup">> # c
        BY <2>5, <3>2, CallerOf DEF Started
      <3> QED
        BY <3>1, <3>2
    <2> HIDE DEF c
    <2>2. \A d \in Caller : Waiting(d)' => d # c /\ op'[d] = op[d] /\ Waiting(d)
      BY <2>5 DEF Waiting
    <2>3. \A d \in Caller : /\ Waiting(d)' => op'[d].at \in {Cluster, Ha}
                            /\ AtCluster(d)' => AtCluster(d) /\ op'[d] = op[d]
      BY <2>2 DEF AtCluster, CallsInv, ClusterInv
    <2>4. \A v \in Worker : Waiting(<<v, "plugin">>)' => Started(v)
      BY <2>2, CallerOf DEF CallsInv, PipeInv, OwnPipe
    <2> QED
      BY <1>1, <2>5, <2>1, <2>3, <2>4, CallsFrame
  <1>4. (a = "startup" /\ RemoteCall(w, a, merge)) \/ Resolved(c, r.answer)
    BY TakeReplyCases DEF Merges
  <1> QED
    BY <1>2, <1>3, <1>4

LEMMA CrashCalls ==
  ASSUME TypeOK, CallsInv, NEW w \in Worker, Crash(w)
  PROVE  CallsInv'
PROOF
  <1>1. {w} \in SUBSET Worker /\ End({w}) /\ toMaster' = toMaster
    BY DEF Crash
  <1> QED
    BY <1>1, EndCalls

LEMMA GiveUpParts ==
  ASSUME TypeOK, NEW c \in Caller, GiveUp(c)
  PROVE  /\ AtCluster(c)
         /\ \/ ServerEnds
            \/ /\ op'[c] = [op[c] EXCEPT !.phase = "resolved", !.todo = << >>]
               /\ op'[c].phase = "resolved" /\ op'[c].at = op[c].at
               /\ op'[c].answer = op[c].answer
               /\ \A d \in Caller \ {c} : op'[d] = op[d]
               /\ replies' = {r \in replies : ~AnswersCall(r, c)}
               /\ UNCHANGED <<local, cluster, ha, messageIndex, toMaster, orphans, alone>>
PROOF
  <1>1. AtCluster(c) /\ op[c] \in Op
    BY DEF GiveUp, AtCluster, TypeOK
  <1>2. CASE ServerEnds
    BY <1>1, <1>2
  <1>3. CASE /\ op' = [op EXCEPT ![c].phase = "resolved", ![c].todo = << >>]
             /\ replies' = {r \in replies : ~AnswersCall(r, c)}
             /\ UNCHANGED <<local, cluster, ha, messageIndex, toMaster, orphans, alone>>
    <2> DEFINE x == op[c]
    <2>1. op'[c] = [x EXCEPT !.phase = "resolved", !.todo = << >>]
          /\ \A d \in Caller \ {c} : op'[d] = op[d]
      BY <1>3 DEF TypeOK
    <2>2. op'[c].phase = "resolved" /\ op'[c].at = x.at /\ op'[c].answer = x.answer
      <3>1. x \in Op
        BY <1>1
      <3> HIDE DEF x
      <3> QED
        BY <2>1, <3>1 DEF Op
    <2> QED
      BY <1>1, <1>3, <2>1, <2>2
  <1> QED
    BY <1>2, <1>3 DEF GiveUp

LEMMA GiveUpCalls ==
  ASSUME TypeOK, CallsInv, NEW c \in Caller, GiveUp(c)
  PROVE  CallsInv'
PROOF
  <1>1. CASE ServerEnds
    <2>1. Worker \in SUBSET Worker /\ End(Worker) /\ toMaster' = [w \in Worker |-> << >>]
      BY <1>1 DEF ServerEnds
    <2> QED
      BY <2>1, EndCalls
  <1>2. CASE /\ op'[c].phase = "resolved"
             /\ \A d \in Caller \ {c} : op'[d] = op[d]
             /\ replies' = {r \in replies : ~AnswersCall(r, c)}
             /\ UNCHANGED <<messageIndex, toMaster>>
    <2>1. AtCluster(c)
      BY GiveUpParts
    <2>2. \A d \in Caller : Waiting(d)' => d # c /\ op'[d] = op[d] /\ Waiting(d)
      BY <1>2 DEF Waiting
    <2>3. \A d \in Caller : (op'[d].phase # "idle") = (op[d].phase # "idle")
      BY <1>2, <2>1 DEF AtCluster, Waiting
    <2>4. \A v \in Worker : Started(v)' = Started(v) /\ (Waiting(<<v, "plugin">>)' => Started(v))
      BY <2>2, <2>3, CallerOf DEF Started, CallsInv, PipeInv, OwnPipe
    <2>5. \A d \in Caller : /\ Waiting(d)' => op'[d].at \in {Cluster, Ha}
                            /\ AtCluster(d)' => AtCluster(d) /\ op'[d] = op[d]
      BY <2>2 DEF AtCluster, CallsInv, ClusterInv
    <2> QED
      BY <1>2, <2>4, <2>5, CallsFrame
  <1> QED
    BY <1>1, <1>2, GiveUpParts

\* The steps of the operations at the caching service, and of what is left of
\* them, touch no remote call.
LEMMA HttpCalls ==
  ASSUME TypeOK, CallsInv, UNCHANGED <<messageIndex, toMaster, replies>>,
         NEW c \in Caller, AtHa(c),
         op'[c].at = op[c].at, op'[c].phase # "idle",
         \A d \in Caller \ {c} : op'[d] = op[d]
  PROVE  CallsInv'
PROOF
  <1>1. Cluster # Ha
    BY PluginStorageAssumption
  <1>2. \A d \in Caller : (op'[d].phase # "idle") = (op[d].phase # "idle")
    BY DEF AtHa, Waiting
  <1>3. \A d \in Caller : (Waiting(d)' => Waiting(d)) /\ op'[d].at = op[d].at
    BY DEF AtHa, Waiting
  <1>4. \A v \in Worker : Started(v)' = Started(v) /\ (Waiting(<<v, "plugin">>)' => Started(v))
    BY <1>2, <1>3, CallerOf DEF Started, CallsInv, PipeInv, OwnPipe
  <1>5. \A d \in Caller : /\ Waiting(d)' => op'[d].at \in {Cluster, Ha}
                          /\ AtCluster(d)' => AtCluster(d) /\ d # c /\ op'[d] = op[d]
    BY <1>1, <1>3 DEF AtCluster, AtHa, CallsInv, ClusterInv
  <1> QED
    BY <1>4, <1>5, CallsFrame

LEMMA OrphanCalls ==
  ASSUME TypeOK, CallsInv, NEW x \in orphans, HandleOrphan(x)
  PROVE  CallsInv'
PROOF
  <1>1. UNCHANGED <<messageIndex, toMaster, replies, op>>
    BY DEF HandleOrphan
  <1>2. \A v \in Worker : Started(v)' = Started(v) /\ (Waiting(<<v, "plugin">>)' => Started(v))
    BY <1>1 DEF Started, Waiting, CallsInv, PipeInv, OwnPipe
  <1>3. \A d \in Caller : /\ Waiting(d)' => op'[d].at \in {Cluster, Ha}
                          /\ AtCluster(d)' => AtCluster(d) /\ op'[d] = op[d]
    BY <1>1 DEF AtCluster, Waiting, CallsInv, ClusterInv
  <1> QED
    BY <1>1, <1>2, <1>3, CallsFrame

-----------------------------------------------------------------------------
(* The caching service: HaInv is inductive                                 *)

HaCallInv(o) ==
  /\ o.todo # << >>
  /\ \A i \in DOMAIN o.todo : o.todo[i].type \in HaType
  /\ Len(o.todo) = 1 \/ \A i \in DOMAIN o.todo : o.todo[i].type \in Mute
  /\ OutcomeInv(o)

LEMMA HaInvParts ==
  HaInv <=> /\ \A c \in Caller : AtHa(c) => HaCallInv(op[c])
            /\ \A x \in orphans : x.request.type \in HaType
  BY DEF HaInv, HaCallInv

\* The service handles a request: what becomes of it, its answer and ha.
Handled(c, http) ==
  LET q == Head(op[c].todo) IN
  \/ /\ CarriedOut(ha, q, op[c].create)
     /\ ha' = ServiceApply(ha, q)
     /\ op'[c].handled = TRUE /\ op'[c].answer = ServiceAnswer(ha, q)
     /\ http \in {Outcome(ha, q, op[c].create), "failed"}
  \/ /\ ~CarriedOut(ha, q, op[c].create)
     /\ ha' = ha
     /\ op'[c].handled = FALSE /\ op'[c].answer = << >>
     /\ http \in {Outcome(ha, q, op[c].create), "failed"}
  \/ /\ ha' = ha /\ http = "failed"
     /\ op'[c].handled = op[c].handled /\ op'[c].answer = op[c].answer

HttpStep(c) ==
  /\ AtHa(c) /\ op[c].http = "sent"
  /\ op'[c].phase = "waiting" /\ op'[c].at = Ha /\ op'[c].todo = op[c].todo
  /\ op'[c].create = op[c].create /\ op'[c].writes = op[c].writes
  /\ Handled(c, op'[c].http)
  /\ \A d \in Caller \ {c} : op'[d] = op[d]
  /\ UNCHANGED <<local, cluster, messageIndex, toMaster, replies, orphans, alone>>

LEMMA HandleHttpParts ==
  ASSUME TypeOK, NEW c \in Caller, HandleHttp(c)
  PROVE  HttpStep(c)
PROOF
  <1> DEFINE x == op[c]
             q == Head(op[c].todo)
             done == CarriedOut(ha, q, op[c].create)
             outcome == Outcome(ha, q, op[c].create)
             answer == IF done THEN ServiceAnswer(ha, q) ELSE << >>
  <1>1. /\ AtHa(c) /\ op[c].http = "sent"
        /\ UNCHANGED <<local, cluster, messageIndex, toMaster, replies, orphans, alone>>
    BY DEF HandleHttp, AtHa
  <1>2. x \in Op /\ done \in BOOLEAN
    BY DEF TypeOK, CarriedOut
  <1>3. \/ /\ ha' = IF done THEN ServiceApply(ha, q) ELSE ha
           /\ \E http \in {outcome, "failed"} :
                op' = [op EXCEPT ![c].http = http, ![c].handled = done, ![c].answer = answer]
        \/ op' = [op EXCEPT ![c].http = "failed"] /\ ha' = ha
    BY DEF HandleHttp
  <1>4. CASE /\ ha' = IF done THEN ServiceApply(ha, q) ELSE ha
             /\ \E http \in {outcome, "failed"} :
                  op' = [op EXCEPT ![c].http = http, ![c].handled = done, ![c].answer = answer]
    <2>1. PICK http \in {outcome, "failed"} :
            op' = [op EXCEPT ![c].http = http, ![c].handled = done, ![c].answer = answer]
      BY <1>4
    <2>2. /\ op'[c] = [x EXCEPT !.http = http, !.handled = done, !.answer = answer]
          /\ \A d \in Caller \ {c} : op'[d] = op[d]
      BY <2>1 DEF TypeOK
    <2>3. /\ op'[c].phase = x.phase /\ op'[c].at = x.at /\ op'[c].todo = x.todo
          /\ op'[c].create = x.create /\ op'[c].writes = x.writes /\ op'[c].http = http
          /\ op'[c].handled = done /\ op'[c].answer = answer
      <3> HIDE DEF x, done, answer, outcome
      <3> QED
        BY <1>2, <2>2 DEF Op
    <2>4. Handled(c, op'[c].http)
      <3>1. CASE done
        BY <1>4, <2>3, <3>1 DEF Handled
      <3>2. CASE ~done
        BY <1>4, <2>3, <3>2 DEF Handled
      <3> QED
        BY <3>1, <3>2
    <2> QED
      BY <1>1, <2>2, <2>3, <2>4 DEF HttpStep, AtHa, Waiting
  <1>5. CASE op' = [op EXCEPT ![c].http = "failed"] /\ ha' = ha
    <2>1. op'[c] = [x EXCEPT !.http = "failed"] /\ \A d \in Caller \ {c} : op'[d] = op[d]
      BY <1>5 DEF TypeOK
    <2>2. /\ op'[c].phase = x.phase /\ op'[c].at = x.at /\ op'[c].todo = x.todo
          /\ op'[c].create = x.create /\ op'[c].writes = x.writes /\ op'[c].http = "failed"
          /\ op'[c].handled = x.handled /\ op'[c].answer = x.answer
      <3> HIDE DEF x
      <3> QED
        BY <1>2, <2>1 DEF Op
    <2> QED
      BY <1>1, <1>5, <2>1, <2>2 DEF HttpStep, Handled, AtHa, Waiting
  <1> QED
    BY <1>3, <1>4, <1>5

\* What follows the await of a request: its failure is thrown, the next request
\* is sent or the promise resolved, or a PUT of a missing key becomes a POST.
FailureTaken(c) ==
  /\ op[c].http = "failed"
  /\ op'[c].phase = "rejected" /\ op'[c].todo = << >> /\ op'[c].answer = << >>
  /\ orphans' \in {orphans,
       IF ~op[c].handled
       THEN orphans \cup {[request |-> Head(op[c].todo), create |-> op[c].create]}
       ELSE orphans}

SuccessTaken(c) ==
  /\ op[c].http = "ok" \/ (op[c].http = "notFound" /\ Head(op[c].todo).type # "put")
  /\ op'[c].phase = IF Len(op[c].todo) = 1 THEN "resolved" ELSE "waiting"
  /\ op'[c].todo = Tail(op[c].todo) /\ op'[c].answer = op[c].answer
  /\ orphans' = orphans

MissingTaken(c) ==
  /\ op[c].http = "notFound" /\ Head(op[c].todo).type = "put"
  /\ op'[c].phase = "waiting"
  /\ op'[c].todo = op[c].todo /\ op'[c].answer = op[c].answer
  /\ orphans' = orphans

HttpTaken(c) ==
  /\ AtHa(c)
  /\ op'[c].at = Ha /\ op'[c].writes = op[c].writes
  /\ op'[c].http = "sent" /\ op'[c].handled = FALSE
  /\ \A d \in Caller \ {c} : op'[d] = op[d]
  /\ UNCHANGED <<local, cluster, ha, messageIndex, toMaster, replies, alone>>
  /\ FailureTaken(c) \/ SuccessTaken(c) \/ MissingTaken(c)

LEMMA TakeHttpParts ==
  ASSUME TypeOK, NEW c \in Caller, TakeHttp(c)
  PROVE  HttpTaken(c)
PROOF
  <1> DEFINE x == op[c]
             y == Continue(x)
             z == [y EXCEPT !.http = "sent", !.handled = FALSE]
  <1>1. /\ AtHa(c) /\ x \in Op /\ x.phase = "waiting" /\ x.at = Ha
        /\ x.http \in {"ok", "notFound", "failed"}
        /\ UNCHANGED <<local, cluster, ha, messageIndex, toMaster, replies, alone>>
    BY DEF TakeHttp, AtHa, TypeOK, Waiting, Op
  <1>2. op'[c] = z /\ \A d \in Caller \ {c} : op'[d] = op[d]
    BY DEF TakeHttp, TypeOK
  <1>3. op[c].http # "failed" => orphans' = orphans
    BY DEF TakeHttp
  <1>4. op[c].http = "failed" =>
          orphans' \in {orphans,
            IF ~op[c].handled
            THEN orphans \cup {[request |-> Head(op[c].todo), create |-> op[c].create]}
            ELSE orphans}
    BY DEF TakeHttp
  <1> HIDE DEF x
  <1>5. CASE x.http = "failed"
    <2>1. y = [x EXCEPT !.phase = "rejected", !.todo = << >>, !.answer = << >>]
      BY <1>5 DEF Continue
    <2> HIDE DEF y
    <2>2. /\ z.at = x.at /\ z.writes = x.writes /\ z.http = "sent" /\ z.handled = FALSE
          /\ z.phase = "rejected" /\ z.todo = << >> /\ z.answer = << >>
      BY <1>1, <2>1 DEF Op
    <2> HIDE DEF z
    <2> QED
      BY <1>1, <1>2, <1>4, <1>5, <2>2 DEF HttpTaken, FailureTaken, x
  <1>6. CASE x.http = "ok" \/ (x.http = "notFound" /\ Head(x.todo).type # "put")
    <2>1. y = [x EXCEPT !.todo = Tail(@), !.create = FALSE,
                        !.phase = IF Len(x.todo) = 1 THEN "resolved" ELSE @]
      BY <1>6 DEF Continue
    <2> HIDE DEF y
    <2>2. /\ z.at = x.at /\ z.writes = x.writes /\ z.http = "sent" /\ z.handled = FALSE
          /\ z.phase = (IF Len(x.todo) = 1 THEN "resolved" ELSE x.phase)
          /\ z.todo = Tail(x.todo) /\ z.answer = x.answer
      BY <1>1, <2>1 DEF Op
    <2> HIDE DEF z
    <2> QED
      BY <1>1, <1>2, <1>3, <1>6, <2>2 DEF HttpTaken, SuccessTaken, x
  <1>7. CASE x.http = "notFound" /\ Head(x.todo).type = "put"
    <2>1. y = [x EXCEPT !.create = TRUE]
      BY <1>7 DEF Continue
    <2> HIDE DEF y
    <2>2. /\ z.at = x.at /\ z.writes = x.writes /\ z.http = "sent" /\ z.handled = FALSE
          /\ z.phase = x.phase /\ z.todo = x.todo /\ z.answer = x.answer
      BY <1>1, <2>1 DEF Op
    <2> HIDE DEF z
    <2> QED
      BY <1>1, <1>2, <1>3, <1>7, <2>2 DEF HttpTaken, MissingTaken, x
  <1> QED
    BY <1>1, <1>5, <1>6, <1>7

LEMMA HaFrame ==
  ASSUME HaInv,
         \A c \in Caller : AtHa(c)' => AtHa(c) /\ op'[c] = op[c],
         \A x \in orphans' : x.request.type \in HaType
  PROVE  HaInv'
  BY DEF HaInv

\* Remote calls are not the caching service's.
LEMMA RemoteCallHa ==
  ASSUME TypeOK, HaInv, NEW w \in Worker, NEW a \in {"plugin", "startup"}, NEW o \in Op,
         o.at = Cluster, Len(o.todo) = 1, RemoteCall(w, a, o), orphans' = orphans
  PROVE  HaInv'
PROOF
  <1> DEFINE c == <<w, a>>
  <1>1. RemoteCalled(w, a, o)
    BY RemoteCallParts
  <1>2. c \in Caller /\ op'[c].at = Cluster /\ \A d \in Caller \ {c} : op'[d] = op[d]
    BY <1>1 DEF RemoteCalled
  <1> HIDE DEF c
  <1>3. \A d \in Caller : AtHa(d)' => AtHa(d) /\ op'[d] = op[d]
    BY <1>2, PluginStorageAssumption DEF AtHa, Waiting
  <1>4. \A x \in orphans' : x.request.type \in HaType
    BY DEF HaInv
  <1> QED
    BY <1>3, <1>4, HaFrame

LEMMA OpenedAt ==
  ASSUME NEW todo, NEW at
  PROVE  Opened(todo, at).at = at /\ Opened(todo, at).todo = todo
  BY DEF Opened

LEMMA StartHa ==
  ASSUME TypeOK, HaInv, NEW w \in Worker, Start(w)
  PROVE  HaInv'
PROOF
  <1> DEFINE q == [type |-> "getAll"]
             o == Opened(<<q>>, Cluster)
  <1>1. <<q>> \in Seq(Request) /\ Cluster \in Location /\ Len(<<q>>) = 1
    BY DEF Request, Location
  <1>2. o \in Op /\ o.at = Cluster /\ o.todo = <<q>>
    BY <1>1, OpenedOp, OpenedAt
  <1>3. RemoteCall(w, "startup", o) /\ orphans' = orphans
    BY DEF Start
  <1> HIDE DEF o, q
  <1> QED
    BY <1>1, <1>2, <1>3, RemoteCallHa

LEMMA OperateHa ==
  ASSUME TypeOK, HaInv, NEW w \in Worker, NEW o \in Operation, NEW at \in {w, shared},
         Operate(w, o, at)
  PROVE  HaInv'
PROOF
  <1> DEFINE c == <<w, "plugin">>
             new == Opened(Requests(o, at), at)
  <1>1. c \in Caller /\ at \in Location /\ orphans' = orphans
    BY OperateParts
  <1>2. w # Cluster /\ w # Ha /\ Cluster # Ha
    BY PluginStorageAssumption
  <1>3. \A x \in orphans' : x.request.type \in HaType
    BY <1>1 DEF HaInv
  <1>4. CASE at = Cluster
    <2>1. Requests(o, at) \in Seq(Request) /\ Len(Requests(o, at)) = 1
      BY <1>1, <1>2, <1>4, RequestsFacts
    <2>2. new \in Op /\ new.at = Cluster /\ new.todo = Requests(o, at)
      BY <1>1, <1>4, <2>1, OpenedOp, OpenedAt
    <2>3. RemoteCall(w, "plugin", new)
      BY <1>4, OperateParts
    <2> HIDE DEF new
    <2> QED
      BY <1>1, <2>1, <2>2, <2>3, RemoteCallHa
  <1>5. CASE at # Cluster /\ at # Ha
    <2>1. op'[c].at = at /\ \A d \in Caller \ {c} : op'[d] = op[d]
      BY <1>5, OperateParts
    <2> HIDE DEF c
    <2>2. \A d \in Caller : AtHa(d)' => AtHa(d) /\ op'[d] = op[d]
      BY <1>5, <2>1 DEF AtHa, Waiting
    <2> QED
      BY <1>3, <2>2, HaFrame
  <1>6. CASE at = Ha
    <2>0. at # Cluster
      BY <1>2, <1>6
    <2>1. \A d \in Caller \ {c} : op'[d] = op[d]
      BY <2>0, OperateParts
    <2>2. /\ op'[c].todo = Requests(o, at)
          /\ op'[c].http = "sent" /\ ~op'[c].handled /\ op'[c].answer = << >>
      BY <1>6, OperateParts
    <2>3. /\ Requests(o, at) # << >>
          /\ \A i \in DOMAIN Requests(o, at) : Requests(o, at)[i].type \in HaType
          /\ \/ Len(Requests(o, at)) = 1
             \/ \A i \in DOMAIN Requests(o, at) : Requests(o, at)[i].type \in Mute
      BY <1>1, <1>6, RequestsFacts
    <2>4. HaCallInv(op[c])'
      BY <2>2, <2>3 DEF HaCallInv, OutcomeInv
    <2> HIDE DEF c
    <2>5. \A d \in Caller : AtHa(d)' => HaCallInv(op[d])'
      <3> SUFFICES ASSUME NEW d \in Caller, AtHa(d)' PROVE HaCallInv(op[d])'
        OBVIOUS
      <3>1. CASE d = c
        BY <2>4, <3>1
      <3>2. CASE d # c
        <4>1. op'[d] = op[d] /\ AtHa(d)
          BY <2>1, <3>2 DEF AtHa, Waiting
        <4> QED
          BY <4>1 DEF HaInv, HaCallInv
      <3> QED
        BY <3>1, <3>2
    <2> QED
      BY <1>3, <2>5 DEF HaInv, HaCallInv
  <1> QED
    BY <1>4, <1>5, <1>6

LEMMA TakeReplyHa ==
  ASSUME TypeOK, HaInv, NEW w \in Worker, NEW a \in {"plugin", "startup"}, NEW r \in replies,
         TakeReply(w, a, r)
  PROVE  HaInv'
PROOF
  <1> DEFINE c == <<w, a>>
             merge == Opened(<<[type |-> "merge", dict |-> local[w]]>>, Cluster)
  <1>1. c \in Caller /\ orphans' = orphans
    BY TakeReplyParts
  <1>2. CASE Merges(w, a)
    <2>1. merge \in Op /\ merge.at = Cluster /\ Len(merge.todo) = 1
      BY MergeOp
    <2>2. RemoteCall(w, a, merge)
      BY <1>2 DEF Merges
    <2> HIDE DEF merge
    <2> QED
      BY <1>1, <2>1, <2>2, RemoteCallHa
  <1>3. CASE Resolved(c, r.answer)
    <2>1. op'[c].phase = "resolved" /\ \A d \in Caller \ {c} : op'[d] = op[d]
      BY <1>3 DEF Resolved
    <2> HIDE DEF c
    <2>2. \A d \in Caller : AtHa(d)' => AtHa(d) /\ op'[d] = op[d]
      BY <2>1 DEF AtHa, Waiting
    <2>3. \A x \in orphans' : x.request.type \in HaType
      BY <1>1 DEF HaInv
    <2> QED
      BY <2>2, <2>3, HaFrame
  <1> QED
    BY <1>2, <1>3, TakeReplyCases

LEMMA EndHa ==
  ASSUME TypeOK, HaInv, NEW W \in SUBSET Worker, End(W)
  PROVE  HaInv'
PROOF
  <1>1. \A c \in Caller : op'[c] = IF c[1] \in W THEN Idle ELSE op[c]
    BY DEF End
  <1>2. \A c \in Caller : AtHa(c)' => AtHa(c) /\ op'[c] = op[c]
    BY <1>1 DEF AtHa, Waiting, Idle, Opened
  <1>3. \A x \in InFlight(W) : x.request.type \in HaType
    <2> SUFFICES ASSUME NEW x \in InFlight(W) PROVE x.request.type \in HaType
      OBVIOUS
    <2> DEFINE V == {v \in W : /\ Waiting(<<v, "plugin">>) /\ op[<<v, "plugin">>].at = Ha
                               /\ op[<<v, "plugin">>].http = "sent"}
    <2>3. PICK w \in V : x = [request |-> Head(op[<<w, "plugin">>].todo),
                              create |-> op[<<w, "plugin">>].create]
      BY DEF InFlight
    <2>1. w \in Worker /\ x.request = Head(op[<<w, "plugin">>].todo) /\ AtHa(<<w, "plugin">>)
      BY <2>3 DEF AtHa
    <2>2. <<w, "plugin">> \in Caller
      BY DEF Caller
    <2> QED
      BY <2>1, <2>2, HaCall
  <1>4. \A x \in orphans' : x.request.type \in HaType
    BY <1>3 DEF End, HaInv
  <1> QED
    BY <1>2, <1>4, HaFrame

LEMMA GiveUpHa ==
  ASSUME TypeOK, HaInv, NEW c \in Caller, GiveUp(c)
  PROVE  HaInv'
PROOF
  <1>1. CASE ServerEnds
    <2>1. Worker \in SUBSET Worker /\ End(Worker)
      BY <1>1 DEF ServerEnds
    <2> QED
      BY <2>1, EndHa
  <1>2. CASE /\ op'[c].phase = "resolved"
             /\ \A d \in Caller \ {c} : op'[d] = op[d]
             /\ UNCHANGED orphans
    <2>1. \A d \in Caller : AtHa(d)' => AtHa(d) /\ op'[d] = op[d]
      BY <1>2 DEF AtHa, Waiting
    <2>2. \A x \in orphans' : x.request.type \in HaType
      BY <1>2 DEF HaInv
    <2> QED
      BY <2>1, <2>2, HaFrame
  <1> QED
    BY <1>1, <1>2, GiveUpParts

LEMMA HandleHttpHa ==
  ASSUME TypeOK, HaInv, NEW c \in Caller, HttpStep(c)
  PROVE  HaInv'
PROOF
  <1> DEFINE q == Head(op[c].todo)
  <1>1. /\ AtHa(c) /\ op[c].http = "sent" /\ op'[c].todo = op[c].todo
        /\ Handled(c, op'[c].http) /\ orphans' = orphans
        /\ \A d \in Caller \ {c} : op'[d] = op[d]
    BY DEF HttpStep
  <1>2. HaCallInv(op[c])
    BY <1>1 DEF HaInv, HaCallInv
  <1>3. op[c].handled = FALSE /\ op[c].answer = << >>
    <2>1. op[c].handled \in BOOLEAN
      BY DEF TypeOK, Op
    <2> QED
      BY <1>1, <1>2, <2>1 DEF HaCallInv, OutcomeInv
  <1>4. OutcomeInv(op'[c])
    <2>1. CASE /\ CarriedOut(ha, q, op[c].create)
               /\ op'[c].handled = TRUE /\ op'[c].answer = ServiceAnswer(ha, q)
               /\ op'[c].http \in {Outcome(ha, q, op[c].create), "failed"}
      <3>1. q.type \in Mute => ServiceAnswer(ha, q) = << >>
        BY DEF Mute, ServiceAnswer
      <3>2. op'[c].http # "sent" /\ (op'[c].http = "notFound" => q.type # "put")
        BY <2>1 DEF Outcome, CarriedOut
      <3> QED
        BY <1>1, <2>1, <3>1, <3>2 DEF OutcomeInv
    <2>2. CASE /\ ~CarriedOut(ha, q, op[c].create)
               /\ op'[c].handled = FALSE /\ op'[c].answer = << >>
               /\ op'[c].http \in {Outcome(ha, q, op[c].create), "failed"}
      <3>1. q.type = "put" /\ op'[c].http \in {"notFound", "failed"}
        BY <2>2 DEF CarriedOut, Outcome
      <3> QED
        BY <1>1, <2>2, <3>1 DEF OutcomeInv
    <2>3. CASE /\ op'[c].http = "failed"
               /\ op'[c].handled = op[c].handled /\ op'[c].answer = op[c].answer
      BY <1>3, <2>3 DEF OutcomeInv
    <2> QED
      BY <1>1, <2>1, <2>2, <2>3 DEF Handled
  <1>5. HaCallInv(op'[c])
    BY <1>1, <1>2, <1>4 DEF HaCallInv
  <1>6. \A d \in Caller : AtHa(d)' => HaCallInv(op'[d])
    <2> SUFFICES ASSUME NEW d \in Caller, AtHa(d)', d # c PROVE HaCallInv(op'[d])
      BY <1>5
    <2>1. op'[d] = op[d] /\ AtHa(d)
      BY <1>1 DEF AtHa, Waiting
    <2> QED
      BY <2>1 DEF HaInv, HaCallInv
  <1> QED
    BY <1>1, <1>6 DEF HaInv, HaCallInv

LEMMA TakeHttpHa ==
  ASSUME TypeOK, HaInv, NEW c \in Caller, HttpTaken(c)
  PROVE  HaInv'
PROOF
  <1> DEFINE t == op[c].todo
  <1>1. /\ AtHa(c) /\ op'[c].http = "sent" /\ op'[c].handled = FALSE
        /\ \A d \in Caller \ {c} : op'[d] = op[d]
    BY DEF HttpTaken
  <1>2. HaCallInv(op[c])
    BY <1>1 DEF HaInv, HaCallInv
  <1>3. /\ t \in Seq(Request) /\ t # << >> /\ Head(t) \in Request /\ Head(t).type \in HaType
        /\ Head(t) = t[1] /\ 1 \in DOMAIN t /\ Len(t) >= 1
    BY <1>1, HaCall
  <1>4. \A x \in orphans : x.request.type \in HaType
    BY DEF HaInv
  <1>5. CASE FailureTaken(c)
    <2>1. op'[c].phase = "rejected"
      BY <1>5 DEF FailureTaken
    <2>2. \A x \in orphans' : x \in orphans \/ x.request = Head(t)
      BY <1>5 DEF FailureTaken
    <2>3. \A d \in Caller : AtHa(d)' => AtHa(d) /\ op'[d] = op[d]
      BY <1>1, <2>1 DEF AtHa, Waiting
    <2> QED
      BY <1>3, <1>4, <2>2, <2>3, HaFrame
  <1>6. \A d \in Caller : d # c /\ AtHa(d)' => HaCallInv(op'[d])
    <2> SUFFICES ASSUME NEW d \in Caller, AtHa(d)', d # c PROVE HaCallInv(op'[d])
      OBVIOUS
    <2>1. op'[d] = op[d] /\ AtHa(d)
      BY <1>1 DEF AtHa, Waiting
    <2> QED
      BY <2>1 DEF HaInv, HaCallInv
  <1>7. CASE SuccessTaken(c)
    <2>1. /\ op'[c].phase = IF Len(t) = 1 THEN "resolved" ELSE "waiting"
          /\ op'[c].todo = Tail(t) /\ op'[c].answer = op[c].answer
          /\ orphans' = orphans
      BY <1>7 DEF SuccessTaken
    <2>2. ASSUME AtHa(c)'
          PROVE  HaCallInv(op'[c])
      <3>1. Len(t) # 1
        BY <2>1, <2>2 DEF AtHa, Waiting
      <3>2. \A i \in DOMAIN t : t[i].type \in Mute
        BY <1>2, <3>1 DEF HaCallInv
      <3> HIDE DEF t
      <3>3. /\ Tail(t) \in Seq(Request) /\ Tail(t) # << >>
            /\ \A i \in DOMAIN Tail(t) : i + 1 \in DOMAIN t /\ Tail(t)[i] = t[i + 1]
        <4>4. Len(t) \in Nat /\ DOMAIN t = 1 .. Len(t)
          BY <1>3, LenProperties
        <4>1. Len(t) \in Nat /\ Len(t) >= 2 /\ DOMAIN t = 1 .. Len(t)
          BY <1>3, <3>1, <4>4
        <4>2. /\ Tail(t) \in Seq(Request) /\ Len(Tail(t)) = Len(t) - 1
              /\ \A i \in 1 .. Len(Tail(t)) : Tail(t)[i] = t[i + 1]
          BY <1>3, HeadTailProperties
        <4>5. DOMAIN Tail(t) = 1 .. Len(t) - 1
          BY <4>2, LenProperties
        <4>3. DOMAIN Tail(t) = 1 .. Len(t) - 1 /\ Tail(t) # << >>
          <5>1. Len(<< >>) = 0 /\ Len(Tail(t)) # 0
            BY <4>1, <4>2
          <5>2. Tail(t) # << >>
            BY <5>1
          <5> QED
            BY <4>5, <5>2
        <4> QED
          BY <4>1, <4>2, <4>3
      <3>4. \A i \in DOMAIN Tail(t) : Tail(t)[i].type \in Mute
        BY <3>2, <3>3
      <3>5. op[c].answer = << >>
        BY <1>2, <1>3, <3>2 DEF HaCallInv, OutcomeInv, t
      <3>6. OutcomeInv(op'[c])
        BY <1>1, <2>1, <3>5 DEF OutcomeInv
      <3> QED
        BY <2>1, <3>3, <3>4, <3>6 DEF HaCallInv, Mute, HaType, t
    <2> QED
      BY <1>4, <1>6, <2>1, <2>2 DEF HaInv, HaCallInv
  <1>8. CASE MissingTaken(c)
    <2>1. /\ op[c].http = "notFound" /\ Head(t).type = "put"
          /\ op'[c].todo = t /\ op'[c].answer = op[c].answer /\ orphans' = orphans
      BY <1>8 DEF MissingTaken
    <2>2. op[c].answer = << >>
      BY <1>2, <2>1 DEF HaCallInv, OutcomeInv
    <2>3. HaCallInv(op'[c])
      BY <1>1, <1>2, <2>1, <2>2 DEF HaCallInv, OutcomeInv
    <2> QED
      BY <1>4, <1>6, <2>1, <2>3 DEF HaInv, HaCallInv
  <1> QED
    BY <1>5, <1>7, <1>8 DEF HttpTaken

LEMMA OrphanHa ==
  ASSUME HaInv, NEW x \in orphans, HandleOrphan(x)
  PROVE  HaInv'
PROOF
  <1>1. op' = op /\ orphans' \subseteq orphans
    BY DEF HandleOrphan
  <1> QED
    BY <1>1, HaFrame DEF AtHa, Waiting, HaInv

LEMMA HandleCallHa ==
  ASSUME HaInv, NEW w \in Worker, HandleCall(w)
  PROVE  HaInv'
PROOF
  <1>1. op' = op /\ orphans' = orphans
    BY DEF HandleCall
  <1> QED
    BY <1>1, HaFrame DEF AtHa, Waiting, HaInv

-----------------------------------------------------------------------------
(* TypeOK, CallsInv and HaInv are invariant                                *)

BaseInv == TypeOK /\ CallsInv /\ HaInv

LEMMA InitBase == Init => BaseInv
PROOF
  <1> SUFFICES ASSUME Init PROVE BaseInv
    OBVIOUS
  <1>1. Idle.phase = "idle"
    BY DEF Idle, Opened
  <1>2. \A c \in Caller : op[c] = Idle /\ ~Waiting(c) /\ ~AtCluster(c) /\ ~AtHa(c)
    BY <1>1 DEF Init, Waiting, AtCluster, AtHa
  <1>3. EmptyDict \in Dict
    BY DEF EmptyDict, Dict
  <1>4. op \in [Caller -> Op] /\ toMaster \in [Worker -> Seq(Message)]
    BY IdleOp DEF Init
  <1>5. spent \in [calls : 0 .. MaxCalls, faults : 0 .. MaxFaults]
    BY PluginStorageAssumption DEF Init
  <1>6. TypeOK
    BY <1>3, <1>4, <1>5 DEF Init, TypeOK, Message
  <1>7. PipeInv
    <2>2. \A w \in Worker : ~Waiting(<<w, "plugin">>)
      BY <1>2, CallerOf
    <2>3. \A w \in Worker : toMaster[w] = << >>
      BY DEF Init
    <2>4. << >> \in Seq(Message) /\ Len(<< >>) = 0
      OBVIOUS
    <2>5. DOMAIN << >> = 1 .. 0
      BY <2>4, LenProperties
    <2>6. 1 .. 0 = {}
      OBVIOUS
    <2>1. \A w \in Worker : \A i \in DOMAIN toMaster[w] : FALSE
      BY <2>3, <2>5, <2>6
    <2> QED
      BY <2>1, <2>2 DEF PipeInv, OwnPipe
  <1>8. ReplyInv /\ ClusterInv /\ HaInv
    BY <1>2 DEF Init, ReplyInv, ClusterInv, HaInv
  <1> QED
    BY <1>6, <1>7, <1>8 DEF BaseInv, CallsInv

LEMMA NextBase ==
  ASSUME BaseInv, [Next]_vars
  PROVE  BaseInv'
PROOF
  <1> USE DEF BaseInv
  <1>1. CASE UNCHANGED vars
    <2>1. TypeOK'
      BY <1>1 DEF vars, TypeOK
    <2>2. /\ \A c \in Caller : /\ Waiting(c)' = Waiting(c) /\ AtCluster(c)' = AtCluster(c)
                               /\ AtHa(c)' = AtHa(c)
          /\ \A w \in Worker : Started(w)' = Started(w)
      BY <1>1 DEF vars, Waiting, AtCluster, AtHa, Started
    <2>3. \A d \in Caller : /\ Waiting(d)' => op'[d].at \in {Cluster, Ha}
                            /\ AtCluster(d)' => AtCluster(d) /\ op'[d] = op[d]
      BY <1>1, <2>2 DEF vars, CallsInv, ClusterInv
    <2>4. \A w \in Worker : Waiting(<<w, "plugin">>)' => Started(w)
      BY <1>1, <2>2, CallerOf DEF CallsInv, PipeInv, OwnPipe
    <2>5. CallsInv'
      BY <1>1, <2>2, <2>3, <2>4, CallsFrame DEF vars
    <2>6. HaInv'
      BY <1>1, <2>2, HaFrame DEF vars, HaInv
    <2> QED
      BY <2>1, <2>5, <2>6
  <1>2. CASE Next
    <2>0. UNCHANGED shared
      BY <1>2 DEF Next
    <2>1. ASSUME NEW w \in Worker, Start(w)
          PROVE  BaseInv'
      BY <2>0, <2>1, StartType, StartCalls, StartHa
    <2>2. ASSUME NEW w \in Worker, HandleCall(w)
          PROVE  BaseInv'
      BY <2>0, <2>2, HandleCallType, HandleCallCalls, HandleCallHa
    <2>3. ASSUME NEW w \in Worker, Crash(w)
          PROVE  BaseInv'
      <3>1. {w} \in SUBSET Worker /\ End({w})
        BY <2>3 DEF Crash
      <3> QED
        BY <2>0, <2>3, <3>1, CrashType, CrashCalls, EndHa
    <2>4. ASSUME NEW w \in Worker, NEW o \in Operation, NEW at \in {w, shared}, Operate(w, o, at)
          PROVE  BaseInv'
      BY <2>0, <2>4, OperateType, OperateCalls, OperateHa
    <2>5. ASSUME NEW c \in Caller, HandleHttp(c)
          PROVE  BaseInv'
      <3>1. HttpStep(c)
        BY <2>5, HandleHttpParts
      <3>2. AtHa(c) /\ op'[c].at = op[c].at /\ op'[c].phase # "idle"
            /\ UNCHANGED <<messageIndex, toMaster, replies>>
            /\ \A d \in Caller \ {c} : op'[d] = op[d]
        BY <3>1 DEF HttpStep, AtHa
      <3>3. CallsInv'
        BY <3>2, HttpCalls
      <3> QED
        BY <2>0, <2>5, <3>1, <3>3, HandleHttpType, HandleHttpHa
    <2>6. ASSUME NEW c \in Caller, TakeHttp(c)
          PROVE  BaseInv'
      <3>1. HttpTaken(c)
        BY <2>6, TakeHttpParts
      <3>2. AtHa(c) /\ op'[c].at = op[c].at
            /\ UNCHANGED <<messageIndex, toMaster, replies>>
            /\ \A d \in Caller \ {c} : op'[d] = op[d]
        BY <3>1 DEF HttpTaken, AtHa
      <3>3. op'[c].phase # "idle"
        BY <3>1 DEF HttpTaken, FailureTaken, SuccessTaken, MissingTaken
      <3>4. CallsInv'
        BY <3>2, <3>3, HttpCalls
      <3> QED
        BY <2>0, <2>6, <3>1, <3>4, TakeHttpType, TakeHttpHa
    <2>7. ASSUME NEW c \in Caller, NEW r \in replies, TakeReply(c[1], c[2], r)
          PROVE  BaseInv'
      <3>1. c[1] \in Worker /\ c[2] \in {"plugin", "startup"}
        BY DEF Caller
      <3> QED
        BY <2>0, <2>7, <3>1, TakeReplyType, TakeReplyCalls, TakeReplyHa
    <2>8. ASSUME NEW c \in Caller, GiveUp(c)
          PROVE  BaseInv'
      BY <2>0, <2>8, GiveUpType, GiveUpCalls, GiveUpHa
    <2>9. ASSUME NEW x \in orphans, HandleOrphan(x)
          PROVE  BaseInv'
      BY <2>0, <2>9, HandleOrphanType, OrphanCalls, OrphanHa
    <2> QED
      BY <1>2, <2>1, <2>2, <2>3, <2>4, <2>5, <2>6, <2>7, <2>8, <2>9 DEF Next, CallerStep
  <1> QED
    BY <1>1, <1>2

\* The variables hold what their comments say: dictionaries, operations with
\* their requests left, messages that are requests.
THEOREM TypeCorrect == Spec => []TypeOK
PROOF
  <1>1. Init => BaseInv
    BY InitBase
  <1>2. BaseInv /\ [Next]_vars => BaseInv'
    BY NextBase
  <1>3. BaseInv => TypeOK
    BY DEF BaseInv
  <1> QED
    BY <1>1, <1>2, <1>3, PTL DEF Spec

-----------------------------------------------------------------------------
(* setAll() at the caching service: SetAllInv is inductive                 *)

\* What a step leaves of an undisturbed setAll(): its operation and ha are the
\* same, and no write has come up.
Spared(c) ==
  /\ op'[c] = op[c] /\ ha' = ha
  /\ \A x \in orphans' : x \in orphans \/ x.request.type \notin WriteType
  /\ \A e \in Caller \ {c} : Writes(e)' => Writes(e)

LEMMA SparedIsUndisturbed ==
  ASSUME SetAllInv, NEW c \in Caller, Undisturbed(c)', alone'[c] => alone[c],
         op'[c] = op[c], Undisturbed(c) => Spared(c)
  PROVE  (NobodyElse(c) /\ Progress(op[c], ha))'
PROOF
  <1>1. Undisturbed(c)
    BY DEF Undisturbed
  <1>2. NobodyElse(c) /\ Progress(op[c], ha) /\ Spared(c)
    BY <1>1 DEF SetAllInv
  <1>3. NobodyElse(c)'
    BY <1>2 DEF NobodyElse, Spared
  <1> QED
    BY <1>2, <1>3 DEF Spared

\* Steps of an operation that is not at the caching service.
LEMMA SetAllFrame ==
  ASSUME SetAllInv, NEW c \in Caller, op'[c].at # Ha \/ op'[c] = op[c],
         \A d \in Caller \ {c} : op'[d] = op[d],
         UNCHANGED <<ha, orphans, alone>>
  PROVE  SetAllInv'
PROOF
  <1> SUFFICES ASSUME NEW d \in Caller, Undisturbed(d)'
               PROVE  (NobodyElse(d) /\ Progress(op[d], ha))'
    BY DEF SetAllInv
  <1>1. op'[d] = op[d]
    BY DEF Undisturbed
  <1>2. \A e \in Caller : Writes(e)' => Writes(e)
    BY DEF Writes, Waiting
  <1>3. Spared(d) /\ (alone'[d] => alone[d])
    BY <1>1, <1>2 DEF Spared
  <1> QED
    BY <1>1, <1>3, SparedIsUndisturbed

LEMMA RemoteCallSetAll ==
  ASSUME TypeOK, SetAllInv, NEW w \in Worker, NEW a \in {"plugin", "startup"}, NEW o \in Op,
         o.at = Cluster, Len(o.todo) = 1, RemoteCall(w, a, o), UNCHANGED <<ha, orphans, alone>>
  PROVE  SetAllInv'
PROOF
  <1> DEFINE c == <<w, a>>
  <1>1. RemoteCalled(w, a, o)
    BY RemoteCallParts
  <1>2. c \in Caller /\ op'[c].at = Cluster /\ \A d \in Caller \ {c} : op'[d] = op[d]
    BY <1>1 DEF RemoteCalled
  <1>3. op'[c].at # Ha
    BY <1>2, PluginStorageAssumption
  <1> HIDE DEF c
  <1> QED
    BY <1>2, <1>3, SetAllFrame

LEMMA StartSetAll ==
  ASSUME TypeOK, SetAllInv, NEW w \in Worker, Start(w)
  PROVE  SetAllInv'
PROOF
  <1> DEFINE q == [type |-> "getAll"]
             o == Opened(<<q>>, Cluster)
  <1>1. <<q>> \in Seq(Request) /\ Cluster \in Location /\ Len(<<q>>) = 1
    BY DEF Request, Location
  <1>2. o \in Op /\ o.at = Cluster /\ o.todo = <<q>>
    BY <1>1, OpenedOp, OpenedAt
  <1>3. RemoteCall(w, "startup", o) /\ UNCHANGED <<ha, orphans, alone>>
    BY DEF Start
  <1> HIDE DEF o, q
  <1> QED
    BY <1>1, <1>2, <1>3, RemoteCallSetAll

LEMMA TakeReplySetAll ==
  ASSUME TypeOK, SetAllInv, NEW w \in Worker, NEW a \in {"plugin", "startup"}, NEW r \in replies,
         TakeReply(w, a, r)
  PROVE  SetAllInv'
PROOF
  <1> DEFINE c == <<w, a>>
             merge == Opened(<<[type |-> "merge", dict |-> local[w]]>>, Cluster)
  <1>1. c \in Caller /\ AtCluster(c) /\ UNCHANGED <<ha, orphans, alone>>
    BY TakeReplyParts
  <1>2. CASE Merges(w, a)
    <2>1. merge \in Op /\ merge.at = Cluster /\ Len(merge.todo) = 1
      BY MergeOp
    <2>2. RemoteCall(w, a, merge)
      BY <1>2 DEF Merges
    <2> HIDE DEF merge
    <2> QED
      BY <1>1, <2>1, <2>2, RemoteCallSetAll
  <1>3. CASE Resolved(c, r.answer)
    <2>1. op'[c].at # Ha /\ \A d \in Caller \ {c} : op'[d] = op[d]
      BY <1>1, <1>3, PluginStorageAssumption DEF Resolved, AtCluster
    <2> HIDE DEF c
    <2> QED
      BY <1>1, <2>1, SetAllFrame
  <1> QED
    BY <1>2, <1>3, TakeReplyCases

LEMMA EndSetAll ==
  ASSUME TypeOK, HaInv, SetAllInv, NEW W \in SUBSET Worker, End(W)
  PROVE  SetAllInv'
PROOF
  <1> SUFFICES ASSUME NEW d \in Caller, Undisturbed(d)'
               PROVE  (NobodyElse(d) /\ Progress(op[d], ha))'
    BY DEF SetAllInv
  <1>1. d[1] \notin W /\ alone'[d] = alone[d]
    BY DEF End, Undisturbed
  <1>2. op'[d] = op[d] /\ ha' = ha
    BY <1>1 DEF End
  <1>3. \A e \in Caller : Writes(e)' => Writes(e)
    <2> SUFFICES ASSUME NEW e \in Caller, Writes(e)' PROVE Writes(e)
      OBVIOUS
    <2>1. op'[e].phase = "waiting"
      BY DEF Writes, Waiting
    <2>2. op'[e] = op[e]
      BY <2>1 DEF End, Idle, Opened
    <2> QED
      BY <2>2 DEF Writes, Waiting
  <1>4. ASSUME Undisturbed(d), NEW x \in orphans', x \notin orphans
        PROVE  x.request.type \notin WriteType
    <2> DEFINE V == {v \in W : /\ Waiting(<<v, "plugin">>) /\ op[<<v, "plugin">>].at = Ha
                               /\ op[<<v, "plugin">>].http = "sent"}
    <2>1. PICK w \in V : x = [request |-> Head(op[<<w, "plugin">>].todo),
                              create |-> op[<<w, "plugin">>].create]
      BY <1>4 DEF InFlight, End
    <2> DEFINE e == <<w, "plugin">>
    <2>2. e \in Caller /\ AtHa(e) /\ x.request = Head(op[e].todo) /\ e # d
      BY <1>1, <2>1 DEF AtHa, Caller
    <2> HIDE DEF e
    <2>3. ~Writes(e)
      BY <1>4, <2>2 DEF SetAllInv, NobodyElse
    <2>4. Head(op[e].todo) = op[e].todo[1] /\ 1 \in DOMAIN op[e].todo
      BY <2>2, HaCall
    <2> QED
      BY <2>2, <2>3, <2>4 DEF Writes, AtHa, WriteType
  <1>5. Undisturbed(d) => Spared(d)
    BY <1>2, <1>3, <1>4 DEF Spared
  <1> QED
    BY <1>1, <1>2, <1>5, SparedIsUndisturbed

LEMMA GiveUpSetAll ==
  ASSUME TypeOK, HaInv, SetAllInv, NEW c \in Caller, GiveUp(c)
  PROVE  SetAllInv'
PROOF
  <1>1. CASE ServerEnds
    <2>1. Worker \in SUBSET Worker /\ End(Worker)
      BY <1>1 DEF ServerEnds
    <2> QED
      BY <2>1, EndSetAll
  <1>2. CASE /\ op'[c].at = op[c].at
             /\ \A d \in Caller \ {c} : op'[d] = op[d]
             /\ UNCHANGED <<ha, orphans, alone>>
    <2>1. op'[c].at # Ha
      BY <1>2, GiveUpParts, PluginStorageAssumption DEF AtCluster
    <2> QED
      BY <1>2, <2>1, SetAllFrame
  <1> QED
    BY <1>1, <1>2, GiveUpParts

LEMMA HandleCallSetAll ==
  ASSUME SetAllInv, NEW w \in Worker, HandleCall(w)
  PROVE  SetAllInv'
PROOF
  <1>1. op' = op /\ UNCHANGED <<ha, orphans, alone>>
    BY DEF HandleCall
  <1>2. <<w, "plugin">> \in Caller
    BY DEF Caller
  <1> QED
    BY <1>1, <1>2, SetAllFrame

\* Only writes change what the service has.
LEMMA ReadLeavesHa ==
  ASSUME NEW m, NEW q, q.type \notin WriteType
  PROVE  ServiceApply(m, q) = m
  BY DEF ServiceApply, WriteType

LEMMA OrphanSetAll ==
  ASSUME SetAllInv, NEW x \in orphans, HandleOrphan(x)
  PROVE  SetAllInv'
PROOF
  <1> SUFFICES ASSUME NEW d \in Caller, Undisturbed(d)'
               PROVE  (NobodyElse(d) /\ Progress(op[d], ha))'
    BY DEF SetAllInv
  <1>1. op' = op /\ alone' = alone /\ orphans' \subseteq orphans
    BY DEF HandleOrphan
  <1>2. ASSUME Undisturbed(d)
        PROVE  ha' = ha
    <2>1. x.request.type \notin WriteType
      BY <1>2 DEF SetAllInv, NobodyElse
    <2> QED
      BY <2>1, ReadLeavesHa DEF HandleOrphan
  <1>3. \A e \in Caller : Writes(e)' => Writes(e)
    BY <1>1 DEF Writes, Waiting
  <1>4. Undisturbed(d) => Spared(d)
    BY <1>1, <1>2, <1>3 DEF Spared
  <1> QED
    BY <1>1, <1>4, SparedIsUndisturbed

LEMMA OperateSetAll ==
  ASSUME TypeOK, SetAllInv, NEW w \in Worker, NEW o \in Operation, NEW at \in {w, shared},
         Operate(w, o, at)
  PROVE  SetAllInv'
PROOF
  <1> DEFINE c == <<w, "plugin">>
             new == Opened(Requests(o, at), at)
  <1>1. c \in Caller /\ at \in Location /\ orphans' = orphans
    BY OperateParts
  <1>2. w # Cluster /\ w # Ha /\ Cluster # Ha
    BY PluginStorageAssumption
  <1>3. CASE at = Cluster
    <2>1. Requests(o, at) \in Seq(Request) /\ Len(Requests(o, at)) = 1
      BY <1>1, <1>2, <1>3, RequestsFacts
    <2>2. new \in Op /\ new.at = Cluster /\ new.todo = Requests(o, at)
      BY <1>1, <1>3, <2>1, OpenedOp, OpenedAt
    <2>3. RemoteCall(w, "plugin", new) /\ UNCHANGED <<ha, alone>>
      BY <1>3, OperateParts
    <2> HIDE DEF new
    <2> QED
      BY <1>1, <2>1, <2>2, <2>3, RemoteCallSetAll
  <1>4. CASE at # Cluster /\ at # Ha
    <2>1. op'[c].at = at /\ \A d \in Caller \ {c} : op'[d] = op[d]
      BY <1>4, OperateParts
    <2>2. UNCHANGED <<ha, alone>>
      BY <1>4 DEF Operate
    <2> HIDE DEF c
    <2> QED
      BY <1>1, <1>4, <2>1, <2>2, SetAllFrame
  <1>5. CASE at = Ha
    <2>0. at # Cluster
      BY <1>2, <1>5
    <2>1. \A d \in Caller \ {c} : op'[d] = op[d]
      BY <2>0, OperateParts
    <2>2. /\ op'[c].phase = "waiting" /\ op'[c].todo = Requests(o, at)
          /\ op'[c].http = "sent" /\ ~op'[c].handled
          /\ op'[c].writes = (IF o.type = "setAll" THEN o.dict ELSE NoValue)
          /\ ha' = ha
      BY <1>5, OperateParts
    <2>3. alone' = [d \in Caller |->
                     IF d = c THEN orphans = {} /\ \A e \in Caller \ {c} : ~Writes(e)
                     ELSE alone[d] /\ o.type \in {"get", "getAll"}]
      BY <1>2, <1>5 DEF Operate
    <2>4. ASSUME Undisturbed(c)'
          PROVE  (NobodyElse(c) /\ Progress(op[c], ha))'
      <3>1. orphans = {} /\ \A e \in Caller \ {c} : ~Writes(e)
        BY <1>1, <2>3, <2>4 DEF Undisturbed
      <3>2. NobodyElse(c)'
        BY <1>1, <2>1, <3>1 DEF NobodyElse, Writes, Waiting
      <3>3. o.type = "setAll" /\ op'[c].writes = o.dict
        BY <2>2, <2>4 DEF Undisturbed
      <3>4. o.dict \in Dict /\ op'[c].todo = SetAllRequests(o.dict)
        BY <1>1, <1>5, <2>2, <3>3, RequestsFacts
      <3> DEFINE s == SetAllRequests(o.dict)
      <3>5. /\ s[1].type = "clear"
            /\ \A i \in DOMAIN s : PartOf(o.dict, s[i], i)
            /\ \A k \in Key : o.dict[k] = NoValue \/ StillToPut(s, 2, k)
        BY <3>4, SetAllFacts
      <3> HIDE DEF c, s
      <3>6. ~Cleared(op'[c])
        BY <2>2, <3>4, <3>5 DEF Cleared, s
      <3>7. Progress(op'[c], ha')
        BY <2>2, <3>3, <3>4, <3>5, <3>6 DEF Progress, s
      <3> QED
        BY <3>2, <3>7
    <2>5. ASSUME NEW d \in Caller \ {c}, Undisturbed(d)'
          PROVE  (NobodyElse(d) /\ Progress(op[d], ha))'
      <3>1. alone[d] /\ o.type \in {"get", "getAll"}
        BY <2>3, <2>5 DEF Undisturbed
      <3>2. \A i \in DOMAIN op'[c].todo : op'[c].todo[i].type \notin WriteType
        BY <1>1, <1>5, <2>2, <3>1, RequestsFacts
      <3>3. ~Writes(c)'
        BY <3>2 DEF Writes, WriteType
      <3> HIDE DEF c
      <3>4. \A e \in Caller : Writes(e)' => Writes(e)
        BY <2>1, <3>3 DEF Writes, Waiting
      <3>5. Spared(d)
        BY <1>1, <2>1, <2>2, <3>4 DEF Spared
      <3> QED
        BY <2>1, <2>5, <3>1, <3>5, SparedIsUndisturbed
    <2> QED
      BY <2>4, <2>5 DEF SetAllInv
  <1> QED
    BY <1>3, <1>4, <1>5

\* What is left of a sequence of requests once its first one is done.
LEMMA TailFacts ==
  ASSUME NEW t \in Seq(Request), t # << >>
  PROVE  /\ Len(t) \in Nat /\ DOMAIN t = 1 .. Len(t) /\ Len(t) >= 1
         /\ Tail(t) \in Seq(Request) /\ DOMAIN Tail(t) = 1 .. Len(t) - 1
         /\ \A i \in DOMAIN Tail(t) : i + 1 \in DOMAIN t /\ Tail(t)[i] = t[i + 1]
         /\ \A i \in DOMAIN t : i >= 2 => i - 1 \in DOMAIN Tail(t) /\ Tail(t)[i - 1] = t[i]
PROOF
  <1>1. Len(t) \in Nat /\ DOMAIN t = 1 .. Len(t) /\ Len(t) >= 1
    BY EmptySeq, LenProperties
  <1>2. /\ Tail(t) \in Seq(Request) /\ Len(Tail(t)) = Len(t) - 1
        /\ \A i \in 1 .. Len(Tail(t)) : Tail(t)[i] = t[i + 1]
    BY HeadTailProperties
  <1>3. DOMAIN Tail(t) = 1 .. Len(t) - 1
    BY <1>2, LenProperties
  <1>4. \A i \in DOMAIN Tail(t) : i + 1 \in DOMAIN t /\ Tail(t)[i] = t[i + 1]
    BY <1>1, <1>2, <1>3
  <1>5. \A i \in DOMAIN t : i >= 2 => i - 1 \in DOMAIN Tail(t) /\ Tail(t)[i - 1] = t[i]
    <2> SUFFICES ASSUME NEW i \in DOMAIN t, i >= 2
                 PROVE  i - 1 \in DOMAIN Tail(t) /\ Tail(t)[i - 1] = t[i]
      OBVIOUS
    <2>1. i - 1 \in DOMAIN Tail(t) /\ (i - 1) + 1 = i
      BY <1>1, <1>3
    <2>2. Tail(t)[i - 1] = t[(i - 1) + 1]
      BY <1>4, <2>1
    <2> QED
      BY <2>1, <2>2
  <1> QED
    BY <1>1, <1>2, <1>3, <1>4, <1>5

LEMMA HandleHttpSetAll ==
  ASSUME TypeOK, HaInv, SetAllInv, NEW c \in Caller, HttpStep(c)
  PROVE  SetAllInv'
PROOF
  <1> DEFINE o == op[c]
             t == o.todo
             q == Head(t)
  <1>1. /\ AtHa(c) /\ o.http = "sent"
        /\ op'[c].phase = "waiting" /\ op'[c].at = Ha /\ op'[c].todo = t
        /\ op'[c].writes = o.writes
        /\ Handled(c, op'[c].http)
        /\ \A d \in Caller \ {c} : op'[d] = op[d]
        /\ orphans' = orphans /\ alone' = alone
    BY DEF HttpStep
  <1>2. t \in Seq(Request) /\ q \in Request /\ q = t[1] /\ 1 \in DOMAIN t /\ o \in Op
    BY <1>1, HaCall
  <1>3. o.handled = FALSE
    <2>1. OutcomeInv(o) /\ o.handled \in BOOLEAN
      BY <1>1, <1>2 DEF HaInv, Op
    <2> QED
      BY <1>1, <2>1 DEF OutcomeInv
  <1>4. \A e \in Caller : Writes(e)' = Writes(e)
    BY <1>1 DEF Writes, Waiting, AtHa
  <1>5. \/ ha' = ServiceApply(ha, q) /\ op'[c].handled = TRUE
        \/ ha' = ha /\ op'[c].handled = FALSE
    BY <1>1, <1>3 DEF Handled
  <1>6. ASSUME NEW d \in Caller \ {c}, Undisturbed(d)'
        PROVE  (NobodyElse(d) /\ Progress(op[d], ha))'
    <2>1. ASSUME Undisturbed(d)
          PROVE  ha' = ha
      <3>1. ~Writes(c)
        BY <2>1 DEF SetAllInv, NobodyElse
      <3>2. q.type \notin WriteType
        BY <1>1, <1>2, <3>1 DEF Writes, AtHa, WriteType
      <3> QED
        BY <1>5, <3>2, ReadLeavesHa
    <2>2. Undisturbed(d) => Spared(d)
      BY <1>1, <1>4, <2>1 DEF Spared
    <2> QED
      BY <1>1, <1>6, <2>2, SparedIsUndisturbed
  <1>7. ASSUME Undisturbed(c)'
        PROVE  (NobodyElse(c) /\ Progress(op[c], ha))'
    <2>1. Undisturbed(c) /\ o.phase = "waiting"
      BY <1>1, <1>7 DEF Undisturbed, AtHa, Waiting
    <2>2. NobodyElse(c) /\ Progress(o, ha)
      BY <2>1 DEF SetAllInv
    <2>3. NobodyElse(c)'
      BY <1>1, <1>4, <2>2 DEF NobodyElse
    <2> DEFINE d == o.writes
               p == op'[c]
    <2>4. /\ \A i \in DOMAIN t : PartOf(d, t[i], i)
          /\ Cleared(o) =>
               \A k \in Key : ha[k] = d[k] \/ (ha[k] = NoValue /\ StillToPut(t, 1, k))
          /\ ~Cleared(o) => \A k \in Key : d[k] = NoValue \/ StillToPut(t, 2, k)
      BY <1>3, <2>1, <2>2 DEF Progress
    <2>5. Cleared(o) <=> q.type # "clear"
      BY <1>2, <1>3 DEF Cleared
    <2>6. p.phase = "waiting" /\ p.todo = t /\ p.writes = d
      BY <1>1
    <2>7. CASE ha' = ha /\ p.handled = FALSE
      <3>1. Cleared(p) = Cleared(o)
        BY <1>3, <2>6, <2>7 DEF Cleared
      <3>2. Progress(p, ha')
        BY <2>4, <2>6, <2>7, <3>1 DEF Progress
      <3> QED
        BY <2>3, <3>2
    <2>8. CASE ha' = ServiceApply(ha, q) /\ p.handled = TRUE
      <3>1. Cleared(p)
        BY <2>8 DEF Cleared
      <3>2. \A k \in Key : ha'[k] = d[k] \/ (ha'[k] = NoValue /\ StillToPut(t, 2, k))
        <4>1. CASE q.type = "clear"
          <5>1. ha' = EmptyDict
            BY <2>8, <4>1 DEF ServiceApply
          <5> QED
            BY <2>4, <2>5, <4>1, <5>1 DEF EmptyDict
        <4>2. CASE q.type # "clear"
          <5>1. q.type = "put" /\ q.value = d[q.key] /\ q.key \in Key
            BY <1>2, <2>4, <4>2, RequestParts DEF PartOf
          <5>2. ha' = [ha EXCEPT ![q.key] = d[q.key]] /\ ha \in Dict
            BY <2>8, <5>1 DEF ServiceApply, TypeOK
          <5> SUFFICES ASSUME NEW k \in Key, k # q.key
                       PROVE  ha'[k] = d[k] \/ (ha'[k] = NoValue /\ StillToPut(t, 2, k))
            BY <5>1, <5>2 DEF Dict
          <5>3. ha'[k] = ha[k]
            BY <5>1, <5>2 DEF Dict
          <5>4. StillToPut(t, 1, k) => StillToPut(t, 2, k)
            <6> SUFFICES ASSUME NEW i \in DOMAIN t, t[i].type = "put", t[i].key = k
                         PROVE  i >= 2
              BY DEF StillToPut
            <6>1. i # 1 /\ DOMAIN t = 1 .. Len(t) /\ Len(t) \in Nat
              BY <1>2, LenProperties
            <6> QED
              BY <6>1
          <5> QED
            BY <2>4, <2>5, <4>2, <5>3, <5>4
        <4> QED
          BY <4>1, <4>2
      <3>3. Progress(p, ha')
        BY <2>4, <2>6, <2>8, <3>1, <3>2 DEF Progress
      <3> QED
        BY <2>3, <3>3
    <2> QED
      BY <1>5, <2>7, <2>8
  <1> QED
    BY <1>6, <1>7 DEF SetAllInv

LEMMA TakeHttpSetAll ==
  ASSUME TypeOK, HaInv, SetAllInv, NEW c \in Caller, HttpTaken(c)
  PROVE  SetAllInv'
PROOF
  <1> DEFINE o == op[c]
             p == op'[c]
             t == o.todo
             d == o.writes
  <1>1. /\ AtHa(c) /\ o.phase = "waiting" /\ p.http = "sent" /\ p.handled = FALSE
        /\ p.at = Ha /\ p.writes = d
        /\ \A e \in Caller \ {c} : op'[e] = op[e]
        /\ ha' = ha /\ alone' = alone
    BY DEF HttpTaken, AtHa, Waiting
  <1>2. /\ t \in Seq(Request) /\ t # << >> /\ Head(t) = t[1] /\ 1 \in DOMAIN t
        /\ o \in Op /\ OutcomeInv(o)
    BY <1>1, HaCall DEF HaInv
  <1>3. /\ FailureTaken(c) => p.phase = "rejected"
        /\ FailureTaken(c) => \A x \in orphans' : x \in orphans \/ x.request = Head(t)
    BY DEF FailureTaken
  <1>4. SuccessTaken(c) => /\ o.handled = TRUE /\ p.todo = Tail(t) /\ orphans' = orphans
                           /\ p.phase = IF Len(t) = 1 THEN "resolved" ELSE "waiting"
    BY <1>2 DEF SuccessTaken, OutcomeInv, Op
  <1>5. MissingTaken(c) => /\ o.handled = FALSE /\ p.todo = t /\ orphans' = orphans
                           /\ p.phase = "waiting"
    BY <1>2 DEF MissingTaken, OutcomeInv, Op
  <1>6. FailureTaken(c) \/ SuccessTaken(c) \/ MissingTaken(c)
    BY DEF HttpTaken
  <1>7. /\ \A i \in DOMAIN Tail(t) : i + 1 \in DOMAIN t /\ Tail(t)[i] = t[i + 1]
        /\ \A i \in DOMAIN t : i >= 2 => i - 1 \in DOMAIN Tail(t) /\ Tail(t)[i - 1] = t[i]
        /\ Len(t) \in Nat /\ DOMAIN t = 1 .. Len(t) /\ DOMAIN Tail(t) = 1 .. Len(t) - 1
        /\ Len(t) >= 1
    BY <1>2, TailFacts
  <1>8. \A e \in Caller : Writes(e)' => Writes(e)
    <2>1. Writes(c)' => Writes(c)
      <3> SUFFICES ASSUME Writes(c)' PROVE Writes(c)
        OBVIOUS
      <3>1. PICK i \in DOMAIN p.todo : p.todo[i].type \in WriteType
        BY DEF Writes, WriteType
      <3>2. p.phase = "waiting"
        BY DEF Writes, Waiting
      <3>3. \E j \in DOMAIN t : t[j].type \in WriteType
        <4>1. CASE SuccessTaken(c)
          <5>1. i \in DOMAIN Tail(t) /\ p.todo[i] = Tail(t)[i]
            BY <1>4, <3>1, <4>1
          <5>2. i + 1 \in DOMAIN t /\ Tail(t)[i] = t[i + 1]
            BY <1>7, <5>1
          <5> QED
            BY <3>1, <5>1, <5>2
        <4>2. CASE MissingTaken(c)
          BY <1>5, <3>1, <4>2
        <4> QED
          BY <1>3, <1>6, <3>2, <4>1, <4>2
      <3> QED
        BY <1>1, <3>3 DEF Writes, AtHa, WriteType
    <2>2. \A e \in Caller \ {c} : Writes(e)' => Writes(e)
      BY <1>1 DEF Writes, Waiting
    <2> QED
      BY <2>1, <2>2
  <1>9. ASSUME NEW e \in Caller \ {c}, Undisturbed(e)'
        PROVE  (NobodyElse(e) /\ Progress(op[e], ha))'
    <2>1. ASSUME Undisturbed(e), NEW x \in orphans'
          PROVE  x \in orphans \/ x.request.type \notin WriteType
      <3>1. ~Writes(c)
        BY <2>1 DEF SetAllInv, NobodyElse
      <3>2. Head(t).type \notin WriteType
        BY <1>1, <1>2, <3>1 DEF Writes, AtHa, WriteType
      <3> QED
        BY <1>3, <1>4, <1>5, <1>6, <2>1, <3>2
    <2>2. Undisturbed(e) => Spared(e)
      BY <1>1, <1>8, <2>1 DEF Spared
    <2> QED
      BY <1>1, <1>9, <2>2, SparedIsUndisturbed
  <1>10. ASSUME Undisturbed(c)'
         PROVE  (NobodyElse(c) /\ Progress(op[c], ha))'
    <2>1. Undisturbed(c) /\ p.phase # "rejected" /\ d # NoValue
      BY <1>1, <1>10 DEF Undisturbed, AtHa
    <2>2. NobodyElse(c) /\ Progress(o, ha)
      BY <2>1 DEF SetAllInv
    <2>3. NobodyElse(c)'
      BY <1>3, <1>4, <1>5, <1>6, <1>8, <2>1, <2>2 DEF NobodyElse
    <2>4. CASE MissingTaken(c)
      <3>1. Cleared(p) = Cleared(o)
        BY <1>1, <1>5, <2>4 DEF Cleared
      <3>2. Progress(p, ha')
        BY <1>1, <1>5, <2>2, <2>4, <3>1 DEF Progress
      <3> QED
        BY <2>3, <3>2
    <2>5. CASE SuccessTaken(c)
      <3>1. Cleared(o)
        BY <1>4, <2>5 DEF Cleared
      <3>2. /\ \A i \in DOMAIN t : PartOf(d, t[i], i)
            /\ \A k \in Key : ha[k] = d[k] \/ (ha[k] = NoValue /\ StillToPut(t, 2, k))
        BY <1>1, <1>4, <2>2, <2>5, <3>1 DEF Progress
      <3>3. CASE Len(t) = 1
        <4>1. p.phase = "resolved"
          BY <1>4, <2>5, <3>3
        <4>2. \A k \in Key : ~StillToPut(t, 2, k)
          BY <1>7, <3>3 DEF StillToPut
        <4>3. d \in Dict /\ ha \in Dict
          BY <1>2, <2>1 DEF Op, TypeOK
        <4>4. ha = d
          BY <3>2, <4>2, <4>3 DEF Dict
        <4>5. Progress(p, ha')
          BY <1>1, <4>1, <4>4 DEF Progress
        <4> QED
          BY <2>3, <4>5
      <3>4. CASE Len(t) # 1
        <4>1. p.phase = "waiting" /\ p.todo = Tail(t)
          BY <1>4, <2>5, <3>4
        <4>2. \A i \in DOMAIN Tail(t) : Tail(t)[i].type = "put" /\ PartOf(d, Tail(t)[i], i)
          <5> SUFFICES ASSUME NEW i \in DOMAIN Tail(t)
                       PROVE  Tail(t)[i].type = "put" /\ PartOf(d, Tail(t)[i], i)
            OBVIOUS
          <5>1. i + 1 \in DOMAIN t /\ Tail(t)[i] = t[i + 1] /\ i + 1 # 1
            BY <1>7
          <5> QED
            BY <3>2, <5>1 DEF PartOf
        <4>3. 1 \in DOMAIN Tail(t)
          <5> DEFINE n == Len(t)
          <5>1. n \in Nat /\ n >= 1 /\ n # 1 /\ DOMAIN Tail(t) = 1 .. n - 1
            BY <1>7, <3>4
          <5> HIDE DEF n
          <5>2. 1 \in 1 .. n - 1
            BY <5>1
          <5> QED
            BY <5>1, <5>2
        <4>4. Cleared(p)
          BY <4>1, <4>2, <4>3 DEF Cleared
        <4>5. ASSUME NEW k \in Key, StillToPut(t, 2, k)
              PROVE  StillToPut(Tail(t), 1, k)
          <5>1. PICK i \in DOMAIN t : i >= 2 /\ t[i].type = "put" /\ t[i].key = k
            BY <4>5 DEF StillToPut
          <5>2. i - 1 \in DOMAIN Tail(t) /\ Tail(t)[i - 1] = t[i] /\ i - 1 >= 1
            BY <1>7, <5>1
          <5> QED
            BY <5>1, <5>2 DEF StillToPut
        <4>6. Progress(p, ha')
          BY <1>1, <3>2, <4>1, <4>2, <4>4, <4>5 DEF Progress
        <4> QED
          BY <2>3, <4>6
      <3> QED
        BY <3>3, <3>4
    <2> QED
      BY <1>3, <1>6, <2>1, <2>4, <2>5
  <1> QED
    BY <1>9, <1>10 DEF SetAllInv

LEMMA NextSetAll ==
  ASSUME BaseInv, SetAllInv, [Next]_vars
  PROVE  SetAllInv'
PROOF
  <1> USE DEF BaseInv
  <1>1. CASE UNCHANGED vars
    <2>1. \A c \in Caller : /\ Undisturbed(c)' = Undisturbed(c)
                            /\ Writes(c)' = Writes(c)
      BY <1>1 DEF vars, Undisturbed, Writes, Waiting
    <2> QED
      BY <1>1, <2>1 DEF vars, SetAllInv, NobodyElse
  <1>2. CASE Next
    <2>1. ASSUME NEW w \in Worker, Start(w)
          PROVE  SetAllInv'
      BY <2>1, StartSetAll
    <2>2. ASSUME NEW w \in Worker, HandleCall(w)
          PROVE  SetAllInv'
      BY <2>2, HandleCallSetAll
    <2>3. ASSUME NEW w \in Worker, Crash(w)
          PROVE  SetAllInv'
      <3>1. {w} \in SUBSET Worker /\ End({w})
        BY <2>3 DEF Crash
      <3> QED
        BY <3>1, EndSetAll
    <2>4. ASSUME NEW w \in Worker, NEW o \in Operation, NEW at \in {w, shared}, Operate(w, o, at)
          PROVE  SetAllInv'
      BY <2>4, OperateSetAll
    <2>5. ASSUME NEW c \in Caller, HandleHttp(c)
          PROVE  SetAllInv'
      BY <2>5, HandleHttpParts, HandleHttpSetAll
    <2>6. ASSUME NEW c \in Caller, TakeHttp(c)
          PROVE  SetAllInv'
      BY <2>6, TakeHttpParts, TakeHttpSetAll
    <2>7. ASSUME NEW c \in Caller, NEW r \in replies, TakeReply(c[1], c[2], r)
          PROVE  SetAllInv'
      <3>1. c[1] \in Worker /\ c[2] \in {"plugin", "startup"}
        BY DEF Caller
      <3> QED
        BY <2>7, <3>1, TakeReplySetAll
    <2>8. ASSUME NEW c \in Caller, GiveUp(c)
          PROVE  SetAllInv'
      BY <2>8, GiveUpSetAll
    <2>9. ASSUME NEW x \in orphans, HandleOrphan(x)
          PROVE  SetAllInv'
      BY <2>9, OrphanSetAll
    <2> QED
      BY <1>2, <2>1, <2>2, <2>3, <2>4, <2>5, <2>6, <2>7, <2>8, <2>9 DEF Next, CallerStep
  <1> QED
    BY <1>1, <1>2

LEMMA InvSetAll ==
  ASSUME BaseInv, SetAllInv
  PROVE  SetAllNeverMixes
PROOF
  <1> SUFFICES ASSUME NEW c \in Caller, op[c].at = Ha, op[c].writes # NoValue, alone[c]
               PROVE  /\ (Waiting(c) /\ (op[c].handled \/ op[c].todo[1].type # "clear")) =>
                            \A k \in Key : ha[k] \in {NoValue, op[c].writes[k]}
                      /\ op[c].phase = "resolved" => ha = op[c].writes
    BY DEF SetAllNeverMixes
  <1>1. op[c].phase \in {"waiting", "resolved"} => Progress(op[c], ha)
    BY DEF SetAllInv, Undisturbed
  <1> QED
    BY <1>1 DEF Progress, Cleared, Waiting

\* setAll() at the caching service, if nobody else writes there meanwhile:
\* once the old contents are deleted a key has no value or its new one, and
\* when the operation is resolved the new contents are there, whatever fails
\* and whatever operations, exits and late requests come in between.
THEOREM SetAllIsExact == Spec => []SetAllNeverMixes
PROOF
  <1>1. Init => BaseInv /\ SetAllInv
    <2>1. Init => SetAllInv
      BY DEF Init, SetAllInv, Undisturbed
    <2> QED
      BY <2>1, InitBase
  <1>2. (BaseInv /\ SetAllInv) /\ [Next]_vars => (BaseInv /\ SetAllInv)'
    BY NextBase, NextSetAll
  <1>3. BaseInv /\ SetAllInv => SetAllNeverMixes
    BY InvSetAll
  <1> QED
    BY <1>1, <1>2, <1>3, PTL DEF Spec

-----------------------------------------------------------------------------
(* The refinement: what the service sees of a state                        *)

Record(status, at, todo, answer) ==
  [status |-> status, at |-> at, todo |-> todo, answer |-> answer]

\* The operation of a caller as the service sees it: not under way; at the
\* caching service; called and not answered; answered by r.
Seen(c) ==
  /\ ~Waiting(c) => CallOf(c) = Record(op[c].phase, op[c].at, << >>, op[c].answer)
  /\ AtHa(c) => CallOf(c) = Record("open", Ha,
                              IF op[c].handled THEN Tail(op[c].todo) ELSE op[c].todo,
                              op[c].answer)
  /\ AtCluster(c) /\ InPipe(c) => CallOf(c) = Record("open", Cluster, op[c].todo, << >>)
  /\ \A r \in replies :
       AnswersCall(r, c) =>
         ~InPipe(c) /\ CallOf(c) = Record("open", Cluster, << >>, r.answer)

SeenAll == \A c \in Caller : Seen(c)

LEMMA BaseSeen == BaseInv => SeenAll
PROOF
  <1> SUFFICES ASSUME BaseInv, NEW c \in Caller PROVE Seen(c)
    BY DEF SeenAll
  <1>1. Cluster # Ha
    BY PluginStorageAssumption
  <1>2. ~AtCluster(c) => Answered(c) = {}
    BY DEF Answered, AnswersCall, AtCluster
  <1>3. ASSUME NEW r \in replies, AnswersCall(r, c)
        PROVE  Answered(c) = {r.answer} /\ ~InPipe(c) /\ AtCluster(c)
    <2>1. r.worker = c[1] /\ AtCluster(c) /\ r.index = op[c].index
      BY <1>3 DEF AnswersCall, AtCluster
    <2>2. OwnReply(r)
      BY DEF BaseInv, CallsInv, ReplyInv
    <2>3. ~InPipe(c)
      BY <2>1, <2>2 DEF InPipe, OwnReply
    <2>4. \A s \in replies : AnswersCall(s, c) => s = r
      BY <2>1, <2>2 DEF AnswersCall, OwnReply
    <2>5. Answered(c) = {r.answer}
      BY <1>3, <2>4 DEF Answered
    <2> QED
      BY <2>1, <2>3, <2>5
  <1>4. ~Waiting(c) => CallOf(c) = Record(op[c].phase, op[c].at, << >>, op[c].answer)
    BY <1>2 DEF CallOf, Record, AtCluster
  <1>5. AtHa(c) => CallOf(c) = Record("open", Ha,
                                 IF op[c].handled THEN Tail(op[c].todo) ELSE op[c].todo,
                                 op[c].answer)
    BY <1>1, <1>2 DEF CallOf, Record, AtCluster, AtHa, Remaining
  <1>6. AtCluster(c) /\ InPipe(c) => CallOf(c) = Record("open", Cluster, op[c].todo, << >>)
    <2> SUFFICES ASSUME AtCluster(c), InPipe(c)
                 PROVE  CallOf(c) = Record("open", Cluster, op[c].todo, << >>)
      OBVIOUS
    <2>1. Answered(c) = {}
      BY <1>3 DEF Answered
    <2>2. op[c].answer = << >>
      BY DEF BaseInv, CallsInv, ClusterInv, OneRequest
    <2> QED
      BY <1>1, <2>1, <2>2 DEF CallOf, Record, AtCluster, Remaining
  <1>7. ASSUME NEW r \in replies, AnswersCall(r, c)
        PROVE  ~InPipe(c) /\ CallOf(c) = Record("open", Cluster, << >>, r.answer)
    <2>1. Answered(c) = {r.answer} /\ ~InPipe(c) /\ AtCluster(c)
      BY <1>3, <1>7
    <2>2. (CHOOSE x \in Answered(c) : TRUE) = r.answer
      BY <2>1
    <2>3. Answered(c) # {}
      BY <2>1
    <2> QED
      BY <1>1, <2>1, <2>2, <2>3 DEF CallOf, Record, AtCluster, Remaining
  <1> QED
    BY <1>4, <1>5, <1>6, <1>7 DEF Seen

LEMMA BaseSeenNext == BaseInv' => SeenAll'
  BY BaseSeen, PTL

\* A caller whose operation, messages and answers a step leaves alone.
LEMMA CallKept ==
  ASSUME ClusterInv, NEW c \in Caller, op'[c] = op[c],
         AtCluster(c) => InPipe(c)' = InPipe(c) /\ Answered(c)' = Answered(c)
  PROVE  CallOf(c)' = CallOf(c)
PROOF
  <1>1. Waiting(c)' = Waiting(c) /\ AtCluster(c)' = AtCluster(c)
    BY DEF Waiting, AtCluster
  <1>2. Answered(c)' = Answered(c)
    <2>1. ~AtCluster(c) => Answered(c) = {}
      BY DEF Answered, AnswersCall, AtCluster
    <2>2. ~AtCluster(c)' => Answered(c)' = {}
      BY DEF Answered, AnswersCall, AtCluster
    <2> QED
      BY <1>1, <2>1, <2>2
  <1>3. Waiting(c) => Remaining(c)' = Remaining(c)
    <2>1. Waiting(c) => op[c].at = Ha \/ AtCluster(c)
      BY DEF ClusterInv, AtCluster
    <2>2. CASE op[c].at = Ha
      BY <2>2 DEF Remaining
    <2>3. CASE AtCluster(c)
      <3>1. InPipe(c)' = InPipe(c)
        BY <2>3
      <3>2. CASE InPipe(c)
        BY <3>1, <3>2 DEF Remaining
      <3>3. CASE ~InPipe(c)
        BY <3>1, <3>3 DEF Remaining
      <3> QED
        BY <3>2, <3>3
    <2> QED
      BY <2>1, <2>2, <2>3
  <1> QED
    BY <1>1, <1>2, <1>3 DEF CallOf

\* A request that nobody waits for: a message to the master, or one to the
\* caching service.
LateMessage(w, i, y) ==
  /\ y = [at |-> Cluster, request |-> toMaster[w][i].request]
  /\ \A c \in Caller : AtCluster(c) /\ c[1] = w => op[c].index # toMaster[w][i].index

LateHttp(x, y) == y = [at |-> Ha, request |-> x.request]

UnheardParts ==
  \A y : y \in Unheard <=> \/ \E x \in orphans : LateHttp(x, y)
                           \/ \E w \in Worker : \E i \in DOMAIN toMaster[w] : LateMessage(w, i, y)

LEMMA UnheardIs == UnheardParts
PROOF
  <1>1. \A w \in Worker : \A i \in DOMAIN toMaster[w] :
          Listening(w, i) <=>
            \E c \in Caller : AtCluster(c) /\ c[1] = w /\ op[c].index = toMaster[w][i].index
    BY CallerOf DEF Listening, AtCluster, Caller
  <1> QED
    BY <1>1 DEF UnheardParts, Unheard, LateHttp, LateMessage

LEMMA UnheardIsNext == UnheardParts'
  BY UnheardIs, PTL

\* A step that leaves the messages alone: at most the messages of callers that
\* stop waiting are not waited for any more.
LEMMA UnheardSame ==
  ASSUME UNCHANGED <<toMaster, orphans>>,
         \A d \in Caller :
           \/ AtCluster(d)' = AtCluster(d) /\ op'[d].index = op[d].index
           \/ /\ ~AtCluster(d) \/ ~InPipe(d)
              /\ ~AtCluster(d)'
  PROVE  Unheard' = Unheard
PROOF
  <1>1. \A w \in Worker : \A i \in DOMAIN toMaster[w] : \A y :
          LateMessage(w, i, y)' <=> LateMessage(w, i, y)
    BY DEF LateMessage, InPipe
  <1>2. \A x, y : LateHttp(x, y)' <=> LateHttp(x, y)
    BY DEF LateHttp
  <1>3. \A y : y \in Unheard' <=> y \in Unheard
    BY <1>1, <1>2, UnheardIs, UnheardIsNext DEF UnheardParts
  <1> QED
    BY <1>3

LEMMA MapsKept ==
  ASSUME UNCHANGED <<local, cluster, ha>>
  PROVE  Maps' = Maps
  BY DEF Maps

LEMMA MapsAt ==
  /\ Maps[Cluster] = cluster /\ Maps[Ha] = ha
  /\ \A w \in Worker : Maps[w] = local[w]
  BY PluginStorageAssumption DEF Maps, Location

LEMMA MapsCluster ==
  ASSUME NEW m, cluster' = m, UNCHANGED <<local, ha>>
  PROVE  Maps' = [Maps EXCEPT ![Cluster] = m]
  BY PluginStorageAssumption DEF Maps, Location

LEMMA MapsHa ==
  ASSUME NEW m, ha' = m, UNCHANGED <<local, cluster>>
  PROVE  Maps' = [Maps EXCEPT ![Ha] = m]
PROOF
  <1>1. Ha \in Location /\ Cluster # Ha
    BY PluginStorageAssumption DEF Location
  <1>2. \A l \in Location : Maps'[l] = IF l = Ha THEN m ELSE Maps[l]
    BY <1>1 DEF Maps
  <1>3. Maps' = [l \in Location |-> Maps'[l]] /\ Maps = [l \in Location |-> Maps[l]]
    BY DEF Maps
  <1> QED
    BY <1>1, <1>2, <1>3

LEMMA MapsLocal ==
  ASSUME TypeOK, NEW w \in Worker, NEW m, local' = [local EXCEPT ![w] = m],
         UNCHANGED <<cluster, ha>>
  PROVE  Maps' = [Maps EXCEPT ![w] = m]
  BY PluginStorageAssumption DEF Maps, Location, TypeOK

\* The requests and dictionaries of the service are those of the model.
LEMMA ServiceSame ==
  /\ Service!Request = Request /\ Service!EmptyDict = EmptyDict
  /\ \A m, d : Service!Merged(m, d) = Merged(m, d)
  BY DEF Service!Request, Request, Service!EmptyDict, EmptyDict, Service!Dict, Dict,
         Service!Merged, Merged

\* If no value is falsy, the dictionaries and the caching service do what the
\* service promises of a request.
LEMMA ApplySame ==
  ASSUME Falsy = {}, NEW m, NEW q \in Request
  PROVE  /\ q.type # "clear" => LocalApply(m, q) = Service!Apply(m, q)
         /\ q.type \in HaType => ServiceApply(m, q) = Service!Apply(m, q)
         /\ LocalAnswer(m, q) = Service!Answers(m, q)
         /\ ServiceAnswer(m, q) = Service!Answers(m, q)
PROOF
  <1>1. CASE q.type = "put"
    BY <1>1 DEF LocalApply, ServiceApply, Service!Apply, LocalAnswer, ServiceAnswer, Service!Answers
  <1>2. CASE q.type = "remove"
    BY <1>2 DEF LocalApply, ServiceApply, Service!Apply, LocalAnswer, ServiceAnswer, Service!Answers
  <1>3. CASE q.type = "clear"
    BY <1>3, ServiceSame
       DEF LocalApply, ServiceApply, Service!Apply, LocalAnswer, ServiceAnswer, Service!Answers
  <1>4. CASE q.type = "replace"
    BY <1>4
       DEF LocalApply, ServiceApply, Service!Apply, LocalAnswer, ServiceAnswer, Service!Answers, HaType
  <1>5. CASE q.type = "merge"
    BY <1>5, ServiceSame
       DEF LocalApply, ServiceApply, Service!Apply, LocalAnswer, ServiceAnswer, Service!Answers, HaType
  <1>6. CASE q.type = "get"
    BY <1>6 DEF LocalApply, ServiceApply, Service!Apply, LocalAnswer, ServiceAnswer, Service!Answers
  <1>7. CASE q.type = "getAll"
    BY <1>7 DEF LocalApply, ServiceApply, Service!Apply, LocalAnswer, ServiceAnswer, Service!Answers
  <1> QED
    BY <1>1, <1>2, <1>3, <1>4, <1>5, <1>6, <1>7, RequestParts

\* A step of one caller's operation is a step of the service.
LEMMA CallStepIs ==
  ASSUME NEW c \in Caller, NEW old, NEW new, CallOf(c) = old, CallOf(c)' = new, old # new,
         \A d \in Caller \ {c} : CallOf(d)' = CallOf(d),
         \/ Service!Invoke(old, new) \/ Service!CarryOut(old, new) \/ Service!Resolve(old, new)
         \/ Service!Continue(old, new) \/ Service!Abandon(old, new)
  PROVE  Service!Next
PROOF
  <1>1. Calls[c] = old /\ Calls'[c] = new /\ \A d \in Caller \ {c} : Calls'[d] = Calls[d]
    BY DEF Calls
  <1>2. Service!CallStep
    BY <1>1 DEF Service!CallStep
  <1> QED
    BY <1>2 DEF Service!Next

\* A step that changes no operation.
LEMMA CallsKept ==
  ASSUME \A d \in Caller : CallOf(d)' = CallOf(d)
  PROVE  Calls' = Calls
  BY DEF Calls

LEMMA RecordIs ==
  ASSUME NEW s, NEW at, NEW todo, NEW answer,
         NEW x \in [status : {s}, at : {at}, todo : {todo}, answer : {answer}]
  PROVE  x = Record(s, at, todo, answer)
  BY DEF Record

Others(c) == \A d \in Caller \ {c} : CallOf(d)' = CallOf(d)

LEMMA InvokeStep ==
  ASSUME NEW c \in Caller, NEW at \in Location, NEW todo \in Seq(Request), todo # << >>,
         CallOf(c).status # "open", CallOf(c)' = Record("open", at, todo, << >>),
         Others(c), Maps' = Maps, Unheard' = Unheard
  PROVE  Service!Next
PROOF
  <1> DEFINE new == Record("open", at, todo, << >>)
  <1>1. new.status = "open" /\ new.at = at /\ new.todo = todo /\ new.answer = << >>
    BY DEF Record
  <1>2. Service!Invoke(CallOf(c), new)
    BY <1>1, ServiceSame DEF Service!Invoke
  <1>3. CallOf(c) # new
    BY <1>1
  <1> QED
    BY <1>2, <1>3, CallStepIs DEF Others

LEMMA ContinueStep ==
  ASSUME NEW c \in Caller, NEW at \in Location, NEW todo \in Seq(Request), todo # << >>,
         NEW answer, CallOf(c) = Record("open", at, << >>, answer),
         CallOf(c)' = Record("open", at, todo, << >>),
         Others(c), Maps' = Maps, Unheard' = Unheard
  PROVE  Service!Next
PROOF
  <1> DEFINE old == Record("open", at, << >>, answer)
             new == Record("open", at, todo, << >>)
  <1>1. /\ old.status = "open" /\ old.at = at /\ old.todo = << >>
        /\ new.status = "open" /\ new.at = at /\ new.todo = todo /\ new.answer = << >>
    BY DEF Record
  <1>2. Service!Continue(old, new)
    BY <1>1, ServiceSame DEF Service!Continue
  <1>3. old # new
    BY <1>1
  <1> QED
    BY <1>2, <1>3, CallStepIs DEF Others

LEMMA CarryOutStep ==
  ASSUME NEW c \in Caller, NEW at \in Location, NEW todo \in Seq(Request), todo # << >>,
         NEW answer, CallOf(c) = Record("open", at, todo, answer),
         CallOf(c)' = Record("open", at, Tail(todo), Service!Answers(Maps[at], Head(todo))),
         Maps' = [Maps EXCEPT ![at] = Service!Apply(Maps[at], Head(todo))],
         Others(c), Unheard' = Unheard
  PROVE  Service!Next
PROOF
  <1> DEFINE after == Service!Answers(Maps[at], Head(todo))
             old == Record("open", at, todo, answer)
             new == Record("open", at, Tail(todo), after)
  <1>1. old.status = "open" /\ old.at = at /\ old.todo = todo /\ new.todo = Tail(todo)
    BY DEF Record
  <1>2. new = [old EXCEPT !.todo = Tail(@), !.answer = after]
    <2>1. old \in [status : {"open"}, at : {at}, todo : {todo}, answer : {answer}]
      BY DEF Record
    <2> HIDE DEF old, after
    <2>2. [old EXCEPT !.todo = Tail(todo), !.answer = after]
            \in [status : {"open"}, at : {at}, todo : {Tail(todo)}, answer : {after}]
      BY <2>1
    <2>3. [old EXCEPT !.todo = Tail(todo), !.answer = after]
            = Record("open", at, Tail(todo), after)
      BY <2>2, RecordIs
    <2> QED
      BY <1>1, <2>3
  <1>3. Service!CarryOut(old, new)
    <2> HIDE DEF old, new
    <2> QED
      BY <1>1, <1>2 DEF Service!CarryOut
  <1>4. old # new
    <2>1. Len(Tail(todo)) = Len(todo) - 1 /\ Len(todo) \in Nat
      OBVIOUS
    <2>2. Len(Tail(todo)) # Len(todo)
      <3> HIDE DEF new
      <3> DEFINE n == Len(todo)
      <3>1. n \in Nat /\ Len(Tail(todo)) = n - 1
        BY <2>1
      <3> HIDE DEF n
      <3>2. n - 1 # n
        BY <3>1
      <3> QED
        BY <3>1, <3>2 DEF n
    <2>3. todo # Tail(todo)
      BY <2>2
    <2> QED
      BY <1>1, <2>3
  <1> QED
    BY <1>3, <1>4, CallStepIs DEF Others

LEMMA ResolveStep ==
  ASSUME NEW c \in Caller, NEW at \in Location, NEW answer,
         CallOf(c) = Record("open", at, << >>, answer),
         CallOf(c)' = Record("resolved", at, << >>, answer),
         Others(c), Maps' = Maps, Unheard' = Unheard
  PROVE  Service!Next
PROOF
  <1> DEFINE old == Record("open", at, << >>, answer)
             new == Record("resolved", at, << >>, answer)
  <1>1. old.status = "open" /\ old.todo = << >> /\ new.status = "resolved"
        /\ new = [old EXCEPT !.status = "resolved"]
    BY DEF Record
  <1>2. Service!Resolve(old, new)
    BY <1>1 DEF Service!Resolve
  <1>3. old # new
    BY <1>1
  <1> QED
    BY <1>2, <1>3, CallStepIs DEF Others

LEMMA AbandonStep ==
  ASSUME NEW c \in Caller, NEW at \in Location, NEW todo, NEW answer,
         NEW status \in {"resolved", "rejected"},
         CallOf(c) = Record("open", at, todo, answer),
         CallOf(c)' = Record(status, at, << >>, << >>),
         Others(c), Maps' = Maps,
         Unheard' \subseteq Unheard \cup {[at |-> at, request |-> todo[i]] : i \in DOMAIN todo}
  PROVE  Service!Next
PROOF
  <1> DEFINE old == Record("open", at, todo, answer)
             new == Record(status, at, << >>, << >>)
  <1>1. old.status = "open" /\ old.at = at /\ old.todo = todo /\ new.status = status
    BY DEF Record
  <1>2. new = [old EXCEPT !.status = status, !.todo = << >>, !.answer = << >>]
    <2>1. old \in [status : {"open"}, at : {at}, todo : {todo}, answer : {answer}]
      BY DEF Record
    <2> HIDE DEF old
    <2>2. [old EXCEPT !.status = status, !.todo = << >>, !.answer = << >>]
            \in [status : {status}, at : {at}, todo : {<< >>}, answer : {<< >>}]
      BY <2>1
    <2>3. [old EXCEPT !.status = status, !.todo = << >>, !.answer = << >>]
            = Record(status, at, << >>, << >>)
      BY <2>2, RecordIs
    <2> QED
      BY <2>3
  <1>3. Service!Left(old) = {[at |-> at, request |-> todo[i]] : i \in DOMAIN todo}
    BY <1>1 DEF Service!Left
  <1>4. Service!Abandon(old, new)
    <2> HIDE DEF old, new
    <2> QED
      BY <1>1, <1>2, <1>3 DEF Service!Abandon
  <1>5. old # new
    BY <1>1
  <1> QED
    BY <1>4, <1>5, CallStepIs DEF Others

-----------------------------------------------------------------------------
(* The refinement: remote calls                                            *)

LEMMA AnsweredKept ==
  ASSUME NEW d \in Caller, op'[d] = op[d],
         \A r : AnswersCall(r, d) => (r \in replies' <=> r \in replies)
  PROVE  Answered(d)' = Answered(d)
PROOF
  <1>1. \A r : AnswersCall(r, d)' <=> AnswersCall(r, d)
    BY DEF AnswersCall, Waiting
  <1>2. {s \in replies : AnswersCall(s, d)}' = {s \in replies : AnswersCall(s, d)}
    BY <1>1
  <1> QED
    BY <1>2 DEF Answered

\* The answer to one call is no answer to another.
LEMMA AnswersOne ==
  ASSUME ClusterInv, NEW c \in Caller, NEW d \in Caller \ {c}, NEW r,
         AnswersCall(r, c)
  PROVE  ~AnswersCall(r, d)
  BY DEF ClusterInv, OneRequest, AnswersCall, AtCluster

\* A caller whose answer has arrived waits for no message.
LEMMA AnsweredNotInPipe ==
  ASSUME ReplyInv, NEW c \in Caller, NEW r \in replies, AnswersCall(r, c)
  PROVE  ~InPipe(c)
  BY DEF ReplyInv, OwnReply, AnswersCall, InPipe

\* A remote call is seen as an operation with its one request to be carried
\* out; nothing else changes.
LEMMA RemoteCallSeen ==
  ASSUME BaseInv, SeenAll', NEW w \in Worker, NEW a \in {"plugin", "startup"}, NEW o,
         o.phase = "waiting", o.at = Cluster,
         RemoteCalled(w, a, o), UNCHANGED orphans,
         Started(w) \/ Len(toMaster[w]) = 0,
         AtCluster(<<w, a>>) => ~InPipe(<<w, a>>),
         \A r : r \in replies' <=> r \in replies /\ ~AnswersCall(r, <<w, a>>)
  PROVE  /\ CallOf(<<w, a>>)' = Record("open", Cluster, o.todo, << >>)
         /\ Others(<<w, a>>) /\ Unheard' = Unheard
PROOF
  <1> DEFINE c == <<w, a>>
             n == Len(toMaster[w])
             k == messageIndex[w]
  <1>0. c[1] = w
    OBVIOUS
  <1> HIDE DEF c
  <1>1. /\ c \in Caller /\ op'[c].phase = "waiting" /\ op'[c].at = Cluster
        /\ op'[c].todo = o.todo /\ op'[c].index = k
        /\ \A d \in Caller \ {c} : op'[d] = op[d]
        /\ k \in Nat /\ n \in Nat
        /\ DOMAIN toMaster[w] = 1 .. n /\ DOMAIN toMaster'[w] = 1 .. n + 1
        /\ toMaster'[w][n + 1].index = k
        /\ \A i \in 1 .. n : toMaster'[w][i] = toMaster[w][i]
        /\ \A v \in Worker \ {w} : toMaster'[v] = toMaster[v]
    BY DEF RemoteCalled, c
  <1>2. AtCluster(c)'
    BY <1>1 DEF AtCluster, Waiting
  <1> HIDE DEF n, k
  <1>a. n + 1 \in 1 .. n + 1 /\ \A i \in 1 .. n : i \in 1 .. n + 1
    BY <1>1
  <1>b. \A i \in 1 .. n + 1 : i \in 1 .. n \/ i = n + 1
    BY <1>1
  <1>3. InPipe(c)'
    BY <1>0, <1>1, <1>a DEF InPipe
  <1>4. CallOf(c)' = Record("open", Cluster, o.todo, << >>)
    BY <1>1, <1>2, <1>3 DEF SeenAll, Seen
  <1>5. \A i \in 1 .. n : toMaster[w][i].index # k
    <2>1. OwnPipe(w)
      BY DEF BaseInv, CallsInv, PipeInv
    <2>2. CASE Started(w)
      <3> SUFFICES ASSUME NEW i \in 1 .. n PROVE toMaster[w][i].index # k
        OBVIOUS
      <3>1. \A j \in DOMAIN toMaster[w] : toMaster[w][j] \in Message /\ toMaster[w][j].index < k
        BY <2>1, <2>2, PipeType DEF OwnPipe, k, BaseInv
      <3>2. k \in Nat
        BY DEF k, BaseInv, TypeOK
      <3>3. toMaster[w][i] \in Message /\ toMaster[w][i].index < k
        BY <1>1, <3>1
      <3>4. toMaster[w][i].index \in Nat
        BY <3>3 DEF Message
      <3> QED
        BY <3>2, <3>3, <3>4
    <2>3. CASE n = 0
      BY <2>3
    <2> QED
      BY <2>2, <2>3 DEF n
  <1>6. \A d \in Caller : AtCluster(d) /\ d[1] = w => op[d].index # k
    <2> SUFFICES ASSUME NEW d \in Caller, AtCluster(d), d[1] = w
                 PROVE  op[d].index # k
      OBVIOUS
    <2>1. op[d].index < k /\ op[d].index \in Nat
      BY DEF BaseInv, CallsInv, ClusterInv, OneRequest, TypeOK, Op, k
    <2> QED
      BY <1>1, <2>1
  <1>7. Others(c)
    <2> SUFFICES ASSUME NEW d \in Caller \ {c} PROVE CallOf(d)' = CallOf(d)
      BY DEF Others
    <2>1. op'[d] = op[d] /\ d[1] \in Worker
      BY <1>1 DEF Caller
    <2>2. AtCluster(d) => InPipe(d)' = InPipe(d)
      BY <1>1, <1>6, <1>a, <1>b, <2>1 DEF InPipe
    <2>3. Answered(d)' = Answered(d)
      <3>1. \A r : AnswersCall(r, d) => ~AnswersCall(r, c)
        BY <1>1, AnswersOne DEF BaseInv, CallsInv
      <3> QED
        BY <2>1, <3>1, AnsweredKept DEF c
    <2> QED
      BY <2>1, <2>2, <2>3, CallKept DEF BaseInv, CallsInv
  <1>8. Unheard' = Unheard
    <2>1. \A d \in Caller \ {c} : AtCluster(d)' = AtCluster(d)
      BY <1>1 DEF AtCluster, Waiting
    <2>2. \A y, i : i = n + 1 => ~LateMessage(w, i, y)'
      <3> SUFFICES ASSUME NEW i, i = n + 1, NEW y PROVE ~LateMessage(w, i, y)'
        OBVIOUS
      <3>1. AtCluster(c)' /\ c[1] = w /\ op'[c].index = toMaster'[w][i].index
        BY <1>0, <1>1, <1>2
      <3> QED
        BY <1>1, <3>1 DEF LateMessage
    <2>3. \A y : \A i \in 1 .. n : LateMessage(w, i, y)' <=> LateMessage(w, i, y)
      <3> SUFFICES ASSUME NEW y, NEW i \in 1 .. n
                   PROVE  LateMessage(w, i, y)' <=> LateMessage(w, i, y)
        OBVIOUS
      <3>1. toMaster'[w][i] = toMaster[w][i] /\ i \in DOMAIN toMaster[w]
        BY <1>1
      <3>2. op'[c].index # toMaster[w][i].index
        BY <1>1, <1>5
      <3>3. AtCluster(c) => op[c].index # toMaster[w][i].index
        BY <1>0, <3>1 DEF InPipe, c
      <3> QED
        BY <1>1, <2>1, <3>1, <3>2, <3>3 DEF LateMessage
    <2>4. \A v \in Worker \ {w} : \A y : \A i \in DOMAIN toMaster[v] :
            LateMessage(v, i, y)' <=> LateMessage(v, i, y)
      BY <1>0, <1>1, <2>1 DEF LateMessage
    <2>5. \A y : (\E i \in DOMAIN toMaster'[w] : LateMessage(w, i, y)')
                   <=> (\E i \in DOMAIN toMaster[w] : LateMessage(w, i, y))
      <3> SUFFICES ASSUME NEW y
                   PROVE  (\E i \in 1 .. n + 1 : LateMessage(w, i, y)')
                            <=> (\E i \in 1 .. n : LateMessage(w, i, y))
        BY <1>1
      <3> QED
        BY <1>a, <1>b, <2>2, <2>3
    <2>6. \A y : (\E v \in Worker : \E i \in DOMAIN toMaster'[v] : LateMessage(v, i, y)')
                   <=> (\E v \in Worker : \E i \in DOMAIN toMaster[v] : LateMessage(v, i, y))
      <3>1. \A v \in Worker \ {w} : \A y :
              (\E i \in DOMAIN toMaster'[v] : LateMessage(v, i, y)')
                <=> (\E i \in DOMAIN toMaster[v] : LateMessage(v, i, y))
        BY <1>1, <2>4
      <3> QED
        BY <2>5, <3>1
    <2>7. \A y : (\E x \in orphans' : LateHttp(x, y)') <=> \E x \in orphans : LateHttp(x, y)
      BY DEF LateHttp
    <2>8. \A y : y \in Unheard' <=> y \in Unheard
      BY <2>6, <2>7, UnheardIs, UnheardIsNext DEF UnheardParts
    <2> QED
      BY <2>8
  <1> QED
    BY <1>4, <1>7, <1>8 DEF c

LEMMA ClosedCall ==
  ASSUME ClusterInv, NEW c \in Caller, ~Waiting(c), op[c].phase # "open"
  PROVE  CallOf(c).status # "open"
  BY DEF CallOf

LEMMA NotOpen ==
  ASSUME TypeOK, NEW c \in Caller
  PROVE  op[c].phase # "open"
  BY DEF TypeOK, Op

LEMMA StartStep ==
  ASSUME BaseInv, SeenAll', NEW w \in Worker, Start(w)
  PROVE  Service!Next
PROOF
  <1> DEFINE q == [type |-> "getAll"]
             o == Opened(<<q>>, Cluster)
             c == <<w, "startup">>
  <1>1. q \in Request /\ Cluster \in Location
    BY DEF Request, Location
  <1>2. <<q>> \in Seq(Request) /\ <<q>> # << >> /\ Len(<<q>>) = 1
    BY <1>1, SingleRequest
  <1>3. o \in Op /\ o.todo = <<q>> /\ o.phase = "waiting" /\ o.at = Cluster
    BY <1>1, <1>2, OpenedOp DEF Opened
  <1>4. RemoteCall(w, "startup", o) /\ toMaster[w] = << >>
        /\ UNCHANGED <<local, cluster, ha, replies, orphans>>
    BY DEF Start
  <1>5. c \in Caller /\ ~Waiting(c)
    BY CallerOf DEF Start, Started, Waiting
  <1>6. Len(toMaster[w]) = 0
    BY <1>4
  <1> HIDE DEF o, q
  <1>7. RemoteCalled(w, "startup", o)
    BY <1>2, <1>3, <1>4, RemoteCallParts DEF BaseInv
  <1>8. \A r : ~AnswersCall(r, c)
    BY <1>5 DEF AnswersCall
  <1>9. /\ CallOf(c)' = Record("open", Cluster, o.todo, << >>)
        /\ Others(c) /\ Unheard' = Unheard
    BY <1>3, <1>4, <1>5, <1>6, <1>7, <1>8, RemoteCallSeen DEF AtCluster
  <1>10. Maps' = Maps
    BY <1>4, MapsKept
  <1> HIDE DEF c
  <1>11. CallOf(c).status # "open"
    BY <1>5, ClosedCall, NotOpen DEF BaseInv, CallsInv
  <1> QED
    BY <1>1, <1>2, <1>3, <1>5, <1>9, <1>10, <1>11, InvokeStep

\* The callers whose operations are left alone, when the messages and their
\* answers are as well.
LEMMA OthersKept ==
  ASSUME BaseInv, NEW c \in Caller, UNCHANGED <<toMaster, replies>>,
         \A d \in Caller \ {c} : op'[d] = op[d]
  PROVE  Others(c)
PROOF
  <1> SUFFICES ASSUME NEW d \in Caller \ {c} PROVE CallOf(d)' = CallOf(d)
    BY DEF Others
  <1>1. op'[d] = op[d]
    OBVIOUS
  <1>2. InPipe(d)' = InPipe(d)
    BY <1>1 DEF InPipe
  <1>3. Answered(d)' = Answered(d)
    BY <1>1, AnsweredKept
  <1> QED
    BY <1>1, <1>2, <1>3, CallKept DEF BaseInv, CallsInv

LEMMA OperateLocal ==
  ASSUME TypeOK, NEW w \in Worker, NEW o \in Operation, Operate(w, o, w)
  PROVE  LET c == <<w, "plugin">>
             q == Head(Requests(o, w)) IN
         /\ local' = [local EXCEPT ![w] = LocalApply(local[w], q)]
         /\ UNCHANGED <<cluster, ha>>
         /\ op'[c].phase = "resolved" /\ op'[c].at = w
         /\ op'[c].answer = LocalAnswer(local[w], q)
PROOF
  <1> DEFINE c == <<w, "plugin">>
             new == Opened(Requests(o, w), w)
             q == Head(Requests(o, w))
             x == LocalAnswer(local[w], q)
  <1>1. w # Cluster /\ w # Ha
    BY PluginStorageAssumption
  <1>2. new.todo = Requests(o, w)
    BY DEF Opened
  <1>3. /\ local' = [local EXCEPT ![w] = LocalApply(@, q)]
        /\ op' = [op EXCEPT ![c] = [new EXCEPT !.phase = "resolved", !.todo = << >>, !.answer = x]]
        /\ UNCHANGED <<cluster, ha>>
    BY <1>1, <1>2 DEF Operate
  <1>4. op'[c] = [new EXCEPT !.phase = "resolved", !.todo = << >>, !.answer = x]
    BY <1>3, CallerOf DEF TypeOK
  <1>5. new \in Op /\ new.at = w
    <2>1. w \in Location
      BY DEF Location
    <2> QED
      BY <2>1, OpenedOp, RequestsFacts DEF Opened
  <1> HIDE DEF new, x
  <1>6. op'[c].phase = "resolved" /\ op'[c].at = w /\ op'[c].answer = x
    BY <1>4, <1>5 DEF Op
  <1> QED
    BY <1>3, <1>6 DEF x

\* A call of a plugin: carried out at once in the worker's own storage, under
\* way in the others.
LEMMA OperateStep ==
  ASSUME Falsy = {}, BaseInv, SeenAll', NEW w \in Worker, NEW o \in Operation,
         NEW at \in {w, shared}, Operate(w, o, at)
  PROVE  Service!Next
PROOF
  <1> DEFINE c == <<w, "plugin">>
             todo == Requests(o, at)
             new == Opened(todo, at)
  <1>1. /\ c \in Caller /\ Started(w) /\ ~Waiting(c) /\ at \in Location
        /\ replies' = replies /\ orphans' = orphans
    BY OperateParts DEF BaseInv
  <1>2. w # Cluster /\ w # Ha /\ Cluster # Ha
    BY PluginStorageAssumption
  <1>3. at = w \/ at = Cluster \/ at = Ha
    BY DEF BaseInv, TypeOK
  <1>4. /\ todo \in Seq(Request) /\ todo # << >>
        /\ at # Ha => Len(todo) = 1 /\ todo[1].type # "clear"
    BY <1>1, RequestsFacts
  <1>5. CallOf(c).status # "open"
    <2> HIDE DEF c
    <2> QED
      BY <1>1, ClosedCall, NotOpen DEF BaseInv, CallsInv
  <1>6. CASE at = Cluster
    <2>1. new \in Op /\ new.todo = todo /\ new.phase = "waiting" /\ new.at = Cluster
      BY <1>1, <1>4, <1>6, OpenedOp DEF Opened
    <2>2. RemoteCall(w, "plugin", new) /\ UNCHANGED <<local, ha>>
      BY <1>6, OperateParts DEF BaseInv
    <2>3. cluster' = cluster
      BY DEF Operate
    <2> HIDE DEF new, todo
    <2>4. RemoteCalled(w, "plugin", new)
      BY <1>2, <1>4, <1>6, <2>1, <2>2, RemoteCallParts DEF BaseInv
    <2>5. \A r : ~AnswersCall(r, c)
      BY <1>1 DEF AnswersCall
    <2>6. CallOf(c)' = Record("open", Cluster, todo, << >>) /\ Others(c) /\ Unheard' = Unheard
      BY <1>1, <2>1, <2>4, <2>5, RemoteCallSeen DEF AtCluster
    <2>7. Maps' = Maps
      BY <2>2, <2>3, MapsKept
    <2> HIDE DEF c
    <2> QED
      BY <1>1, <1>4, <1>5, <1>6, <2>6, <2>7, InvokeStep
  <1>7. CASE at # Cluster
    <2>1. /\ UNCHANGED <<messageIndex, toMaster, cluster>>
          /\ op'[c].at = at /\ \A d \in Caller \ {c} : op'[d] = op[d]
      BY <1>7, OperateParts DEF BaseInv
    <2>2. Others(c)
      <3> HIDE DEF c
      <3> QED
        BY <1>1, <2>1, OthersKept
    <2>3. Unheard' = Unheard
      <3>1. ~AtCluster(c) /\ ~AtCluster(c)'
        BY <1>1, <1>7, <2>1 DEF AtCluster
      <3> HIDE DEF c
      <3>2. \A d \in Caller : AtCluster(d)' = AtCluster(d)
                              /\ (AtCluster(d) => op'[d].index = op[d].index)
        BY <2>1, <3>1 DEF AtCluster, Waiting
      <3> QED
        BY <1>1, <2>1, <3>2, UnheardSame
    <2>4. CASE at = Ha
      <3>1. /\ op'[c].phase = "waiting" /\ op'[c].todo = todo /\ ~op'[c].handled
            /\ op'[c].answer = << >> /\ UNCHANGED <<local, ha>>
        BY <2>4, OperateParts DEF BaseInv
      <3> HIDE DEF c, todo
      <3>2. CallOf(c)' = Record("open", Ha, todo, << >>)
        BY <1>1, <2>1, <2>4, <3>1 DEF SeenAll, Seen, AtHa, Waiting
      <3>3. Maps' = Maps
        BY <2>1, <3>1, MapsKept
      <3> QED
        BY <1>1, <1>4, <1>5, <2>2, <2>3, <2>4, <3>2, <3>3, InvokeStep
    <2>5. CASE at = w
      <3> DEFINE q == Head(todo)
                 m == LocalApply(local[w], q)
                 x == LocalAnswer(local[w], q)
      <3>1. /\ local' = [local EXCEPT ![w] = m] /\ UNCHANGED <<cluster, ha>>
            /\ op'[c].phase = "resolved" /\ op'[c].answer = x
        BY <2>5, OperateLocal DEF BaseInv
      <3>2. q \in Request /\ q.type # "clear"
        <4>1. Head(todo) = todo[1] /\ Head(todo) \in Request
          <5> HIDE DEF todo
          <5> QED
            BY <1>4
        <4> QED
          BY <1>2, <1>4, <2>5, <4>1
      <3> HIDE DEF q
      <3>3. m = Service!Apply(local[w], q) /\ x = Service!Answers(local[w], q)
        BY <3>2, ApplySame
      <3> HIDE DEF m, x, c
      <3>4. CallOf(c)' = Record("resolved", w, << >>, x)
        BY <1>1, <2>1, <2>5, <3>1 DEF SeenAll, Seen, Waiting
      <3>5. Maps' = [Maps EXCEPT ![w] = Service!Apply(Maps[w], q)] /\ Maps[w] = local[w]
        BY <3>1, <3>3, MapsLocal, MapsAt DEF BaseInv
      <3>6. Calls[c].status # "open" /\ Calls'[c] = Record("resolved", w, << >>, x)
            /\ \A d \in Caller \ {c} : Calls'[d] = Calls[d]
        BY <1>1, <1>5, <2>2, <3>4 DEF Calls, Others
      <3>7. /\ Calls'[c].status = "resolved" /\ Calls'[c].at = w
            /\ Calls'[c].todo = << >> /\ Calls'[c].answer = x
        BY <3>6 DEF Record
      <3>8. Service!AtOnce
        BY <1>1, <2>3, <3>2, <3>3, <3>5, <3>6, <3>7, ServiceSame DEF Service!AtOnce
      <3> QED
        BY <3>8 DEF Service!Next
    <2> QED
      BY <1>3, <1>7, <2>4, <2>5
  <1> QED
    BY <1>6, <1>7

\* An answer arrives: the operation is resolved with it, or a starting worker
\* goes on to merge what it holds.
LEMMA TakeReplyStep ==
  ASSUME BaseInv, SeenAll', NEW w \in Worker, NEW a \in {"plugin", "startup"},
         NEW r \in replies, TakeReply(w, a, r)
  PROVE  Service!Next
PROOF
  <1> DEFINE c == <<w, a>>
  <1>1. /\ c \in Caller /\ AtCluster(c) /\ AnswersCall(r, c)
        /\ replies' = replies \ {r} /\ UNCHANGED <<local, cluster, ha, orphans>>
    BY TakeReplyParts DEF TakeReply, BaseInv
  <1>2. Maps' = Maps
    BY <1>1, MapsKept
  <1>3. c[1] = w /\ Cluster \in Location
    BY DEF Location
  <1>4. Merges(w, a) \/ Resolved(c, r.answer)
    BY TakeReplyCases DEF BaseInv
  <1>5. CASE Merges(w, a)
    <2> DEFINE o == Opened(<<[type |-> "merge", dict |-> local[w]]>>, Cluster)
    <2>1. RemoteCall(w, a, o)
      BY <1>5 DEF Merges
    <2>2. /\ o \in Op /\ o.phase = "waiting" /\ o.at = Cluster
          /\ o.todo \in Seq(Request) /\ Len(o.todo) = 1
      BY MergeOp DEF BaseInv
    <2>8. o.todo # << >>
      BY MergeOp, SingleRequest DEF BaseInv
    <2> HIDE DEF o, c
    <2>3. RemoteCalled(w, a, o)
      BY <2>1, <2>2, RemoteCallParts DEF BaseInv
    <2>4. CallOf(c) = Record("open", Cluster, << >>, r.answer) /\ ~InPipe(c)
      BY <1>1, BaseSeen DEF SeenAll, Seen
    <2>5. \A s : s \in replies' <=> s \in replies /\ ~AnswersCall(s, c)
      <3>1. \A s \in replies : AnswersCall(s, c) => s = r
        BY <1>1 DEF AnswersCall, BaseInv, CallsInv, ReplyInv, OwnReply
      <3> QED
        BY <1>1, <3>1
    <2>6. Started(w)
      BY <1>1, <1>3 DEF AnswersCall, BaseInv, CallsInv, ReplyInv, OwnReply
    <2>7. /\ CallOf(c)' = Record("open", Cluster, o.todo, << >>)
          /\ Others(c) /\ Unheard' = Unheard
      BY <1>1, <2>2, <2>3, <2>4, <2>5, <2>6, RemoteCallSeen DEF c
    <2> QED
      BY <1>1, <1>2, <1>3, <2>2, <2>4, <2>7, <2>8, ContinueStep
  <1>6. CASE Resolved(c, r.answer)
    <2> HIDE DEF c
    <2>1. /\ op'[c].phase = "resolved" /\ op'[c].at = Cluster /\ op'[c].answer = r.answer
          /\ \A d \in Caller \ {c} : op'[d] = op[d]
          /\ UNCHANGED toMaster
      BY <1>1, <1>6 DEF Resolved, AtCluster
    <2>2. CallOf(c) = Record("open", Cluster, << >>, r.answer) /\ ~InPipe(c)
      BY <1>1, BaseSeen DEF SeenAll, Seen
    <2>3. CallOf(c)' = Record("resolved", Cluster, << >>, r.answer)
      BY <1>1, <2>1 DEF SeenAll, Seen, Waiting
    <2>4. Others(c)
      <3> SUFFICES ASSUME NEW d \in Caller \ {c} PROVE CallOf(d)' = CallOf(d)
        BY DEF Others
      <3>1. op'[d] = op[d]
        BY <2>1
      <3>2. InPipe(d)' = InPipe(d)
        BY <2>1, <3>1 DEF InPipe
      <3>3. ~AnswersCall(r, d)
        BY <1>1, AnswersOne DEF BaseInv, CallsInv
      <3>4. Answered(d)' = Answered(d)
        BY <1>1, <3>1, <3>3, AnsweredKept
      <3> QED
        BY <3>1, <3>2, <3>4, CallKept DEF BaseInv, CallsInv
    <2>5. Unheard' = Unheard
      <3>1. ~AtCluster(c)'
        BY <2>1 DEF AtCluster, Waiting
      <3>2. \A d \in Caller \ {c} : AtCluster(d)' = AtCluster(d) /\ op'[d].index = op[d].index
        BY <2>1 DEF AtCluster, Waiting
      <3> QED
        BY <1>1, <2>1, <2>2, <3>1, <3>2, UnheardSame
    <2> QED
      BY <1>1, <1>2, <1>3, <2>2, <2>3, <2>4, <2>5, ResolveStep
  <1> QED
    BY <1>4, <1>5, <1>6

\* A remote call is given up: it is resolved with nothing, and its message, if
\* still on its way, is waited for by nobody.
LEMMA GiveUpStep ==
  ASSUME BaseInv, SeenAll', NEW c \in Caller, AtCluster(c),
         op'[c].phase = "resolved", op'[c].at = op[c].at, op'[c].answer = op[c].answer,
         \A d \in Caller \ {c} : op'[d] = op[d],
         replies' = {r \in replies : ~AnswersCall(r, c)},
         UNCHANGED <<local, cluster, ha, toMaster, orphans>>
  PROVE  Service!Next
PROOF
  <1> DEFINE todo == Remaining(c)
             answer == CallOf(c).answer
  <1>1. Maps' = Maps /\ Cluster \in Location /\ c[1] \in Worker /\ op[c].at = Cluster
    BY MapsKept DEF Location, Caller, AtCluster
  <1>2. OneRequest(c)
    BY DEF BaseInv, CallsInv, ClusterInv
  <1>3. CallOf(c) = Record("open", Cluster, todo, answer)
    BY <1>1 DEF CallOf, Record, AtCluster
  <1>4. CallOf(c)' = Record("resolved", Cluster, << >>, << >>)
    BY <1>1, <1>2 DEF SeenAll, Seen, Waiting, OneRequest
  <1>5. Others(c)
    <2> SUFFICES ASSUME NEW d \in Caller \ {c} PROVE CallOf(d)' = CallOf(d)
      BY DEF Others
    <2>1. op'[d] = op[d]
      OBVIOUS
    <2>2. InPipe(d)' = InPipe(d)
      BY <2>1 DEF InPipe
    <2>3. \A r : AnswersCall(r, d) => ~AnswersCall(r, c)
      BY AnswersOne DEF BaseInv, CallsInv
    <2>4. Answered(d)' = Answered(d)
      BY <2>1, <2>3, AnsweredKept
    <2> QED
      BY <2>1, <2>2, <2>4, CallKept DEF BaseInv, CallsInv
  <1>6. Unheard' \subseteq Unheard \cup {[at |-> Cluster, request |-> todo[i]] : i \in DOMAIN todo}
    <2> SUFFICES ASSUME NEW y \in Unheard', y \notin Unheard
                 PROVE  y \in {[at |-> Cluster, request |-> todo[i]] : i \in DOMAIN todo}
      OBVIOUS
    <2>1. \A x : LateHttp(x, y)' <=> LateHttp(x, y)
      BY DEF LateHttp
    <2>2. PICK w \in Worker :
            \E i \in DOMAIN toMaster[w] : LateMessage(w, i, y)' /\ ~LateMessage(w, i, y)
      BY <2>1, UnheardIs, UnheardIsNext DEF UnheardParts
    <2>a. PICK i \in DOMAIN toMaster[w] : LateMessage(w, i, y)' /\ ~LateMessage(w, i, y)
      BY <2>2
    <2>3. y = [at |-> Cluster, request |-> toMaster[w][i].request]
      BY <2>a DEF LateMessage
    <2>4. \A d \in Caller \ {c} : AtCluster(d)' = AtCluster(d) /\ op'[d].index = op[d].index
      BY DEF AtCluster, Waiting
    <2>5. c[1] = w /\ op[c].index = toMaster[w][i].index
      BY <2>a, <2>3, <2>4 DEF LateMessage
    <2>6. InPipe(c) /\ toMaster[w][i].request = op[c].todo[1]
      BY <1>2, <2>5 DEF InPipe, OneRequest
    <2>7. todo = op[c].todo
      BY <1>1, <2>6, PluginStorageAssumption DEF Remaining
    <2>8. 1 \in DOMAIN op[c].todo
      <3>1. op[c].todo \in Seq(Request) /\ Len(op[c].todo) = 1
        BY <1>2 DEF OneRequest, BaseInv, TypeOK, Op
      <3> QED
        BY <3>1
    <2> HIDE DEF todo
    <2> QED
      BY <2>3, <2>6, <2>7, <2>8
  <1> HIDE DEF todo, answer
  <1> QED
    BY <1>1, <1>3, <1>4, <1>5, <1>6, AbandonStep

\* The processes of W end.
LEMMA EndStep ==
  ASSUME BaseInv, SeenAll', NEW W \in SUBSET Worker, End(W),
         \/ UNCHANGED <<cluster, toMaster>>
         \/ W = Worker /\ cluster' = EmptyDict /\ toMaster' = [w \in Worker |-> << >>]
  PROVE  Service!Next
PROOF
  <1>1. /\ local' = [w \in Worker |-> IF w \in W THEN EmptyDict ELSE local[w]]
        /\ replies' = {r \in replies : r.worker \notin W}
        /\ orphans' = orphans \cup InFlight(W) /\ ha' = ha
    BY DEF End
  <1>2. \A c \in Caller : op'[c] = IF c[1] \in W THEN Idle ELSE op[c]
    BY DEF End
  <1>3. Idle.phase = "idle" /\ Cluster # Ha
    BY PluginStorageAssumption DEF Idle, Opened
  <1>4. ASSUME NEW c \in Caller, c[1] \in W
        PROVE  CallOf(c)'.status = "idle" /\ CallOf(c)'.todo = << >>
    <2>1. op'[c].phase = "idle" /\ ~Waiting(c)'
      BY <1>2, <1>3, <1>4 DEF Waiting
    <2> QED
      BY <2>1 DEF SeenAll, Seen, Record
  <1>5. ASSUME NEW c \in Caller, c[1] \notin W
        PROVE  CallOf(c)' = CallOf(c)
    <2>1. op'[c] = op[c] /\ c[1] \in Worker
      BY <1>2, <1>5 DEF Caller
    <2>2. toMaster' = toMaster
      BY <1>5, <2>1
    <2>3. InPipe(c)' = InPipe(c)
      BY <2>1, <2>2 DEF InPipe
    <2>4. \A r : AnswersCall(r, c) => r.worker \notin W
      BY <1>5 DEF AnswersCall
    <2>5. Answered(c)' = Answered(c)
      BY <1>1, <2>1, <2>4, AnsweredKept
    <2> QED
      BY <2>1, <2>3, <2>5, CallKept DEF BaseInv, CallsInv
  <1>6. \A c \in Caller : Calls'[c] # Calls[c] =>
          Calls'[c].status = "idle" /\ Calls'[c].todo = << >>
    BY <1>4, <1>5 DEF Calls
  <1>7. \E L \in SUBSET (Worker \cup {Cluster}) :
          Maps' = [l \in Location |-> IF l \in L THEN Service!EmptyDict ELSE Maps[l]]
    <2>1. CASE cluster' = cluster
      <3>1. Maps' = [l \in Location |-> IF l \in W THEN EmptyDict ELSE Maps[l]]
        BY <1>1, <2>1, PluginStorageAssumption DEF Maps, Location
      <3> QED
        BY <3>1, ServiceSame
    <2>2. CASE W = Worker /\ cluster' = EmptyDict
      <3> DEFINE L == Worker \cup {Cluster}
      <3>1. Maps' = [l \in Location |-> IF l \in L THEN EmptyDict ELSE Maps[l]]
        BY <1>1, <1>3, <2>2, PluginStorageAssumption DEF Maps, Location
      <3> QED
        BY <3>1, ServiceSame
    <2> QED
      BY <2>1, <2>2
  <1>8. Unheard' \subseteq Unheard \cup UNION {Service!Left(Calls[c]) : c \in Caller}
    <2> SUFFICES ASSUME NEW y \in Unheard', y \notin Unheard
                 PROVE  \E c \in Caller : y \in Service!Left(Calls[c])
      OBVIOUS
    <2>1. CASE \E x \in orphans' : LateHttp(x, y)'
      <3>1. PICK x \in orphans' : y = [at |-> Ha, request |-> x.request]
        BY <2>1 DEF LateHttp
      <3>2. x \in InFlight(W)
        BY <1>1, <3>1, UnheardIs DEF UnheardParts, LateHttp
      <3>a. PICK w \in {v \in W : /\ Waiting(<<v, "plugin">>) /\ op[<<v, "plugin">>].at = Ha
                                  /\ op[<<v, "plugin">>].http = "sent"} :
              x = [request |-> Head(op[<<w, "plugin">>].todo),
                   create |-> op[<<w, "plugin">>].create]
        BY <3>2 DEF InFlight
      <3>3. /\ AtHa(<<w, "plugin">>) /\ op[<<w, "plugin">>].http = "sent"
            /\ x.request = Head(op[<<w, "plugin">>].todo)
        BY <3>a DEF AtHa
      <3> DEFINE c == <<w, "plugin">>
      <3>4. c \in Caller
        BY CallerOf
      <3> HIDE DEF c
      <3>5. HaCallInv(op[c])
        BY <3>3, <3>4, HaInvParts DEF c, BaseInv
      <3>6. CallOf(c) = Record("open", Ha, op[c].todo, op[c].answer)
        BY <3>3, <3>4, <3>5, BaseSeen DEF SeenAll, Seen, HaCallInv, OutcomeInv, c
      <3>7. 1 \in DOMAIN op[c].todo /\ Head(op[c].todo) = op[c].todo[1]
        <4>1. op[c].todo \in Seq(Request) /\ op[c].todo # << >>
          BY <3>4, <3>5 DEF BaseInv, TypeOK, Op, HaCallInv
        <4> QED
          BY <4>1
      <3>8. Calls[c].at = Ha /\ Calls[c].todo = op[c].todo
        BY <3>4, <3>6 DEF Calls, Record
      <3>9. y \in Service!Left(Calls[c])
        BY <3>1, <3>3, <3>7, <3>8 DEF Service!Left, c
      <3> QED
        BY <3>4, <3>9
    <2>2. CASE \E w \in Worker : \E i \in DOMAIN toMaster'[w] : LateMessage(w, i, y)'
      <3>0. PICK w \in Worker : \E i \in DOMAIN toMaster'[w] : LateMessage(w, i, y)'
        BY <2>2
      <3>1. PICK i \in DOMAIN toMaster'[w] : LateMessage(w, i, y)'
        BY <3>0
      <3>2. toMaster' = toMaster
        <4>1. ~(toMaster' = [v \in Worker |-> << >>])
          <5>1. DOMAIN << >> = {}
            <6>1. Len(<< >>) = 0 /\ << >> \in Seq(Request) /\ 1 .. 0 = {}
              OBVIOUS
            <6> QED
              BY <6>1, LenProperties
          <5> QED
            BY <3>1, <5>1
        <4> QED
          BY <4>1
      <3>3. y = [at |-> Cluster, request |-> toMaster[w][i].request] /\ i \in DOMAIN toMaster[w]
        BY <3>1, <3>2 DEF LateMessage
      <3>4. ~LateMessage(w, i, y)
        BY <3>3, UnheardIs DEF UnheardParts
      <3>5. PICK c \in Caller : AtCluster(c) /\ c[1] = w /\ op[c].index = toMaster[w][i].index
        BY <3>3, <3>4 DEF LateMessage
      <3>6. InPipe(c) /\ OneRequest(c)
        BY <3>3, <3>5 DEF InPipe, BaseInv, CallsInv, ClusterInv
      <3>7. toMaster[w][i].request = op[c].todo[1] /\ 1 \in DOMAIN op[c].todo
        <4>1. op[c].todo \in Seq(Request) /\ Len(op[c].todo) = 1
          BY <3>6 DEF OneRequest, BaseInv, TypeOK, Op
        <4>2. 1 \in DOMAIN op[c].todo
          BY <4>1
        <4> QED
          BY <3>3, <3>5, <3>6, <4>2 DEF OneRequest
      <3>8. CallOf(c) = Record("open", Cluster, op[c].todo, << >>)
        BY <3>5, <3>6, BaseSeen DEF SeenAll, Seen
      <3>9. Calls[c].at = Cluster /\ Calls[c].todo = op[c].todo
        BY <3>8 DEF Calls, Record
      <3>10. y \in Service!Left(Calls[c])
        BY <3>3, <3>7, <3>9 DEF Service!Left
      <3> QED
        BY <3>10
    <2> QED
      BY <2>1, <2>2, UnheardIsNext DEF UnheardParts
  <1>9. Service!ProcessesEnd
    BY <1>6, <1>7, <1>8 DEF Service!ProcessesEnd
  <1> QED
    BY <1>9 DEF Service!Next

\* The master reads a call: it is the request of the operation that waits for
\* it, or one that nobody waits for.
LEMMA HandleCallStep ==
  ASSUME Falsy = {}, BaseInv, SeenAll', NEW w \in Worker, HandleCall(w)
  PROVE  Service!Next
PROOF
  <1> DEFINE m == toMaster[w][1]
             q == m.request
             n == Len(toMaster[w])
             dict == LocalApply(cluster, q)
             answer == LocalAnswer(cluster, q)
  <1>1. /\ toMaster[w] # << >> /\ toMaster' = [toMaster EXCEPT ![w] = Tail(@)]
        /\ UNCHANGED <<local, ha, op, orphans>>
    BY DEF HandleCall
  <1>2. /\ n \in Nat /\ n >= 1 /\ Head(toMaster[w]) = m /\ DOMAIN toMaster[w] = 1 .. n
        /\ DOMAIN toMaster'[w] = 1 .. n - 1
        /\ \A i \in 1 .. n - 1 : toMaster'[w][i] = toMaster[w][i + 1] /\ i + 1 \in 1 .. n
        /\ \A i \in 1 .. n :
             i = 1 \/ (i - 1 \in 1 .. n - 1 /\ toMaster'[w][i - 1] = toMaster[w][i])
        /\ \A v \in Worker \ {w} : toMaster'[v] = toMaster[v]
    BY <1>1, TailOfPipe DEF BaseInv
  <1>3. cluster' = dict
    BY <1>2 DEF HandleCall
  <1>4. replies' = replies \cup
            (IF \E a \in {"plugin", "startup"} :
                  Waiting(<<w, a>>) /\ op[<<w, a>>].at = Cluster
                    /\ op[<<w, a>>].index = m.index
             THEN {[worker |-> w, index |-> m.index, answer |-> answer]}
             ELSE {})
    BY <1>2 DEF HandleCall
  <1>5. m \in Message /\ 1 \in 1 .. n
    BY <1>1, <1>2, PipeType DEF BaseInv
  <1>6. q \in Request /\ q.type # "clear"
    <2>1. OwnPipe(w)
      BY DEF BaseInv, CallsInv, PipeInv
    <2> QED
      BY <1>2, <1>5, <2>1 DEF OwnPipe, Message
  <1> HIDE DEF n
  <1>7. dict = Service!Apply(cluster, q) /\ answer = Service!Answers(cluster, q)
    <2> HIDE DEF q
    <2> QED
      BY <1>6, ApplySame
  <1>8. Maps' = [Maps EXCEPT ![Cluster] = Service!Apply(Maps[Cluster], q)]
        /\ Maps[Cluster] = cluster
    <2> HIDE DEF q, dict
    <2> QED
      BY <1>1, <1>3, <1>7, MapsCluster, MapsAt
  <1>9. \A d \in Caller : Waiting(d)' = Waiting(d) /\ AtCluster(d)' = AtCluster(d)
    BY <1>1 DEF Waiting, AtCluster
  \* A caller that does not wait for this message sees no difference.
  <1>10. ASSUME NEW d \in Caller, AtCluster(d) /\ d[1] = w => op[d].index # m.index
         PROVE  CallOf(d)' = CallOf(d)
    <2>1. d[1] \in Worker /\ op'[d] = op[d]
      BY <1>1 DEF Caller
    <2>2. ASSUME AtCluster(d) PROVE InPipe(d)' = InPipe(d)
      <3>1. CASE d[1] # w
        BY <1>2, <2>1, <3>1 DEF InPipe
      <3>2. CASE d[1] = w
        <4>1. op[d].index # toMaster[w][1].index
          BY <1>10, <2>2, <3>2
        <4> DEFINE k == op[d].index
        <4>2. k = op'[d].index
          BY <2>1
        <4>3. InPipe(d) <=> \E i \in 1 .. n : toMaster[w][i].index = k
          BY <1>2, <3>2 DEF InPipe
        <4>4. InPipe(d)' <=> \E i \in 1 .. n - 1 : toMaster'[w][i].index = k
          BY <1>2, <3>2, <4>2 DEF InPipe
        <4> HIDE DEF k
        <4>5. ASSUME NEW i \in 1 .. n, toMaster[w][i].index = k
              PROVE  \E j \in 1 .. n - 1 : toMaster'[w][j].index = k
          <5>1. i # 1
            BY <4>1, <4>5 DEF k
          <5>2. i - 1 \in 1 .. n - 1 /\ toMaster'[w][i - 1] = toMaster[w][i]
            BY <1>2, <5>1
          <5> QED
            BY <4>5, <5>2
        <4>6. ASSUME NEW i \in 1 .. n - 1, toMaster'[w][i].index = k
              PROVE  \E j \in 1 .. n : toMaster[w][j].index = k
          <5>1. i + 1 \in 1 .. n /\ toMaster'[w][i] = toMaster[w][i + 1]
            BY <1>2
          <5> QED
            BY <4>6, <5>1
        <4>7. InPipe(d) \in BOOLEAN /\ InPipe(d)' \in BOOLEAN
          BY DEF InPipe
        <4>8. InPipe(d)' <=> InPipe(d)
          BY <4>3, <4>4, <4>5, <4>6
        <4> QED
          BY <4>7, <4>8
      <3> QED
        BY <3>1, <3>2
    <2>3. \A r : AnswersCall(r, d) => (r \in replies' <=> r \in replies)
      <3> SUFFICES ASSUME NEW r, AnswersCall(r, d) PROVE r \in replies' <=> r \in replies
        OBVIOUS
      <3>1. AtCluster(d) /\ r.worker = d[1] /\ r.index = op[d].index
        BY DEF AnswersCall, AtCluster
      <3>2. r # [worker |-> w, index |-> m.index, answer |-> answer]
        BY <1>10, <3>1
      <3> HIDE DEF answer, m
      <3> QED
        BY <1>4, <3>2
    <2>4. Answered(d)' = Answered(d)
      BY <2>1, <2>3, AnsweredKept
    <2> QED
      BY <2>1, <2>2, <2>4, CallKept DEF BaseInv, CallsInv
  \* Of the other messages just as many are waited for.
  <1>11. \A y : (\E v \in Worker : \E i \in DOMAIN toMaster[v] : LateMessage(v, i, y))
                  <=> \/ LateMessage(w, 1, y)
                      \/ \E v \in Worker : \E i \in DOMAIN toMaster'[v] : LateMessage(v, i, y)'
    <2> SUFFICES ASSUME NEW y
                 PROVE  (\E v \in Worker : \E i \in DOMAIN toMaster[v] : LateMessage(v, i, y))
                          <=> \/ LateMessage(w, 1, y)
                              \/ \E v \in Worker :
                                   \E i \in DOMAIN toMaster'[v] : LateMessage(v, i, y)'
      OBVIOUS
    <2>1. \A v \in Worker \ {w} : \A i \in DOMAIN toMaster[v] :
            LateMessage(v, i, y)' <=> LateMessage(v, i, y)
      BY <1>1, <1>2, <1>9 DEF LateMessage
    <2>2. \A i \in 1 .. n - 1 : \A j : j = i + 1 =>
            (LateMessage(w, i, y)' <=> LateMessage(w, j, y))
      BY <1>1, <1>2, <1>9 DEF LateMessage
    <2>3. (\E i \in 1 .. n : LateMessage(w, i, y))
            <=> LateMessage(w, 1, y) \/ \E i \in 1 .. n - 1 : LateMessage(w, i, y)'
      <3>1. ASSUME NEW i \in 1 .. n, LateMessage(w, i, y), i # 1
            PROVE  \E j \in 1 .. n - 1 : LateMessage(w, j, y)'
        <4>1. i - 1 \in 1 .. n - 1 /\ i = (i - 1) + 1
          BY <1>2, <3>1
        <4> QED
          BY <2>2, <3>1, <4>1
      <3>2. ASSUME NEW i \in 1 .. n - 1, LateMessage(w, i, y)'
            PROVE  \E j \in 1 .. n : LateMessage(w, j, y)
        BY <1>2, <2>2, <3>2
      <3> QED
        BY <1>5, <3>1, <3>2
    <2>4. \A v \in Worker \ {w} :
            (\E i \in DOMAIN toMaster[v] : LateMessage(v, i, y))
              <=> \E i \in DOMAIN toMaster'[v] : LateMessage(v, i, y)'
      BY <1>2, <2>1
    <2> QED
      BY <1>2, <2>3, <2>4
  <1>12. \A y : (\E x \in orphans' : LateHttp(x, y)') <=> \E x \in orphans : LateHttp(x, y)
    BY <1>1 DEF LateHttp
  <1>13. \A y : y \in Unheard <=> LateMessage(w, 1, y) \/ y \in Unheard'
    BY <1>11, <1>12, UnheardIs, UnheardIsNext DEF UnheardParts
  <1>14. CASE \E c \in Caller : AtCluster(c) /\ c[1] = w /\ op[c].index = m.index
    <2>1. PICK c \in Caller : AtCluster(c) /\ c[1] = w /\ op[c].index = m.index
      BY <1>14
    <2>2. OneRequest(c) /\ InPipe(c)
      BY <1>2, <1>5, <2>1 DEF BaseInv, CallsInv, ClusterInv, InPipe
    <2>3. op[c].todo = <<q>>
      <3>1. op[c].todo \in Seq(Request) /\ Len(op[c].todo) = 1
        BY <2>2 DEF OneRequest, BaseInv, TypeOK, Op
      <3>2. op[c].todo[1] = q
        BY <1>2, <1>5, <2>1, <2>2 DEF OneRequest
      <3> HIDE DEF q
      <3> QED
        BY <3>1, <3>2
    <2>4. CallOf(c) = Record("open", Cluster, <<q>>, << >>)
      BY <2>1, <2>2, <2>3, BaseSeen DEF SeenAll, Seen
    <2>5. [worker |-> w, index |-> m.index, answer |-> answer] \in replies'
      <3>1. c = <<w, "plugin">> \/ c = <<w, "startup">>
        BY <2>1, CallerOf
      <3>2. \E a \in {"plugin", "startup"} :
              Waiting(<<w, a>>) /\ op[<<w, a>>].at = Cluster /\ op[<<w, a>>].index = m.index
        BY <2>1, <3>1 DEF AtCluster
      <3> HIDE DEF answer, m
      <3> QED
        BY <1>4, <3>2
    <2>6. CallOf(c)' = Record("open", Cluster, << >>, answer)
      <3> DEFINE r == [worker |-> w, index |-> m.index, answer |-> answer]
      <3>1. r.worker = w /\ r.index = m.index /\ r.answer = answer
        OBVIOUS
      <3> HIDE DEF r
      <3>2. \A s : AnswersCall(s, c)' <=> AnswersCall(s, c)
        BY <1>1, <1>9 DEF AnswersCall
      <3>3. AnswersCall(r, c)
        BY <2>1, <3>1 DEF AnswersCall, AtCluster
      <3>4. \E s \in replies' : s.answer = r.answer /\ AnswersCall(s, c)'
        BY <2>5, <3>2, <3>3 DEF r
      <3>5. CallOf(c)' = Record("open", Cluster, << >>, r.answer)
        BY <3>4 DEF SeenAll, Seen
      <3> QED
        BY <3>1, <3>5
    <2>7. Others(c)
      <3>1. \A d \in Caller \ {c} : AtCluster(d) /\ d[1] = w => op[d].index # m.index
        BY <2>1, <2>2 DEF OneRequest
      <3> QED
        BY <1>10, <3>1 DEF Others
    <2>8. \A y : ~LateMessage(w, 1, y)
      BY <2>1 DEF LateMessage
    <2>9. Unheard' = Unheard
      BY <1>13, <2>8
    <2>10. Cluster \in Location /\ <<q>> \in Seq(Request) /\ <<q>> # << >> /\ Head(<<q>>) = q
           /\ Tail(<<q>>) = << >>
      <3> HIDE DEF q
      <3> QED
        BY <1>6, SingleRequest DEF Location
    <2> HIDE DEF q, answer, m
    <2>11. CallOf(c)' = Record("open", Cluster, Tail(<<q>>),
                          Service!Answers(Maps[Cluster], Head(<<q>>)))
      BY <1>7, <1>8, <2>6, <2>10
    <2>12. Maps' = [Maps EXCEPT ![Cluster] = Service!Apply(Maps[Cluster], Head(<<q>>))]
      BY <1>8, <2>10
    <2> QED
      BY <2>4, <2>7, <2>9, <2>10, <2>11, <2>12, CarryOutStep
  <1>15. CASE ~ \E c \in Caller : AtCluster(c) /\ c[1] = w /\ op[c].index = m.index
    <2> DEFINE x == [at |-> Cluster, request |-> q]
    <2>1. Calls' = Calls
      BY <1>10, <1>15, CallsKept
    <2>2. \A y : LateMessage(w, 1, y) <=> y = x
      BY <1>15 DEF LateMessage
    <2>3. x \in Unheard /\ Unheard' \in {Unheard, Unheard \ {x}}
      BY <1>13, <2>2
    <2>4. x.at = Cluster /\ x.request = q
      OBVIOUS
    <2> HIDE DEF x
    <2>5. Service!LateRequest
      BY <1>8, <2>1, <2>3, <2>4 DEF Service!LateRequest
    <2> QED
      BY <2>5 DEF Service!Next
  <1> QED
    BY <1>14, <1>15

-----------------------------------------------------------------------------
(* The refinement: the caching service                                     *)

ServiceStep == Service!Next \/ (Maps' = Maps /\ Calls' = Calls /\ Unheard' = Unheard)

\* What the step of an operation at the caching service leaves alone.
LEMMA HaStepFrame ==
  ASSUME BaseInv, NEW c \in Caller, AtHa(c), op'[c].at = Ha,
         \A d \in Caller \ {c} : op'[d] = op[d],
         UNCHANGED <<toMaster, replies>>
  PROVE  Others(c) /\ (orphans' = orphans => Unheard' = Unheard)
PROOF
  <1>1. ~AtCluster(c) /\ ~AtCluster(c)'
    BY PluginStorageAssumption DEF AtHa, AtCluster
  <1>2. \A d \in Caller \ {c} : AtCluster(d)' = AtCluster(d) /\ op'[d].index = op[d].index
    BY DEF AtCluster, Waiting
  <1>3. ASSUME orphans' = orphans PROVE Unheard' = Unheard
    BY <1>1, <1>2, <1>3, UnheardSame
  <1> QED
    BY <1>3, OthersKept

LEMMA HaTodo ==
  ASSUME BaseInv, NEW c \in Caller, AtHa(c)
  PROVE  LET todo == op[c].todo IN
         /\ todo \in Seq(Request) /\ todo # << >> /\ 1 \in DOMAIN todo
         /\ Head(todo) = todo[1] /\ Head(todo) \in Request /\ Head(todo).type \in HaType
         /\ HaCallInv(op[c])
PROOF
  <1> DEFINE todo == op[c].todo
  <1>1. HaCallInv(op[c]) /\ todo \in Seq(Request)
    BY HaInvParts DEF BaseInv, TypeOK, Op
  <1>2. todo # << >> /\ \A i \in DOMAIN todo : todo[i].type \in HaType
    BY <1>1 DEF HaCallInv
  <1> HIDE DEF todo
  <1>3. 1 \in DOMAIN todo /\ Head(todo) = todo[1] /\ Head(todo) \in Request
    BY <1>1, <1>2
  <1> QED
    BY <1>1, <1>2, <1>3 DEF todo

LEMMA HandleHttpStep ==
  ASSUME Falsy = {}, BaseInv, SeenAll', NEW c \in Caller, HandleHttp(c)
  PROVE  ServiceStep
PROOF
  <1> DEFINE todo == op[c].todo
             q == Head(todo)
             x == op[c].answer
  <1>1. HttpStep(c)
    BY HandleHttpParts DEF BaseInv
  <1>2. /\ AtHa(c) /\ op[c].http = "sent" /\ AtHa(c)'
        /\ op'[c].at = Ha /\ op'[c].todo = todo
        /\ \A d \in Caller \ {c} : op'[d] = op[d]
        /\ UNCHANGED <<local, cluster, toMaster, replies, orphans>>
    BY <1>1 DEF HttpStep, AtHa, Waiting
  <1>3. Others(c) /\ Unheard' = Unheard /\ Ha \in Location
    BY <1>2, HaStepFrame DEF Location
  <1>4. /\ todo \in Seq(Request) /\ todo # << >> /\ q \in Request /\ q.type \in HaType
        /\ ~op[c].handled /\ x = << >>
    BY <1>2, HaTodo DEF HaCallInv, OutcomeInv
  <1>5. CallOf(c) = Record("open", Ha, todo, x)
    BY <1>2, <1>4, BaseSeen DEF SeenAll, Seen
  <1>6. CallOf(c)' = Record("open", Ha, IF op'[c].handled THEN Tail(todo) ELSE todo,
                       op'[c].answer)
    BY <1>2 DEF SeenAll, Seen
  <1>7. \/ /\ ha' = ServiceApply(ha, q)
           /\ op'[c].handled = TRUE /\ op'[c].answer = ServiceAnswer(ha, q)
        \/ ha' = ha /\ ~op'[c].handled /\ op'[c].answer = << >>
    BY <1>1, <1>4 DEF HttpStep, Handled
  <1> HIDE DEF todo, q, x
  <1>8. CASE /\ ha' = ServiceApply(ha, q)
             /\ op'[c].handled = TRUE /\ op'[c].answer = ServiceAnswer(ha, q)
    <2>1. Maps[Ha] = ha
      BY MapsAt
    <2>2. ServiceApply(ha, q) = Service!Apply(ha, q)
          /\ ServiceAnswer(ha, q) = Service!Answers(ha, q)
      BY <1>4, ApplySame
    <2>3. Maps' = [Maps EXCEPT ![Ha] = Service!Apply(Maps[Ha], q)]
      BY <1>2, <1>8, <2>1, <2>2, MapsHa
    <2>4. CallOf(c)' = Record("open", Ha, Tail(todo), Service!Answers(Maps[Ha], q))
      BY <1>6, <1>8, <2>1, <2>2
    <2>5. Service!Next
      BY <1>3, <1>4, <1>5, <2>3, <2>4, CarryOutStep DEF q
    <2> QED
      BY <2>5 DEF ServiceStep
  <1>9. CASE ha' = ha /\ ~op'[c].handled /\ op'[c].answer = << >>
    <2>1. CallOf(c)' = CallOf(c)
      BY <1>4, <1>5, <1>6, <1>9
    <2>2. Calls' = Calls
      BY <1>3, <2>1, CallsKept DEF Others
    <2>3. Maps' = Maps
      BY <1>2, <1>9, MapsKept
    <2> QED
      BY <1>3, <2>2, <2>3 DEF ServiceStep
  <1> QED
    BY <1>7, <1>8, <1>9

\* What follows a request: the operation fails, is resolved, or goes on, which
\* nobody sees.
LEMMA TakeHttpStep ==
  ASSUME BaseInv, SeenAll', NEW c \in Caller, TakeHttp(c)
  PROVE  ServiceStep
PROOF
  <1> DEFINE todo == op[c].todo
             q == Head(todo)
             x == op[c].answer
             left == IF op[c].handled THEN Tail(todo) ELSE todo
  <1>1. HttpTaken(c)
    BY TakeHttpParts DEF BaseInv
  <1>2. /\ AtHa(c) /\ op'[c].at = Ha /\ op'[c].handled = FALSE
        /\ \A d \in Caller \ {c} : op'[d] = op[d]
        /\ UNCHANGED <<local, cluster, ha, toMaster, replies>>
        /\ FailureTaken(c) \/ SuccessTaken(c) \/ MissingTaken(c)
    BY <1>1 DEF HttpTaken
  <1>3. Others(c) /\ (orphans' = orphans => Unheard' = Unheard) /\ Ha \in Location
    BY <1>2, HaStepFrame DEF Location
  <1>4. /\ todo \in Seq(Request) /\ todo # << >> /\ 1 \in DOMAIN todo /\ q = todo[1]
        /\ HaCallInv(op[c])
    BY <1>2, HaTodo
  <1>5. Maps' = Maps
    BY <1>2, MapsKept
  <1>6. CallOf(c) = Record("open", Ha, left, x)
    BY <1>2, BaseSeen DEF SeenAll, Seen
  <1>7. op'[c].phase # "waiting" => CallOf(c)' = Record(op'[c].phase, Ha, << >>, op'[c].answer)
    BY <1>2 DEF SeenAll, Seen, Waiting
  <1>8. op'[c].phase = "waiting" => CallOf(c)' = Record("open", Ha, op'[c].todo, op'[c].answer)
    BY <1>2 DEF SeenAll, Seen, Waiting, AtHa
  <1>9. CASE FailureTaken(c)
    <2>1. CallOf(c)' = Record("rejected", Ha, << >>, << >>)
      BY <1>7, <1>9 DEF FailureTaken
    <2>2. Unheard' \subseteq Unheard \cup {[at |-> Ha, request |-> left[i]] : i \in DOMAIN left}
      <3> SUFFICES ASSUME NEW y \in Unheard', y \notin Unheard
                   PROVE  y \in {[at |-> Ha, request |-> left[i]] : i \in DOMAIN left}
        OBVIOUS
      <3>1. \A d \in Caller : AtCluster(d)' <=> AtCluster(d)
        <4>1. ~AtCluster(c) /\ ~AtCluster(c)'
          BY <1>2, PluginStorageAssumption DEF AtHa, AtCluster
        <4> QED
          BY <1>2, <4>1 DEF AtCluster, Waiting
      <3>2. \A d \in Caller : AtCluster(d) => op'[d] = op[d]
        BY <1>2, PluginStorageAssumption DEF AtHa, AtCluster
      <3>3. \A w \in Worker : \A i \in DOMAIN toMaster'[w] :
              LateMessage(w, i, y)' => LateMessage(w, i, y) /\ i \in DOMAIN toMaster[w]
        BY <1>2, <3>1, <3>2 DEF LateMessage
      <3>4. PICK z \in orphans' : LateHttp(z, y)' /\ z \notin orphans
        BY <3>3, UnheardIs, UnheardIsNext DEF UnheardParts, LateHttp
      <3>5. ~op[c].handled /\ z.request = q
        BY <1>9, <3>4 DEF FailureTaken
      <3>6. left = todo /\ y = [at |-> Ha, request |-> todo[1]]
        BY <1>4, <3>4, <3>5 DEF LateHttp
      <3> HIDE DEF todo, left
      <3> QED
        BY <1>4, <3>6
    <2> HIDE DEF left, x
    <2>3. Service!Next
      BY <1>3, <1>5, <1>6, <2>1, <2>2, AbandonStep
    <2> QED
      BY <2>3 DEF ServiceStep
  <1>10. CASE SuccessTaken(c)
    <2>1. op[c].handled /\ left = Tail(todo) /\ Unheard' = Unheard
      BY <1>3, <1>4, <1>10 DEF SuccessTaken, HaCallInv, OutcomeInv
    <2>2. CASE Len(todo) = 1
      <3>1. Tail(todo) = << >>
        <4> HIDE DEF todo
        <4>1. Tail(todo) \in Seq(Request) /\ Len(Tail(todo)) = 0
          BY <1>4, <2>2
        <4> QED
          BY <4>1, EmptySeq
      <3>2. CallOf(c)' = Record("resolved", Ha, << >>, x)
        BY <1>7, <1>10, <2>2 DEF SuccessTaken
      <3> HIDE DEF left, x
      <3>3. Service!Next
        BY <1>3, <1>5, <1>6, <2>1, <3>1, <3>2, ResolveStep
      <3> QED
        BY <3>3 DEF ServiceStep
    <2>3. CASE Len(todo) # 1
      <3>1. CallOf(c)' = Record("open", Ha, Tail(todo), x)
        BY <1>8, <1>10, <2>3 DEF SuccessTaken
      <3>2. CallOf(c)' = CallOf(c)
        BY <1>6, <2>1, <3>1
      <3>3. Calls' = Calls
        BY <1>3, <3>2, CallsKept DEF Others
      <3> QED
        BY <1>5, <2>1, <3>3 DEF ServiceStep
    <2> QED
      BY <2>2, <2>3
  <1>11. CASE MissingTaken(c)
    <2>1. ~op[c].handled /\ left = todo /\ Unheard' = Unheard
      BY <1>3, <1>4, <1>11 DEF MissingTaken, HaCallInv, OutcomeInv
    <2>2. CallOf(c)' = CallOf(c)
      BY <1>6, <1>8, <1>11, <2>1 DEF MissingTaken
    <2>3. Calls' = Calls
      BY <1>3, <2>2, CallsKept DEF Others
    <2> QED
      BY <1>5, <2>1, <2>3 DEF ServiceStep
  <1> QED
    BY <1>2, <1>9, <1>10, <1>11

LEMMA OrphanStep ==
  ASSUME Falsy = {}, BaseInv, NEW z \in orphans, HandleOrphan(z)
  PROVE  ServiceStep
PROOF
  <1> DEFINE q == z.request
             x == [at |-> Ha, request |-> q]
  <1>1. /\ ha' = ha \/ ha' = ServiceApply(ha, q)
        /\ orphans' = orphans \ {z}
        /\ UNCHANGED <<local, cluster, op, toMaster, replies>>
    BY DEF HandleOrphan
  <1>2. q \in Request /\ q.type \in HaType
    BY DEF BaseInv, TypeOK, HaInv
  <1>3. \A d \in Caller : CallOf(d)' = CallOf(d)
    <2> SUFFICES ASSUME NEW d \in Caller PROVE CallOf(d)' = CallOf(d)
      OBVIOUS
    <2>1. op'[d] = op[d] /\ InPipe(d)' = InPipe(d)
      BY <1>1 DEF InPipe
    <2>2. Answered(d)' = Answered(d)
      BY <1>1, <2>1, AnsweredKept
    <2> QED
      BY <2>1, <2>2, CallKept DEF BaseInv, CallsInv
  <1>4. Calls' = Calls
    BY <1>3, CallsKept
  <1>5. \A w \in Worker : \A y : \A i \in DOMAIN toMaster[w] :
          LateMessage(w, i, y)' <=> LateMessage(w, i, y)
    BY <1>1 DEF LateMessage, AtCluster, Waiting
  <1>6. \A y : y \in Unheard' => y \in Unheard
    BY <1>1, <1>5, UnheardIs, UnheardIsNext DEF UnheardParts, LateHttp
  <1>7. \A y : y \in Unheard /\ y # x => y \in Unheard'
    BY <1>1, <1>5, UnheardIs, UnheardIsNext DEF UnheardParts, LateHttp
  <1>8. x \in Unheard /\ Unheard' \in {Unheard, Unheard \ {x}}
    <2>1. x \in Unheard
      BY UnheardIs DEF UnheardParts, LateHttp
    <2> QED
      BY <1>6, <1>7, <2>1
  <1>9. x.at = Ha /\ x.request = q
    OBVIOUS
  <1> HIDE DEF x, q
  <1>10. Maps' \in {Maps, [Maps EXCEPT ![Ha] = Service!Apply(Maps[Ha], q)]}
    <2>1. CASE ha' = ha
      BY <1>1, <2>1, MapsKept
    <2>2. CASE ha' = ServiceApply(ha, q)
      <3>1. ServiceApply(ha, q) = Service!Apply(Maps[Ha], q)
        BY <1>2, ApplySame, MapsAt
      <3> QED
        BY <1>1, <2>2, <3>1, MapsHa
    <2> QED
      BY <1>1, <2>1, <2>2
  <1>11. Service!LateRequest
    BY <1>4, <1>8, <1>9, <1>10 DEF Service!LateRequest
  <1> QED
    BY <1>11 DEF Service!Next, ServiceStep

-----------------------------------------------------------------------------
(* The refinement: every step is one of the service, or none               *)

LEMMA UnchangedStep ==
  ASSUME UNCHANGED vars
  PROVE  ServiceStep
PROOF
  <1>1. Maps' = Maps
    BY MapsKept DEF vars
  <1>2. Calls' = Calls /\ Unheard' = Unheard
    BY DEF vars, Calls, CallOf, Waiting, Remaining, InPipe, Answered, AnswersCall,
           Unheard, Listening
  <1> QED
    BY <1>1, <1>2 DEF ServiceStep

LEMMA NextService ==
  ASSUME Falsy = {}, BaseInv, SeenAll', [Next]_vars
  PROVE  ServiceStep
PROOF
  <1>1. CASE UNCHANGED vars
    BY <1>1, UnchangedStep
  <1>2. CASE Next
    <2>1. ASSUME NEW w \in Worker, Start(w)
          PROVE  ServiceStep
      BY <2>1, StartStep DEF ServiceStep
    <2>2. ASSUME NEW w \in Worker, HandleCall(w)
          PROVE  ServiceStep
      BY <2>2, HandleCallStep DEF ServiceStep
    <2>3. ASSUME NEW w \in Worker, Crash(w)
          PROVE  ServiceStep
      <3>1. {w} \in SUBSET Worker /\ End({w}) /\ UNCHANGED <<cluster, toMaster>>
        BY <2>3 DEF Crash
      <3> QED
        BY <3>1, EndStep DEF ServiceStep
    <2>4. ASSUME NEW w \in Worker, NEW o \in Operation, NEW at \in {w, shared}, Operate(w, o, at)
          PROVE  ServiceStep
      BY <2>4, OperateStep DEF ServiceStep
    <2>5. ASSUME NEW c \in Caller, HandleHttp(c)
          PROVE  ServiceStep
      BY <2>5, HandleHttpStep
    <2>6. ASSUME NEW c \in Caller, TakeHttp(c)
          PROVE  ServiceStep
      BY <2>6, TakeHttpStep
    <2>7. ASSUME NEW c \in Caller, NEW r \in replies, TakeReply(c[1], c[2], r)
          PROVE  ServiceStep
      <3>1. c[1] \in Worker /\ c[2] \in {"plugin", "startup"}
        BY DEF Caller
      <3> QED
        BY <2>7, <3>1, TakeReplyStep DEF ServiceStep
    <2>8. ASSUME NEW c \in Caller, GiveUp(c)
          PROVE  ServiceStep
      <3>1. CASE ServerEnds
        <4>1. End(Worker) /\ cluster' = EmptyDict /\ toMaster' = [w \in Worker |-> << >>]
          BY <3>1 DEF ServerEnds
        <4> QED
          BY <4>1, EndStep DEF ServiceStep
      <3>2. CASE /\ op'[c] = [op[c] EXCEPT !.phase = "resolved", !.todo = << >>]
                 /\ op'[c].phase = "resolved" /\ op'[c].at = op[c].at
                 /\ op'[c].answer = op[c].answer
                 /\ \A d \in Caller \ {c} : op'[d] = op[d]
                 /\ replies' = {r \in replies : ~AnswersCall(r, c)}
                 /\ UNCHANGED <<local, cluster, ha, messageIndex, toMaster, orphans, alone>>
        <4>1. AtCluster(c)
          BY <2>8, GiveUpParts DEF BaseInv
        <4> QED
          BY <3>2, <4>1, GiveUpStep DEF ServiceStep
      <3> QED
        BY <2>8, <3>1, <3>2, GiveUpParts DEF BaseInv
    <2>9. ASSUME NEW x \in orphans, HandleOrphan(x)
          PROVE  ServiceStep
      BY <2>9, OrphanStep
    <2> QED
      BY <1>2, <2>1, <2>2, <2>3, <2>4, <2>5, <2>6, <2>7, <2>8, <2>9 DEF Next, CallerStep
  <1> QED
    BY <1>1, <1>2

LEMMA InitService == Init => Service!Init
PROOF
  <1> SUFFICES ASSUME Init PROVE Service!Init
    OBVIOUS
  <1>1. Maps = [l \in Location |-> Service!EmptyDict]
    BY ServiceSame DEF Init, Maps, Location
  <1>2. \A c \in Caller : Calls[c].status = "idle" /\ Calls[c].todo = << >>
    <2>1. Idle.phase = "idle"
      BY DEF Idle, Opened
    <2> QED
      BY <2>1 DEF Init, Calls, CallOf, Waiting
  <1>3. Unheard = {}
    <2>1. DOMAIN << >> = {}
      <3>1. Len(<< >>) = 0 /\ << >> \in Seq(Request) /\ 1 .. 0 = {}
        OBVIOUS
      <3> QED
        BY <3>1, LenProperties
    <2>2. \A y : y \notin Unheard
      BY <2>1, UnheardIs DEF UnheardParts, Init
    <2> QED
      BY <2>2
  <1> QED
    BY <1>1, <1>2, <1>3 DEF Service!Init

\* Whatever location a plugin chooses, its storage is an atomic map: the remote
\* calls, the two-step set() of the caching service, the answers of calls given
\* up, the exits and the merges at the start cannot be told from operations
\* that are carried out at once.  A falsy value is the exception (get() returns
\* undefined for it and delete() leaves it there), so it takes their absence.
THEOREM StorageRefinesService ==
  ASSUME Falsy = {}
  PROVE  Spec => ImplementsService
PROOF
  <1>1. Init => BaseInv /\ Service!Init
    BY InitBase, InitService
  <1>2. BaseInv /\ [Next]_vars => BaseInv'
    BY NextBase
  <1>3. BaseInv /\ SeenAll' /\ [Next]_vars => [Service!Next]_(Service!vars)
    BY NextService DEF ServiceStep, Service!vars
  <1>4. BaseInv' => SeenAll'
    BY BaseSeenNext
  <1> QED
    BY <1>1, <1>2, <1>3, <1>4, PTL DEF Spec, ImplementsService, Service!Spec

=============================================================================
