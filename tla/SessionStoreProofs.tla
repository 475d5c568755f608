------------------------- MODULE SessionStoreProofs -------------------------
(***************************************************************************)
(* Invariance proofs for SessionStore.                                     *)
(***************************************************************************)
EXTENDS SessionStore, SequenceTheorems, WellFoundedInduction, TLAPS

-----------------------------------------------------------------------------
(* What cutting an entry out of the queue leaves *)

\* There is a first entry for an id that is in the queue.
LEMMA FirstIndex ==
  ASSUME NEW S, NEW q \in Seq(S), NEW e \in ToSet(q)
  PROVE  /\ SelectInSeq(q, LAMBDA v : v = e) \in 1 .. Len(q)
         /\ q[SelectInSeq(q, LAMBDA v : v = e)] = e
PROOF
  <1> DEFINE I == {i \in 1 .. Len(q) : q[i] = e}
  <1>1. I # {} /\ I \subseteq Nat
    BY DEF ToSet
  <1>2. \E x \in I : \A y \in I : x <= y
    <2> DEFINE R == {ss \in Nat \X Nat : ss[1] < ss[2]}
    <2>1. IsWellFoundedOn(R, Nat)
      BY NatLessThanWellFounded DEF OpToRel
    <2>2. PICK x \in I : \A y \in I : ~(<<y, x>> \in R)
      BY <1>1, <2>1, WFMin
    <2>3. \A y \in I : ~(y < x)
      BY <1>1, <2>2
    <2> QED
      BY <1>1, <2>3
  <1>3. Min(I) \in I
    BY <1>2 DEF Min
  <1>4. SelectInSeq(q, LAMBDA v : v = e) = Min(I)
    BY <1>1 DEF SelectInSeq
  <1> QED
    BY <1>3, <1>4

\* A sequence with its k-th element removed, place by place.
LEMMA RemoveAtFacts ==
  ASSUME NEW S, NEW q \in Seq(S), NEW k \in 1 .. Len(q)
  PROVE  /\ RemoveAt(q, k) \in Seq(S)
         /\ Len(RemoveAt(q, k)) = Len(q) - 1
         /\ \A i \in 1 .. Len(q) - 1 :
              RemoveAt(q, k)[i] = IF i < k THEN q[i] ELSE q[i + 1]
PROOF
  <1> DEFINE a == SubSeq(q, 1, k - 1)
             b == SubSeq(q, k + 1, Len(q))
  <1>0. Len(q) \in Nat /\ k \in Nat /\ \A i \in 1 .. Len(q) : q[i] \in S
    BY ElementOfSeq
  <1>1. /\ a \in Seq(S) /\ Len(a) = k - 1
        /\ \A i \in 1 .. k - 1 : a[i] = q[i]
    <2>1. \A i \in 1 .. k - 1 : q[i] \in S
      BY <1>0
    <2> QED
      BY <1>0, <2>1, SubSeqProperties
  <1>2. /\ b \in Seq(S) /\ Len(b) = Len(q) - k
        /\ \A i \in 1 .. Len(q) - k : b[i] = q[k + i]
    <2>1. \A i \in k + 1 .. Len(q) : q[i] \in S
      BY <1>0
    <2> QED
      BY <1>0, <2>1, SubSeqProperties
  <1>3. RemoveAt(q, k) = a \o b
    BY DEF RemoveAt
  <1> HIDE DEF a, b
  <1>4. a \o b \in Seq(S) /\ Len(a \o b) = Len(q) - 1
    <2>1. a \in Seq(S) /\ b \in Seq(S)
      BY <1>1, <1>2
    <2>2. a \o b \in Seq(S) /\ Len(a \o b) = Len(a) + Len(b)
      BY <2>1, ConcatProperties
    <2>3. Len(a) = k - 1 /\ Len(b) = Len(q) - k
      BY <1>1, <1>2
    <2> QED
      BY <1>0, <2>2, <2>3
  <1>5. ASSUME NEW i \in 1 .. Len(q) - 1
        PROVE  (a \o b)[i] = IF i < k THEN q[i] ELSE q[i + 1]
    <2>1. (a \o b)[i] = IF i <= Len(a) THEN a[i] ELSE b[i - Len(a)]
      BY <1>0, <1>1, <1>2, <1>4, ConcatProperties
    <2>2. CASE i < k
      BY <1>0, <1>1, <2>1, <2>2
    <2>3. CASE ~(i < k)
      <3>1. /\ (a \o b)[i] = b[i - (k - 1)]
            /\ i - (k - 1) \in 1 .. Len(q) - k
        BY <1>0, <1>1, <2>1, <2>3
      <3>2. b[i - (k - 1)] = q[k + (i - (k - 1))] /\ k + (i - (k - 1)) = i + 1
        BY <1>0, <1>2, <3>1
      <3> QED
        BY <2>3, <3>1, <3>2
    <2> QED
      BY <2>2, <2>3
  <1> QED
    BY <1>3, <1>4, <1>5

\* splice(indexOf(e), 1) for an id that has an entry: every other id keeps
\* its entries, and if there is one entry for each, e has none left.
LEMMA SpliceFacts ==
  ASSUME NEW q \in Seq(Sid), NEW e \in ToSet(q)
  PROVE  /\ Splice(q, e) \in Seq(Sid)
         /\ Len(Splice(q, e)) = Len(q) - 1
         /\ ToSet(q) \ {e} \subseteq ToSet(Splice(q, e))
         /\ IsInjective(q) => /\ IsInjective(Splice(q, e))
                              /\ ToSet(Splice(q, e)) = ToSet(q) \ {e}
PROOF
  <1> DEFINE k == SelectInSeq(q, LAMBDA v : v = e)
             r == Splice(q, e)
  <1>1. k \in 1 .. Len(q) /\ q[k] = e
    BY FirstIndex
  <1>2. r = RemoveAt(q, k)
    BY <1>1 DEF Splice, RemoveFirst
  <1> HIDE DEF k, r
  <1>3. /\ r \in Seq(Sid) /\ Len(r) = Len(q) - 1
        /\ \A i \in 1 .. Len(q) - 1 : r[i] = IF i < k THEN q[i] ELSE q[i + 1]
    BY <1>1, <1>2, RemoveAtFacts
  <1>4. /\ Len(q) \in Nat /\ k \in Nat /\ DOMAIN q = 1 .. Len(q)
        /\ DOMAIN r = 1 .. Len(q) - 1
    BY <1>1, <1>3
  <1>5. ASSUME NEW x \in ToSet(q), x # e
        PROVE  x \in ToSet(r)
    <2>1. PICK i \in 1 .. Len(q) : q[i] = x
      BY <1>4 DEF ToSet
    <2>2. CASE i < k
      <3>1. i \in 1 .. Len(q) - 1 /\ r[i] = x
        BY <1>1, <1>3, <1>4, <2>1, <2>2
      <3> QED
        BY <1>4, <3>1 DEF ToSet
    <2>3. CASE i > k
      <3>1. i - 1 \in 1 .. Len(q) - 1 /\ ~(i - 1 < k) /\ (i - 1) + 1 = i
        BY <1>1, <1>4, <2>3
      <3>2. r[i - 1] = x
        BY <1>3, <2>1, <3>1
      <3> QED
        BY <1>4, <3>1, <3>2 DEF ToSet
    <2> QED
      BY <1>1, <1>4, <1>5, <2>1, <2>2, <2>3
  <1>6. ASSUME IsInjective(q)
        PROVE  IsInjective(r) /\ e \notin ToSet(r)
    <2> DEFINE at(i) == IF i < k THEN i ELSE i + 1
    <2>1. \A i \in DOMAIN r : /\ at(i) \in DOMAIN q /\ at(i) # k
                              /\ r[i] = q[at(i)]
      BY <1>1, <1>3, <1>4
    <2>2. \A i, j \in DOMAIN r : at(i) = at(j) => i = j
      BY <1>4
    <2> HIDE DEF at
    <2>3. IsInjective(r)
      BY <1>6, <2>1, <2>2 DEF IsInjective
    <2>4. \A i \in DOMAIN r : r[i] # e
      BY <1>1, <1>4, <1>6, <2>1 DEF IsInjective
    <2> QED
      BY <2>3, <2>4 DEF ToSet
  <1>7. ToSet(r) \subseteq ToSet(q)
    <2>1. \A i \in DOMAIN r : \E j \in DOMAIN q : r[i] = q[j]
      BY <1>1, <1>3, <1>4
    <2> QED
      BY <2>1 DEF ToSet
  <1> QED
    BY <1>3, <1>5, <1>6, <1>7 DEF r

\* The limited queue's push: never longer than the limit, and an id that was
\* there still is, unless it was the oldest entry of a full queue.
LEMMA PushFacts ==
  ASSUME sessionsQueue \in Seq(Sid), NEW sid \in Sid, NEW session,
         Len(sessionsQueue) <= StoredSessionsLimit, Push(sid, session)
  PROVE  /\ sessionsQueue' \in Seq(Sid)
         /\ Len(sessionsQueue') <= StoredSessionsLimit
         /\ sid \in ToSet(sessionsQueue')
         /\ DOMAIN sessions' \subseteq DOMAIN sessions \cup {sid}
         /\ DOMAIN sessions \subseteq ToSet(sessionsQueue) =>
              DOMAIN sessions' \subseteq ToSet(sessionsQueue')
         /\ IsInjective(sessionsQueue) /\ sid \notin DOMAIN sessions
              /\ ToSet(sessionsQueue) = DOMAIN sessions =>
              /\ IsInjective(sessionsQueue')
              /\ ToSet(sessionsQueue') = DOMAIN sessions'
PROOF
  <1> DEFINE q == sessionsQueue
             full == Len(q) >= StoredSessionsLimit
             t == IF full THEN Tail(q) ELSE q
             kept == IF full THEN DOMAIN sessions \ {Head(q)}
                     ELSE DOMAIN sessions
  <1>1. sessionsQueue' = Append(t, sid) /\ DOMAIN sessions' = kept \cup {sid}
    BY DEF Push
  <1>2. StoredSessionsLimit \in Nat \ {0}
    BY SessionStoreAssumption
  <1>3. full => q # << >>
    BY <1>2
  <1>4. /\ t \in Seq(Sid) /\ Len(t) < StoredSessionsLimit
        /\ kept \subseteq DOMAIN sessions
        /\ DOMAIN sessions \subseteq ToSet(q) => kept \subseteq ToSet(t)
        /\ IsInjective(q) /\ ToSet(q) = DOMAIN sessions =>
             IsInjective(t) /\ ToSet(t) = kept
    <2>1. CASE ~full
      BY <1>2, <2>1
    <2>2. CASE full
      <3>1. q # << >> /\ t = Tail(q) /\ kept = DOMAIN sessions \ {Head(q)}
        BY <1>3, <2>2
      <3>2. /\ t \in Seq(Sid) /\ Len(t) = Len(q) - 1 /\ Head(q) = q[1]
            /\ \A i \in 1 .. Len(t) : t[i] = q[i + 1]
        BY <3>1, HeadTailProperties
      <3>3. /\ Len(q) \in Nat /\ DOMAIN q = 1 .. Len(q)
            /\ DOMAIN t = 1 .. Len(q) - 1 /\ Len(q) > 0
        BY <3>1, <3>2
      <3> HIDE DEF t
      <3>4. ASSUME NEW x \in ToSet(q), x # Head(q) PROVE x \in ToSet(t)
        <4>1. PICK i \in 1 .. Len(q) : q[i] = x
          BY <3>3 DEF ToSet
        <4>2. i # 1
          BY <3>2, <3>4, <4>1
        <4>3. i - 1 \in 1 .. Len(q) - 1 /\ (i - 1) + 1 = i
          BY <3>3, <4>2
        <4>4. t[i - 1] = x
          BY <3>2, <4>1, <4>3
        <4> QED
          BY <3>3, <4>3, <4>4 DEF ToSet
      <3>5. \A i \in DOMAIN t : i + 1 \in DOMAIN q /\ i + 1 # 1 /\ t[i] = q[i + 1]
        BY <3>2, <3>3
      <3>6. ASSUME IsInjective(q)
            PROVE  IsInjective(t) /\ Head(q) \notin ToSet(t)
        <4>1. \A i, j \in DOMAIN t : t[i] = t[j] => i = j
          BY <3>3, <3>5, <3>6 DEF IsInjective
        <4>2. 1 \in DOMAIN q
          BY <3>3
        <4>3. \A i \in DOMAIN t : t[i] # Head(q)
          BY <3>2, <3>5, <3>6, <4>2 DEF IsInjective
        <4> QED
          BY <4>1, <4>3 DEF IsInjective, ToSet
      <3>7. ToSet(t) \subseteq ToSet(q)
        BY <3>5 DEF ToSet
      <3> QED
        BY <1>2, <2>2, <3>1, <3>2, <3>3, <3>4, <3>6, <3>7
    <2> QED
      BY <2>1, <2>2
  <1> HIDE DEF t, kept
  <1>5. /\ sessionsQueue' \in Seq(Sid)
        /\ Len(sessionsQueue') = Len(t) + 1
        /\ \A i \in DOMAIN t : i \in DOMAIN sessionsQueue'
                                 /\ sessionsQueue'[i] = t[i]
        /\ \A i \in DOMAIN sessionsQueue' :
             i \in DOMAIN t \/ i = Len(t) + 1
        /\ Len(t) + 1 \in DOMAIN sessionsQueue'
        /\ sessionsQueue'[Len(t) + 1] = sid
        /\ Len(t) + 1 \notin DOMAIN t
    BY <1>1, <1>4
  <1>6. ToSet(sessionsQueue') = ToSet(t) \cup {sid}
    BY <1>5 DEF ToSet
  <1>7. IsInjective(t) /\ sid \notin ToSet(t) => IsInjective(sessionsQueue')
    BY <1>5 DEF IsInjective, ToSet
  <1>8. Len(sessionsQueue') <= StoredSessionsLimit
    BY <1>2, <1>4, <1>5
  <1> QED
    BY <1>1, <1>4, <1>5, <1>6, <1>7, <1>8

-----------------------------------------------------------------------------
(* The store *)

StoreType ==
  /\ DOMAIN sessions \subseteq Sid
  /\ \A s \in DOMAIN sessions : sessions[s] \in Session
  /\ sessionsQueue \in Seq(Sid)

\* What the master's store keeps across every call.  The two properties need
\* each other's help: splice() cuts out the right entry only because a stored
\* session has one, and it leaves none behind only because it had just one.
StoreInv == StoreType /\ StoreBounded /\ NoStaleEntries

LEMMA EmptyQueue ==
  /\ << >> \in Seq(Sid) /\ Len(<< >>) = 0 /\ ToSet(<< >>) = {}
  /\ IsInjective(<< >>) /\ DOMAIN << >> = {}
PROOF
  BY DEF ToSet, IsInjective

LEMMA AddSessionStep ==
  ASSUME StoreInv, NEW sid \in Sid, NEW session \in Session,
         AddSession(sid, session), expired' = expired
  PROVE  StoreInv'
PROOF
  <1>1. /\ sessionsQueue \in Seq(Sid)
        /\ Len(sessionsQueue) <= StoredSessionsLimit
        /\ DOMAIN sessions \subseteq Sid
        /\ DOMAIN sessions \subseteq ToSet(sessionsQueue)
        /\ \A s \in DOMAIN sessions : sessions[s] \in Session
    BY DEF StoreInv, StoreType, StoreBounded
  <1>2. CASE sid \in DOMAIN sessions
    <2>1. /\ DOMAIN sessions' = DOMAIN sessions
          /\ \A s \in DOMAIN sessions' : sessions'[s] \in Session
          /\ sessionsQueue' = sessionsQueue
      BY <1>1, <1>2 DEF AddSession
    <2> QED
      BY <1>1, <2>1 DEF StoreInv, StoreType, StoreBounded, NoStaleEntries
  <1>3. CASE sid \notin DOMAIN sessions
    <2>1. Push(sid, session)
      BY <1>3 DEF AddSession
    <2>2. \A s \in DOMAIN sessions' : sessions'[s] \in Session
      BY <1>1, <2>1 DEF Push
    <2>3. /\ sessionsQueue' \in Seq(Sid)
          /\ Len(sessionsQueue') <= StoredSessionsLimit
          /\ DOMAIN sessions' \subseteq DOMAIN sessions \cup {sid}
          /\ DOMAIN sessions' \subseteq ToSet(sessionsQueue')
          /\ IsInjective(sessionsQueue)
               /\ ToSet(sessionsQueue) = DOMAIN sessions =>
               /\ IsInjective(sessionsQueue')
               /\ ToSet(sessionsQueue') = DOMAIN sessions'
      BY <1>1, <1>3, <2>1, PushFacts
    <2> QED
      BY <1>1, <2>2, <2>3 DEF StoreInv, StoreType, StoreBounded, NoStaleEntries
  <1> QED
    BY <1>2, <1>3

LEMMA RemoveSidStep ==
  ASSUME StoreInv, NEW sid \in Sid, RemoveSid(sid), expired' = expired
  PROVE  StoreInv'
PROOF
  <1>1. /\ sessionsQueue \in Seq(Sid)
        /\ Len(sessionsQueue) <= StoredSessionsLimit
        /\ DOMAIN sessions \subseteq Sid
        /\ DOMAIN sessions \subseteq ToSet(sessionsQueue)
        /\ \A s \in DOMAIN sessions : sessions[s] \in Session
        /\ StoredSessionsLimit \in Nat
    BY SessionStoreAssumption DEF StoreInv, StoreType, StoreBounded
  <1>2. CASE sid \in DOMAIN sessions
    <2>1. /\ DOMAIN sessions' = DOMAIN sessions \ {sid}
          /\ \A s \in DOMAIN sessions' : sessions'[s] \in Session
          /\ sessionsQueue' = Splice(sessionsQueue, sid)
      BY <1>1, <1>2 DEF RemoveSid, Restrict
    <2>2. sid \in ToSet(sessionsQueue)
      BY <1>1, <1>2
    <2>3. /\ sessionsQueue' \in Seq(Sid)
          /\ Len(sessionsQueue') = Len(sessionsQueue) - 1
          /\ ToSet(sessionsQueue) \ {sid} \subseteq ToSet(sessionsQueue')
          /\ IsInjective(sessionsQueue) =>
               /\ IsInjective(sessionsQueue')
               /\ ToSet(sessionsQueue') = ToSet(sessionsQueue) \ {sid}
      BY <1>1, <2>1, <2>2, SpliceFacts
    <2>4. Len(sessionsQueue') <= StoredSessionsLimit
      <3>1. Len(sessionsQueue) \in Nat
        BY <1>1
      <3> QED
        BY <1>1, <2>3, <3>1
    <2> QED
      BY <1>1, <2>1, <2>3, <2>4
         DEF StoreInv, StoreType, StoreBounded, NoStaleEntries
  <1>3. CASE sid \notin DOMAIN sessions
    <2>1. UNCHANGED store
      BY <1>3 DEF RemoveSid
    <2> QED
      BY <2>1 DEF store, StoreInv, StoreType, StoreBounded, NoStaleEntries
  <1> QED
    BY <1>2, <1>3

\* A call that is about one of the ids, with a session, keeps the store.
LEMMA HandleCallStore ==
  ASSUME TypeOK, StoreInv, NEW w \in Worker, HandleCall(w)
  PROVE  StoreInv'
PROOF
  <1> DEFINE c == Head(toMaster[w])
  <1>1. c \in Call
    <2>1. toMaster[w] \in Seq(Call) /\ toMaster[w] # << >>
      BY DEF TypeOK, HandleCall
    <2> QED
      BY <2>1, HeadTailProperties
  <1>2. c.sid \in Sid /\ c.session \in Session /\ expired' = expired
    BY <1>1 DEF Call, HandleCall
  <1> HIDE DEF c
  <1>3. CASE UNCHANGED store
    BY <1>2, <1>3 DEF store, StoreInv, StoreType, StoreBounded, NoStaleEntries
  <1>4. CASE AddSession(c.sid, c.session)
    BY <1>2, <1>4, AddSessionStep
  <1>5. CASE AddSession(c.sid, [c.session EXCEPT !.lastTouch = now])
    <2>1. [c.session EXCEPT !.lastTouch = now] \in Session
      BY <1>2 DEF TypeOK, Session
    <2> QED
      BY <1>2, <1>5, <2>1, AddSessionStep
  <1>6. CASE RemoveSid(c.sid)
    BY <1>2, <1>6, RemoveSidStep
  <1>7. CASE sessions' = << >> /\ sessionsQueue' = << >>
    BY <1>2, <1>7, EmptyQueue, SessionStoreAssumption
       DEF StoreInv, StoreType, StoreBounded, NoStaleEntries
  <1> QED
    BY <1>3, <1>4, <1>5, <1>6, <1>7 DEF HandleCall, c

LEMMA CleanStore ==
  ASSUME StoreInv, Clean
  PROVE  StoreInv'
PROOF
  <1>1. /\ DOMAIN sessions' \subseteq DOMAIN sessions
        /\ \A s \in DOMAIN sessions' : sessions'[s] = sessions[s]
    BY DEF Clean, RestrictDomain, Restrict
  <1>2. sessionsQueue' = sessionsQueue /\ expired'
    BY DEF Clean
  <1> QED
    BY <1>1, <1>2 DEF StoreInv, StoreType, StoreBounded, NoStaleEntries

-----------------------------------------------------------------------------
(* Types of the rest *)

LEMMA AnswerType ==
  ASSUME TypeOK, NEW c \in Call, Answer(c)
  PROVE  replies' \subseteq Reply
PROOF
  <1> DEFINE rep == [request |-> c.request, method |-> c.method,
                     found |-> {sessions[s] : s \in {c.sid} \cap DOMAIN sessions}]
  <1>1. {sessions[s] : s \in {c.sid} \cap DOMAIN sessions} \subseteq Session
    BY DEF TypeOK
  <1>2. rep \in Reply
    BY <1>1 DEF Call, Reply
  <1>3. replies' = replies \/ replies' = replies \cup {rep}
    BY DEF Answer
  <1> QED
    BY <1>2, <1>3 DEF TypeOK

LEMMA HandleCallType ==
  ASSUME TypeOK, StoreInv, NEW w \in Worker, HandleCall(w)
  PROVE  TypeOK'
PROOF
  <1>1. toMaster[w] \in Seq(Call) /\ toMaster[w] # << >>
    BY DEF TypeOK, HandleCall
  <1>2. Head(toMaster[w]) \in Call /\ Tail(toMaster[w]) \in Seq(Call)
    BY <1>1, HeadTailProperties
  <1>3. toMaster' \in [Worker -> Seq(Call)]
    BY <1>2 DEF TypeOK, HandleCall
  <1>4. replies' \subseteq Reply
    BY <1>2, AnswerType DEF HandleCall
  <1>5. StoreType'
    BY HandleCallStore DEF StoreInv
  <1> QED
    BY <1>3, <1>4, <1>5 DEF TypeOK, HandleCall, StoreType

\* The calls of a request are calls, whichever of them are made.
LEMMA SendCallsType ==
  ASSUME TypeOK, NEW r \in Request, NEW q, q.worker \in Worker,
         q.sid \in Sid, q.session \in Session,
         NEW methods \in Seq(Method), SendCalls(r, q, methods)
  PROVE  toMaster' \in [Worker -> Seq(Call)]
PROOF
  <1> DEFINE calls == [i \in DOMAIN methods |->
                         [request |-> r, method |-> methods[i],
                          sid |-> q.sid, session |-> q.session]]
             v == q.worker
             sent == toMaster[v] \o calls
  <1>1. /\ DOMAIN methods = 1 .. Len(methods) /\ Len(methods) \in Nat
        /\ \A i \in DOMAIN methods : methods[i] \in Method
    BY ElementOfSeq
  <1>2. \A i \in DOMAIN methods :
          [request |-> r, method |-> methods[i], sid |-> q.sid,
           session |-> q.session] \in Call
    BY <1>1 DEF Call
  <1>3. calls \in [1 .. Len(methods) -> Call]
    BY <1>1, <1>2
  <1>4. calls \in Seq(Call)
    BY <1>1, <1>3, SeqDef
  <1>5. toMaster[v] \in Seq(Call)
    BY DEF TypeOK
  <1> HIDE DEF calls
  <1>6. sent \in Seq(Call)
    BY <1>4, <1>5, ConcatProperties
  <1>7. toMaster' = [toMaster EXCEPT ![v] = sent]
    BY DEF SendCalls, calls
  <1> HIDE DEF sent
  <1> QED
    BY <1>6, <1>7 DEF TypeOK

RequestState == [phase : Phase, worker : Worker, sid : Sid, isNew : BOOLEAN,
                 session : Session, awaits : Method]

LEMMA RequestType ==
  ASSUME TypeOK, NEW r \in Request
  PROVE  req[r] \in RequestState
PROOF
  BY DEF TypeOK, RequestState

LEMMA MethodsType ==
  /\ <<"get">> \in Seq(Method) /\ <<"set">> \in Seq(Method)
  /\ <<"destroy">> \in Seq(Method)
  /\ <<"set", "touch">> \in Seq(Method)
  /\ <<"destroy", "set">> \in Seq(Method)
  /\ <<"clear", "set">> \in Seq(Method)
  /\ Last(<<"set">>) \in Method /\ Last(<<"set", "touch">>) \in Method
  /\ Last(<<"destroy", "set">>) \in Method
  /\ Last(<<"clear", "set">>) \in Method
PROOF
  BY DEF Method, Last

LEMMA ArriveType ==
  ASSUME TypeOK, NEW r \in Request, NEW w \in Worker, NEW s \in Sid,
         Arrive(r, w, s)
  PROVE  TypeOK'
PROOF
  <1> DEFINE q == [req[r] EXCEPT !.phase = "waiting", !.worker = w, !.sid = s,
                                 !.awaits = "get"]
  <1>1. /\ q \in RequestState
        /\ q.worker = w /\ q.sid = s /\ q.session \in Session
    BY RequestType DEF RequestState, Phase, Method
  <1>2. req' = [req EXCEPT ![r] = q] /\ SendCalls(r, q, <<"get">>)
    BY DEF Arrive
  <1> HIDE DEF q
  <1>3. toMaster' \in [Worker -> Seq(Call)]
    BY <1>1, <1>2, SendCallsType, MethodsType
  <1>4. req' \in [Request -> RequestState]
    BY <1>1, <1>2 DEF TypeOK, RequestState
  <1>5. overlapped' \in SUBSET Sid
    BY DEF Arrive, NoteUse, TypeOK
  <1> QED
    BY <1>3, <1>4, <1>5 DEF TypeOK, Arrive, RequestState

LEMMA GenerateType ==
  ASSUME TypeOK, NEW r \in Request, NEW w \in Worker, NEW s \in Sid,
         Generate(r, w, s)
  PROVE  req' \in [Request -> RequestState] /\ used' \subseteq Sid
PROOF
  <1> DEFINE q == [phase |-> "serving", worker |-> w, sid |-> s,
                   isNew |-> TRUE,
                   session |-> [version |-> 0, lastTouch |-> Untouched],
                   awaits |-> "get"]
  <1>1. q \in RequestState
    BY DEF RequestState, Phase, Method, Session, Untouched
  <1>2. req' = [req EXCEPT ![r] = q] /\ used' = used \cup {s}
    BY DEF Generate
  <1> HIDE DEF q
  <1> QED
    BY <1>1, <1>2 DEF TypeOK, RequestState

LEMMA LoadedType ==
  ASSUME TypeOK, NEW r \in Request, NEW rep \in replies, Loaded(r, rep)
  PROVE  TypeOK'
PROOF
  <1>1. rep \in Reply /\ req[r] \in RequestState
    BY RequestType DEF TypeOK
  <1>2. req' \in [Request -> RequestState] /\ used' \subseteq Sid
    <2>1. CASE /\ rep.method = "get" /\ rep.found # {}
               /\ \E session \in rep.found :
                    req' = [req EXCEPT
                       ![r].phase = "serving", ![r].isNew = FALSE,
                       ![r].session = [session EXCEPT !.lastTouch = now]]
               /\ UNCHANGED used
      <3>1. PICK session \in rep.found :
                    req' = [req EXCEPT
                       ![r].phase = "serving", ![r].isNew = FALSE,
                       ![r].session = [session EXCEPT !.lastTouch = now]]
        BY <2>1
      <3>2. [session EXCEPT !.lastTouch = now] \in Session
        BY <1>1 DEF Reply, Session, TypeOK
      <3>3. [req[r] EXCEPT !.phase = "serving", !.isNew = FALSE,
               !.session = [session EXCEPT !.lastTouch = now]] \in RequestState
        BY <1>1, <3>2 DEF RequestState, Phase
      <3>4. req' = [req EXCEPT ![r] =
                      [req[r] EXCEPT !.phase = "serving", !.isNew = FALSE,
                         !.session = [session EXCEPT !.lastTouch = now]]]
        BY <3>1
      <3> QED
        BY <2>1, <3>3, <3>4 DEF TypeOK, RequestState
    <2>2. CASE \E s \in Sid : Generate(r, req[r].worker, s)
      BY <1>1, <2>2, GenerateType DEF RequestState
    <2> QED
      BY <2>1, <2>2 DEF Loaded
  <1> QED
    BY <1>2 DEF TypeOK, Loaded, TakeReply, RequestState

LEMMA FinishType ==
  ASSUME TypeOK, NEW r \in Request, NEW modified \in BOOLEAN,
         NEW methods \in Seq(Method), Last(methods) \in Method,
         Finish(r, modified, methods)
  PROVE  /\ toMaster' \in [Worker -> Seq(Call)]
         /\ req' \in [Request -> RequestState]
         /\ writes' \in Nat /\ answered' = answered
PROOF
  <1> DEFINE q == Written(r, modified)
  <1>1. req[r] \in RequestState /\ writes \in Nat
    BY RequestType DEF TypeOK
  <1>2. q \in RequestState
    <2> DEFINE v == IF modified THEN writes + 1 ELSE req[r].session.version
    <2>1. v \in Nat
      BY <1>1 DEF RequestState, Session
    <2>2. q = [req[r] EXCEPT !.phase = "waiting",
                             !.session = [req[r].session EXCEPT !.version = v]]
      BY <1>1 DEF Written, RequestState
    <2> HIDE DEF v, q
    <2>3. [req[r].session EXCEPT !.version = v] \in Session
      BY <1>1, <2>1 DEF RequestState, Session
    <2> QED
      BY <1>1, <2>2, <2>3 DEF RequestState, Phase
  <1>3. /\ SendCalls(r, q, methods)
        /\ req' = [req EXCEPT ![r] = [q EXCEPT !.awaits = Last(methods)]]
    BY DEF Finish
  <1>4. writes' \in Nat /\ answered' = answered
    BY <1>1 DEF Finish
  <1> HIDE DEF q
  <1>5. [q EXCEPT !.awaits = Last(methods)] \in RequestState
    BY <1>2 DEF RequestState
  <1>6. q.worker \in Worker /\ q.sid \in Sid /\ q.session \in Session
    BY <1>2 DEF RequestState
  <1>7. toMaster' \in [Worker -> Seq(Call)]
    BY <1>3, <1>6, SendCallsType
  <1> QED
    BY <1>3, <1>4, <1>5, <1>7 DEF TypeOK, RequestState

LEMMA EndType ==
  ASSUME TypeOK, NEW r \in Request, End(r)
  PROVE  TypeOK'
PROOF
  <1>1. \E modified \in BOOLEAN, methods \in Seq(Method) :
          Last(methods) \in Method /\ Finish(r, modified, methods)
    BY MethodsType DEF End
  <1>2. /\ toMaster' \in [Worker -> Seq(Call)]
        /\ req' \in [Request -> RequestState]
        /\ writes' \in Nat /\ answered' = answered
    BY <1>1, FinishType
  <1> QED
    BY <1>2 DEF End, TypeOK, RequestState

LEMMA RegenerateType ==
  ASSUME TypeOK, NEW r \in Request, Regenerate(r)
  PROVE  TypeOK'
PROOF
  <1>1. req[r] \in RequestState
    BY RequestType
  <1>2. toMaster' \in [Worker -> Seq(Call)]
    BY <1>1, SendCallsType, MethodsType DEF Regenerate, RequestState
  <1>3. [req[r] EXCEPT !.phase = "waiting", !.awaits = "destroy"]
          \in RequestState
    BY <1>1 DEF RequestState, Phase, Method
  <1>4. req' = [req EXCEPT ![r] =
                  [req[r] EXCEPT !.phase = "waiting", !.awaits = "destroy"]]
    BY DEF Regenerate
  <1> QED
    BY <1>2, <1>3, <1>4 DEF Regenerate, TypeOK, RequestState

\* The steps that only move a request to another phase.
LEMMA PhaseType ==
  ASSUME TypeOK, NEW r \in Request, NEW p \in Phase,
         req' = [req EXCEPT ![r].phase = p]
  PROVE  req' \in [Request -> RequestState]
PROOF
  <1>1. [req[r] EXCEPT !.phase = p] \in RequestState
    BY RequestType DEF RequestState
  <1>2. req' = [req EXCEPT ![r] = [req[r] EXCEPT !.phase = p]]
    OBVIOUS
  <1> QED
    BY <1>1, <1>2 DEF TypeOK, RequestState

LEMMA RespondType ==
  ASSUME TypeOK, NEW r \in Request, NEW rep \in replies, Respond(r, rep)
  PROVE  TypeOK'
PROOF
  <1>1. req' \in [Request -> RequestState]
    BY PhaseType DEF Respond, Phase
  <1>2. req[r] \in RequestState
    BY RequestType
  <1>3. answered' \in [Sid -> Nat]
    BY <1>2 DEF Respond, TypeOK, RequestState, Session
  <1> QED
    BY <1>1, <1>3 DEF Respond, TakeReply, TypeOK, RequestState

LEMMA CrashType ==
  ASSUME TypeOK, NEW w \in Worker, Crash(w)
  PROVE  TypeOK'
PROOF
  <1>1. \A r \in Request : [req[r] EXCEPT !.phase = "lost"] \in RequestState
    BY RequestType DEF RequestState, Phase
  <1>2. \A r \in Request : req[r] \in RequestState
    BY RequestType
  <1>3. req' = [r \in Request |->
               IF Active(r) /\ req[r].worker = w
               THEN [req[r] EXCEPT !.phase = "lost"] ELSE req[r]]
    BY DEF Crash
  <1>4. req' \in [Request -> RequestState]
    BY <1>1, <1>2, <1>3
  <1> QED
    BY <1>4 DEF Crash, TypeOK, RequestState

-----------------------------------------------------------------------------
(* The inductive invariant *)

IInv == TypeOK /\ StoreInv

LEMMA InitIInv == Init => IInv
PROOF
  <1> SUFFICES ASSUME Init PROVE IInv
    OBVIOUS
  <1>1. PICK w \in Worker, s \in Sid :
           req = [r \in Request |->
                [phase |-> "idle", worker |-> w, sid |-> s, isNew |-> FALSE,
                 session |-> [version |-> 0, lastTouch |-> Untouched],
                 awaits |-> "get"]]
    BY DEF Init
  <1>2. [phase |-> "idle", worker |-> w, sid |-> s, isNew |-> FALSE,
         session |-> [version |-> 0, lastTouch |-> Untouched],
         awaits |-> "get"] \in RequestState
    BY DEF RequestState, Phase, Method, Session, Untouched
  <1>3. req \in [Request -> RequestState]
    BY <1>1, <1>2
  <1>4. toMaster \in [Worker -> Seq(Call)]
    BY DEF Init
  <1>5. StoreInv
    BY EmptyQueue, SessionStoreAssumption
       DEF Init, StoreInv, StoreType, StoreBounded, NoStaleEntries
  <1> QED
    BY <1>3, <1>4, <1>5
       DEF Init, IInv, StoreInv, StoreType, TypeOK, RequestState

\* Every step but a call's handling and the cleaner's leaves the store alone.
LEMMA StepIInv == IInv /\ [Next]_vars => IInv'
PROOF
  <1> SUFFICES ASSUME TypeOK, StoreInv, [Next]_vars PROVE IInv'
    BY DEF IInv
  <1>1. ASSUME UNCHANGED <<sessions, sessionsQueue, expired>>
        PROVE  StoreInv'
    BY <1>1 DEF StoreInv, StoreType, StoreBounded, NoStaleEntries
  <1>2. ASSUME NEW w \in Worker, HandleCall(w) PROVE IInv'
    BY <1>2, HandleCallStore, HandleCallType DEF IInv
  <1>3. ASSUME NEW w \in Worker, Crash(w) PROVE IInv'
    BY <1>1, <1>3, CrashType DEF IInv, Crash
  <1>4. CASE Clean
    <2>1. StoreInv'
      BY <1>4, CleanStore
    <2>2. expired' \in BOOLEAN /\ UNCHANGED
            <<now, toMaster, replies, req, used, writes, timeouts, crashes,
              answered, overlapped>>
      BY <1>4 DEF Clean
    <2> QED
      BY <2>1, <2>2 DEF IInv, TypeOK, StoreInv, StoreType
  <1>5. CASE Tick
    <2>1. now' \in Nat
      BY <1>5 DEF Tick, TypeOK
    <2> QED
      BY <1>1, <1>5, <2>1 DEF IInv, TypeOK, Tick
  <1>6. ASSUME NEW r \in Request, End(r) PROVE IInv'
    BY <1>1, <1>6, EndType DEF IInv, End
  <1>7. ASSUME NEW r \in Request, EndUnsaved(r) PROVE IInv'
    <2>1. req' \in [Request -> RequestState]
      BY <1>7, PhaseType DEF EndUnsaved, Phase
    <2> QED
      BY <1>1, <1>7, <2>1 DEF IInv, TypeOK, EndUnsaved, RequestState
  <1>8. ASSUME NEW r \in Request, Regenerate(r) PROVE IInv'
    BY <1>1, <1>8, RegenerateType DEF IInv, Regenerate
  <1>9. ASSUME NEW r \in Request, NEW rep \in replies, Loaded(r, rep)
        PROVE  IInv'
    BY <1>1, <1>9, LoadedType DEF IInv, Loaded
  <1>10. ASSUME NEW r \in Request, NEW rep \in replies, Respond(r, rep)
         PROVE  IInv'
    BY <1>1, <1>10, RespondType DEF IInv, Respond
  <1>11. ASSUME NEW r \in Request, Timeout(r) PROVE IInv'
    <2>1. req' \in [Request -> RequestState]
      BY <1>11, PhaseType DEF Timeout, Phase
    <2>2. timeouts' \in Nat
      BY <1>11 DEF Timeout, TypeOK
    <2> QED
      BY <1>1, <1>11, <2>1, <2>2 DEF IInv, TypeOK, Timeout, RequestState
  <1>12. ASSUME NEW r \in Request, NEW w \in Worker, NEW s \in Sid,
                Arrive(r, w, s)
         PROVE  IInv'
    BY <1>1, <1>12, ArriveType DEF IInv, Arrive
  <1>13. ASSUME NEW r \in Request, NEW w \in Worker, NEW s \in Sid,
                ArriveWithoutCookie(r, w, s)
         PROVE  IInv'
    <2>1. req' \in [Request -> RequestState] /\ used' \subseteq Sid
      BY <1>13, GenerateType DEF ArriveWithoutCookie
    <2> QED
      BY <1>1, <1>13, <2>1 DEF IInv, TypeOK, ArriveWithoutCookie, RequestState
  <1>14. CASE UNCHANGED vars
    BY <1>1, <1>14 DEF IInv, TypeOK, vars
  <1> QED
    BY <1>2, <1>3, <1>4, <1>5, <1>6, <1>7, <1>8, <1>9, <1>10, <1>11, <1>12,
       <1>13, <1>14 DEF Next, WorkerStep

THEOREM Invariance == Spec => []IInv
PROOF
  BY InitIInv, StepIInv, PTL DEF Spec

-----------------------------------------------------------------------------
(* Answered writes *)

\* The calls on their way to the master, and those that write a session.
Pending == UNION {ToSet(toMaster[w]) : w \in Worker}
Writing == {"set", "touch"}

\* Request r works on s, or one of its calls about s is still to be handled.
Mentions(r, s) ==
  \/ Active(r) /\ req[r].sid = s
  \/ \E c \in Pending : c.request = r /\ c.sid = s

\* Until something overlaps, one request at a time has to do with a session.
OneUser ==
  \A s \in Sid \ overlapped : \A x, y \in Request :
    Mentions(x, s) /\ Mentions(y, s) => x = y

\* What is being worked on has been handed out, and nothing was answered about
\* an id that has not.
HandedOut ==
  /\ \A c \in Pending : c.sid \in used
  /\ \A r \in Request : Active(r) => req[r].sid \in used
  /\ \A s \in Sid \ used : answered[s] = 0

\* No version is younger than the last write.
Numbered ==
  /\ \A s \in DOMAIN sessions : sessions[s].version <= writes
  /\ \A c \in Pending : c.session.version <= writes
  /\ \A rep \in replies : \A x \in rep.found : x.version <= writes
  /\ \A r \in Request : req[r].session.version <= writes
  /\ \A s \in Sid : answered[s] <= writes

\* Nothing of a request is under way before it arrives, it writes only at its
\* end, and then what it has in hand; what it is waiting for is its session's.
Loading(r) == req[r].phase = "waiting" /\ req[r].awaits \in {"get", "destroy"}
Getting(r) == req[r].phase = "waiting" /\ req[r].awaits = "get"
Ending(r) == req[r].phase = "waiting" /\ req[r].awaits \in Writing
InTurn ==
  \A r \in Request :
    /\ req[r].phase = "idle" => /\ \A c \in Pending : c.request # r
                                /\ \A rep \in replies : rep.request # r
    /\ req[r].phase = "serving" \/ Loading(r) =>
         /\ \A c \in Pending : c.request = r => c.method \notin Writing
         /\ \A rep \in replies : rep.request = r => rep.method \notin Writing
    /\ Getting(r) => \A c \in Pending : c.request = r /\ c.method = "get" => c.sid = req[r].sid
    /\ Ending(r) => \A c \in Pending :
         c.request = r /\ c.method \in Writing =>
           c.sid = req[r].sid /\ c.session.version = req[r].session.version

\* Every copy of a session that no two requests worked on at a time, wherever
\* it is, is at least as young as the last answered write; and the store has
\* what the request is about to be answered for.
Copies ==
  /\ \A s \in DOMAIN sessions \ overlapped : sessions[s].version >= answered[s]
  /\ \A c \in Pending : c.method \in Writing /\ c.sid \notin overlapped =>
       c.session.version >= answered[c.sid]
  /\ \A r \in Request : req[r].sid \notin overlapped =>
       /\ req[r].phase = "serving" \/ Ending(r) =>
            req[r].session.version >= answered[req[r].sid]
       /\ Getting(r) => \A rep \in replies : rep.request = r /\ rep.method = "get" =>
            \A x \in rep.found : x.version >= answered[req[r].sid]
       /\ Ending(r) /\ req[r].sid \in DOMAIN sessions =>
            \A rep \in replies : rep.request = r /\ rep.method = req[r].awaits =>
              sessions[req[r].sid].version >= req[r].session.version

KeptInv == OneUser /\ HandedOut /\ Numbered /\ InTurn /\ Copies

-----------------------------------------------------------------------------
(* Calls on their way *)

\* Sending adds the calls of one request.
LEMMA SendCallsAdds ==
  ASSUME TypeOK, NEW r \in Request, NEW q, q.worker \in Worker,
         NEW methods \in Seq(Method), SendCalls(r, q, methods)
  PROVE  \A c \in Pending' :
           \/ c \in Pending
           \/ /\ c.request = r /\ c.sid = q.sid /\ c.session = q.session
              /\ \E i \in DOMAIN methods : c.method = methods[i]
PROOF
  <1> DEFINE calls == [i \in DOMAIN methods |->
                         [request |-> r, method |-> methods[i],
                          sid |-> q.sid, session |-> q.session]]
  <1> TAKE c \in Pending'
  <1>1. PICK w \in Worker : c \in ToSet(toMaster'[w])
    BY DEF Pending
  <1>2. PICK i \in DOMAIN toMaster'[w] : c = toMaster'[w][i]
    BY <1>1 DEF ToSet
  <1>3. toMaster' = [toMaster EXCEPT ![q.worker] = toMaster[q.worker] \o calls]
    BY DEF SendCalls
  <1>4. toMaster[w] \in Seq(Call) /\ toMaster \in [Worker -> Seq(Call)]
    BY DEF TypeOK
  <1>5. CASE w # q.worker
    <2>1. toMaster'[w] = toMaster[w]
      BY <1>3, <1>4, <1>5
    <2> QED
      BY <1>1, <2>1 DEF Pending
  <1>6. CASE w = q.worker
    <2>1. toMaster'[w] = toMaster[w] \o calls
      BY <1>3, <1>4, <1>6
    <2>2. DOMAIN methods = 1 .. Len(methods) /\ Len(methods) \in Nat
      BY ElementOfSeq
    <2>3. /\ DOMAIN calls = 1 .. Len(methods)
          /\ \A j \in DOMAIN methods :
               calls[j] = [request |-> r, method |-> methods[j], sid |-> q.sid,
                           session |-> q.session]
      BY <2>2
    <2> DEFINE T == Call \cup {calls[j] : j \in DOMAIN methods}
    <2>4. calls \in Seq(T) /\ toMaster[w] \in Seq(T)
      <3>1. calls \in [1 .. Len(methods) -> T]
        BY <2>2, <2>3
      <3>2. toMaster[w] \in [1 .. Len(toMaster[w]) -> T] /\ Len(toMaster[w]) \in Nat
        BY <1>4
      <3> HIDE DEF T, calls
      <3>3. calls \in Seq(T)
        BY <2>2, <3>1, SeqDef
      <3>4. toMaster[w] \in Seq(T)
        BY <3>2, SeqDef
      <3> QED
        BY <3>3, <3>4
    <2> HIDE DEF T
    <2> HIDE DEF calls
    <2>5. Len(calls) = Len(methods)
      BY <2>2, <2>3, <2>4
    <2>6. /\ Len(toMaster[w]) \in Nat /\ DOMAIN toMaster[w] = 1 .. Len(toMaster[w])
          /\ DOMAIN (toMaster[w] \o calls) = 1 .. Len(toMaster[w]) + Len(methods)
          /\ \A j \in 1 .. Len(toMaster[w]) : (toMaster[w] \o calls)[j] = toMaster[w][j]
          /\ \A j \in 1 .. Len(methods) :
               (toMaster[w] \o calls)[Len(toMaster[w]) + j] = calls[j]
      <3> DEFINE a == toMaster[w]
      <3>1. a \in Seq(T) /\ calls \in Seq(T) /\ Len(calls) = Len(methods)
            /\ Len(methods) \in Nat
        BY <2>2, <2>4, <2>5
      <3> HIDE DEF a
      <3>2. Len(a) \in Nat /\ DOMAIN a = 1 .. Len(a)
        BY <3>1
      <3>3. DOMAIN (a \o calls) = 1 .. Len(a) + Len(methods)
        BY <3>1, <3>2
      <3>4. \A j \in 1 .. Len(a) : (a \o calls)[j] = a[j]
        BY <3>1, <3>2
      <3>5. \A j \in 1 .. Len(methods) : (a \o calls)[Len(a) + j] = calls[j]
        BY <3>1, <3>2
      <3> QED
        BY <3>2, <3>3, <3>4, <3>5 DEF a
    <2>7. CASE i \in 1 .. Len(toMaster[w])
      <3>1. c = toMaster[w][i]
        BY <1>2, <2>1, <2>6, <2>7
      <3> QED
        BY <2>6, <2>7, <3>1 DEF Pending, ToSet
    <2>8. CASE i \notin 1 .. Len(toMaster[w])
      <3>1. i \in 1 .. Len(toMaster[w]) + Len(methods)
        BY <1>2, <2>1, <2>6
      <3>2. i - Len(toMaster[w]) \in 1 .. Len(methods)
        BY <2>2, <2>6, <2>8, <3>1
      <3>3. c = calls[i - Len(toMaster[w])]
        <4>1. i = Len(toMaster[w]) + (i - Len(toMaster[w]))
          BY <2>6, <3>1
        <4> QED
          BY <1>2, <2>1, <2>6, <3>2, <4>1
      <3> QED
        BY <2>2, <2>3, <3>2, <3>3
    <2> QED
      BY <2>7, <2>8
  <1> QED
    BY <1>5, <1>6

\* Every pending call is one.
LEMMA PendingType ==
  ASSUME TypeOK, NEW c \in Pending
  PROVE  c \in Call
PROOF
  <1>1. PICK w \in Worker : c \in ToSet(toMaster[w])
    BY DEF Pending
  <1>2. toMaster[w] \in Seq(Call)
    BY DEF TypeOK
  <1> QED
    BY <1>1, <1>2, ElementOfSeq DEF ToSet

\* Handling takes a call out of the pipe, writes only the session it is about
\* and answers only what its request waits for.
LEMMA HandleCallFacts ==
  ASSUME TypeOK, NEW w \in Worker, HandleCall(w)
  PROVE  \E c \in Pending :
           /\ \A d \in Pending' : d \in Pending
           /\ \A s \in DOMAIN sessions' :
                \/ /\ s \in DOMAIN sessions /\ sessions'[s] = sessions[s]
                   /\ ~(s = c.sid /\ c.method \in Writing)
                \/ /\ s = c.sid /\ c.method \in Writing
                   /\ sessions'[s].version = c.session.version
           /\ \A rep \in replies' :
                \/ rep \in replies
                \/ /\ Awaited(c) /\ rep.request = c.request /\ rep.method = c.method
                   /\ rep.found = {sessions[s] : s \in {c.sid} \cap DOMAIN sessions}
PROOF
  <1> DEFINE c == Head(toMaster[w])
  <1>1. toMaster[w] \in Seq(Call) /\ toMaster[w] # << >>
    BY DEF TypeOK, HandleCall
  <1>2. /\ Len(toMaster[w]) \in Nat \ {0} /\ c = toMaster[w][1] /\ c \in Call
        /\ Tail(toMaster[w]) \in Seq(Call) /\ Len(Tail(toMaster[w])) = Len(toMaster[w]) - 1
        /\ \A i \in 1 .. Len(Tail(toMaster[w])) : Tail(toMaster[w])[i] = toMaster[w][i + 1]
    BY <1>1, HeadTailProperties, EmptySeq, LenProperties
  <1>3. c \in Pending
    <2>1. 1 \in DOMAIN toMaster[w]
      BY <1>1, <1>2
    <2> QED
      BY <1>2, <2>1 DEF Pending, ToSet
  <1>4. \A d \in Pending' : d \in Pending
    <2> TAKE d \in Pending'
    <2>1. PICK v \in Worker : d \in ToSet(toMaster'[v])
      BY DEF Pending
    <2>2. toMaster' = [toMaster EXCEPT ![w] = Tail(toMaster[w])]
      BY DEF HandleCall
    <2>3. CASE v # w
      <3>1. toMaster'[v] = toMaster[v]
        BY <2>2, <2>3 DEF TypeOK
      <3> QED
        BY <2>1, <3>1 DEF Pending
    <2>4. CASE v = w
      <3>1. toMaster'[v] = Tail(toMaster[w])
        BY <2>2, <2>4 DEF TypeOK
      <3>2. PICK i \in 1 .. Len(Tail(toMaster[w])) : d = Tail(toMaster[w])[i]
        BY <1>2, <2>1, <3>1 DEF ToSet
      <3>3. d = toMaster[w][i + 1] /\ i + 1 \in DOMAIN toMaster[w]
        BY <1>1, <1>2, <3>2
      <3> QED
        BY <3>3 DEF Pending, ToSet
    <2> QED
      BY <2>3, <2>4
  <1>5. \A s \in DOMAIN sessions' :
                \/ /\ s \in DOMAIN sessions /\ sessions'[s] = sessions[s]
                   /\ ~(s = c.sid /\ c.method \in Writing)
                \/ /\ s = c.sid /\ c.method \in Writing
                   /\ sessions'[s].version = c.session.version
    <2> HIDE DEF c
    <2>1. /\ \/ c.method = "get" /\ UNCHANGED store
             \/ c.method = "set" /\ AddSession(c.sid, c.session)
             \/ /\ c.method = "touch"
                /\ AddSession(c.sid, [c.session EXCEPT !.lastTouch = now])
             \/ c.method = "destroy" /\ RemoveSid(c.sid)
             \/ c.method = "clear" /\ sessions' = << >> /\ sessionsQueue' = << >>
      BY DEF HandleCall, c
    <2>2. c.session \in Session
      BY <1>2 DEF Call
    <2>3. ASSUME NEW x, AddSession(c.sid, x), x.version = c.session.version
          PROVE  \A s \in DOMAIN sessions' :
                   IF s = c.sid THEN sessions'[s].version = c.session.version
                   ELSE s \in DOMAIN sessions /\ sessions'[s] = sessions[s]
      <3>1. CASE c.sid \in DOMAIN sessions
        BY <2>3, <3>1 DEF AddSession
      <3>2. CASE c.sid \notin DOMAIN sessions
        BY <2>3, <3>2 DEF AddSession, Push
      <3> QED
        BY <3>1, <3>2
    <2>4. CASE c.method = "get" /\ UNCHANGED store
      BY <2>4 DEF store, Writing
    <2>5. CASE c.method = "set" /\ AddSession(c.sid, c.session)
      BY <2>3, <2>5 DEF Writing
    <2>6. CASE /\ c.method = "touch"
               /\ AddSession(c.sid, [c.session EXCEPT !.lastTouch = now])
      <3>1. [c.session EXCEPT !.lastTouch = now].version = c.session.version
        BY <2>2 DEF Session
      <3> QED
        BY <2>3, <2>6, <3>1 DEF Writing
    <2>7. CASE c.method = "destroy" /\ RemoveSid(c.sid)
      BY <2>7 DEF RemoveSid, Restrict, store, Writing
    <2>8. CASE c.method = "clear" /\ sessions' = << >>
      BY <2>8
    <2> QED
      BY <2>1, <2>4, <2>5, <2>6, <2>7, <2>8
  <1>6. \A rep \in replies' :
                \/ rep \in replies
                \/ /\ Awaited(c) /\ rep.request = c.request /\ rep.method = c.method
                   /\ rep.found = {sessions[s] : s \in {c.sid} \cap DOMAIN sessions}
    <2>1. Answer(c)
      BY DEF HandleCall
    <2> HIDE DEF c
    <2> QED
      BY <2>1 DEF Answer
  <1> HIDE DEF c
  <1> QED
    BY <1>3, <1>4, <1>5, <1>6

-----------------------------------------------------------------------------
(* Answered writes, action by action *)

LEMMA HandleCallKept ==
  ASSUME TypeOK, KeptInv, NEW w \in Worker, HandleCall(w)
  PROVE  KeptInv'
PROOF
  <1>1. /\ req' = req /\ used' = used /\ writes' = writes
        /\ answered' = answered /\ overlapped' = overlapped
    BY DEF HandleCall
  <1>2. PICK c \in Pending :
           /\ \A d \in Pending' : d \in Pending
           /\ \A s \in DOMAIN sessions' :
                \/ /\ s \in DOMAIN sessions /\ sessions'[s] = sessions[s]
                   /\ ~(s = c.sid /\ c.method \in Writing)
                \/ /\ s = c.sid /\ c.method \in Writing
                   /\ sessions'[s].version = c.session.version
           /\ \A rep \in replies' :
                \/ rep \in replies
                \/ /\ Awaited(c) /\ rep.request = c.request /\ rep.method = c.method
                   /\ rep.found = {sessions[s] : s \in {c.sid} \cap DOMAIN sessions}
    BY HandleCallFacts
  <1>3. c \in Call /\ c.request \in Request /\ c.sid \in Sid /\ c.session \in Session
    BY PendingType DEF Call
  <1>4. OneUser'
    BY <1>1, <1>2 DEF KeptInv, OneUser, Mentions, Active
  <1>5. HandedOut'
    BY <1>1, <1>2 DEF KeptInv, HandedOut, Active
  <1>6. Numbered'
    <2>1. \A s \in DOMAIN sessions' : sessions'[s].version <= writes
      BY <1>2 DEF KeptInv, Numbered
    <2>2. \A rep \in replies' : \A x \in rep.found : x.version <= writes
      BY <1>2 DEF KeptInv, Numbered
    <2> QED
      BY <1>1, <1>2, <2>1, <2>2 DEF KeptInv, Numbered
  <1>7. InTurn'
    <2> SUFFICES ASSUME NEW r \in Request
                 PROVE
      /\ req[r].phase = "idle" => /\ \A d \in Pending' : d.request # r
                                  /\ \A rep \in replies' : rep.request # r
      /\ req[r].phase = "serving" \/ Loading(r) =>
           /\ \A d \in Pending' : d.request = r => d.method \notin Writing
           /\ \A rep \in replies' : rep.request = r => rep.method \notin Writing
      /\ Getting(r) => \A d \in Pending' : d.request = r /\ d.method = "get" => d.sid = req[r].sid
      /\ Ending(r) => \A d \in Pending' :
           d.request = r /\ d.method \in Writing =>
             d.sid = req[r].sid /\ d.session.version = req[r].session.version
      BY <1>1 DEF InTurn, Loading, Getting, Ending, Writing
    <2>1. InTurn
      BY DEF KeptInv
    <2> QED
      BY <1>2, <2>1 DEF InTurn
  <1>8. Copies'
    <2>1. Copies /\ InTurn /\ OneUser
      BY DEF KeptInv
    <2>2. \A s \in DOMAIN sessions' \ overlapped : sessions'[s].version >= answered[s]
      BY <1>2, <2>1 DEF Copies
    <2>3. \A d \in Pending' : d.method \in Writing /\ d.sid \notin overlapped =>
            d.session.version >= answered[d.sid]
      BY <1>2, <2>1 DEF Copies
    <2> SUFFICES ASSUME NEW r \in Request, req[r].sid \notin overlapped
                 PROVE
       /\ req[r].phase = "serving" \/ Ending(r) =>
            req[r].session.version >= answered[req[r].sid]
       /\ Getting(r) => \A rep \in replies' : rep.request = r /\ rep.method = "get" =>
            \A x \in rep.found : x.version >= answered[req[r].sid]
       /\ Ending(r) /\ req[r].sid \in DOMAIN sessions' =>
            \A rep \in replies' : rep.request = r /\ rep.method = req[r].awaits =>
              sessions'[req[r].sid].version >= req[r].session.version
      BY <1>1, <2>2, <2>3 DEF Copies, Loading, Getting, Ending, Writing
    <2>4. req[r].phase = "serving" \/ Ending(r) =>
            req[r].session.version >= answered[req[r].sid]
      BY <2>1 DEF Copies
    <2>5. ASSUME Getting(r), NEW rep \in replies', rep.request = r, rep.method = "get",
                 NEW x \in rep.found
          PROVE  x.version >= answered[req[r].sid]
      <3>1. CASE rep \in replies
        BY <2>1, <2>5, <3>1 DEF Copies
      <3>2. CASE rep \notin replies
        <4>1. c.request = r /\ c.method = "get" /\ x = sessions[c.sid] /\ c.sid \in DOMAIN sessions
          BY <1>2, <2>5, <3>2
        <4>2. c.sid = req[r].sid
          BY <2>1, <2>5, <4>1 DEF InTurn
        <4> QED
          BY <2>1, <4>1, <4>2 DEF Copies
      <3> QED
        BY <3>1, <3>2
    <2>6. ASSUME Ending(r), req[r].sid \in DOMAIN sessions',
                 NEW rep \in replies', rep.request = r, rep.method = req[r].awaits
          PROVE  sessions'[req[r].sid].version >= req[r].session.version
      <3>1. req[r].session \in Session /\ req[r].sid \in Sid /\ Active(r)
            /\ req[r].awaits \in Writing
        BY <2>6 DEF TypeOK, Ending, Active
      <3>2. req[r].session.version \in Nat
        BY <3>1 DEF Session
      <3>3. CASE req[r].sid = c.sid /\ c.method \in Writing
        <4>1. Mentions(r, c.sid) /\ Mentions(c.request, c.sid)
          BY <3>1, <3>3 DEF Mentions
        <4>2. c.request = r
          BY <1>3, <2>1, <3>3, <4>1 DEF OneUser
        <4>3. c.session.version = req[r].session.version
          BY <2>1, <2>6, <3>3, <4>2 DEF InTurn
        <4> QED
          BY <1>2, <2>6, <3>2, <3>3, <4>3
      <3>4. CASE ~(req[r].sid = c.sid /\ c.method \in Writing)
        <4>1. req[r].sid \in DOMAIN sessions /\ sessions'[req[r].sid] = sessions[req[r].sid]
          BY <1>2, <2>6, <3>4
        <4>2. CASE rep \in replies
          BY <2>1, <2>6, <4>1, <4>2 DEF Copies
        <4>3. CASE rep \notin replies
          <5>1. c.request = r /\ c.method \in Writing
            BY <1>2, <2>6, <3>1, <4>3
          <5>2. c.sid = req[r].sid
            BY <2>1, <2>6, <5>1 DEF InTurn
          <5> QED
            BY <3>4, <5>1, <5>2
        <4> QED
          BY <4>2, <4>3
      <3> QED
        BY <3>3, <3>4
    <2> QED
      BY <2>4, <2>5, <2>6
  <1> QED
    BY <1>4, <1>5, <1>6, <1>7, <1>8 DEF KeptInv

LEMMA CleanKept ==
  ASSUME KeptInv, Clean
  PROVE  KeptInv'
PROOF
  <1>1. /\ req' = req /\ used' = used /\ writes' = writes /\ toMaster' = toMaster
        /\ answered' = answered /\ overlapped' = overlapped /\ replies' = replies
    BY DEF Clean
  <1>2. \A s \in DOMAIN sessions' : s \in DOMAIN sessions /\ sessions'[s] = sessions[s]
    BY DEF Clean, RestrictDomain, Restrict
  <1>3. Pending' = Pending
    BY <1>1 DEF Pending
  <1>4. OneUser' /\ HandedOut' /\ InTurn'
    BY <1>1, <1>3 DEF KeptInv, OneUser, HandedOut, InTurn, Mentions, Active, Loading, Getting, Ending
  <1>5. Numbered'
    BY <1>1, <1>2, <1>3 DEF KeptInv, Numbered
  <1>6. Copies'
    BY <1>1, <1>2, <1>3 DEF KeptInv, Copies, Loading, Getting, Ending
  <1> QED
    BY <1>4, <1>5, <1>6 DEF KeptInv

\* The steps after which some requests are out of the way: what is theirs
\* stays where it is.
LEMMA RetireKept ==
  ASSUME TypeOK, KeptInv,
         DOMAIN req' = Request,
         \A r \in Request : \/ req'[r] = req[r]
                            \/ /\ req'[r].phase \in {"answered", "hung", "lost"}
                               /\ req'[r].sid = req[r].sid
                               /\ req'[r].session = req[r].session,
         UNCHANGED <<sessions, toMaster, used, writes, answered, overlapped>>,
         replies' \subseteq replies
  PROVE  KeptInv'
PROOF
  <1>1. Pending' = Pending
    BY DEF Pending
  <1>2. \A r \in Request : Active(r)' => Active(r) /\ req'[r] = req[r]
    BY DEF Active
  <1>3. OneUser'
    <2>1. \A s : \A r \in Request : Mentions(r, s)' => Mentions(r, s)
      BY <1>1, <1>2 DEF Mentions
    <2> QED
      BY <2>1 DEF KeptInv, OneUser
  <1>4. HandedOut'
    BY <1>1, <1>2 DEF KeptInv, HandedOut
  <1>5. Numbered'
    BY <1>1 DEF KeptInv, Numbered
  <1>6. InTurn'
    BY <1>1 DEF KeptInv, InTurn, Loading, Getting, Ending
  <1>7. Copies'
    BY <1>1 DEF KeptInv, Copies, Loading, Getting, Ending
  <1> QED
    BY <1>3, <1>4, <1>5, <1>6, <1>7 DEF KeptInv

\* A request of a session that nothing else has to do with makes it its own;
\* otherwise the session is known to be overlapped.
LEMMA ArriveKept ==
  ASSUME TypeOK, KeptInv, NEW r \in Request, NEW w \in Worker, NEW s \in Sid,
         Arrive(r, w, s)
  PROVE  KeptInv'
PROOF
  <1> DEFINE q == [req[r] EXCEPT !.phase = "waiting", !.worker = w, !.sid = s,
                                 !.awaits = "get"]
  <1>1. /\ req' = [req EXCEPT ![r] = q] /\ SendCalls(r, q, <<"get">>)
        /\ overlapped' = IF InUse(r, s) THEN overlapped \cup {s} ELSE overlapped
        /\ UNCHANGED <<sessions, replies, used, writes, answered>>
        /\ req[r].phase = "idle" /\ s \in used
    BY DEF Arrive, NoteUse
  <1>2. /\ q.phase = "waiting" /\ q.worker = w /\ q.sid = s /\ q.awaits = "get"
        /\ q.session = req[r].session
    BY RequestType DEF RequestState
  <1> HIDE DEF q
  <1>3. /\ DOMAIN req' = Request /\ req'[r] = q
        /\ \A x \in Request \ {r} : req'[x] = req[x]
    BY <1>1 DEF TypeOK
  <1>4. \A c \in Pending' :
          \/ c \in Pending
          \/ c.request = r /\ c.sid = s /\ c.session = q.session /\ c.method = "get"
    <2>1. \A i \in DOMAIN <<"get">> : <<"get">>[i] = "get"
      OBVIOUS
    <2> QED
      BY <1>1, <1>2, <2>1, SendCallsAdds, MethodsType
  <1>5. /\ \A c \in Pending : c.request # r
        /\ \A rep \in replies : rep.request # r
    BY <1>1 DEF KeptInv, InTurn
  <1>6. \A t : \A x \in Request : Mentions(x, t)' => Mentions(x, t) \/ (x = r /\ t = s)
    <2> TAKE t
    <2> TAKE x \in Request
    <2>1. CASE x = r
      BY <1>2, <1>3, <1>4, <1>5, <2>1 DEF Mentions, Active
    <2>2. CASE x # r
      BY <1>3, <1>4, <2>2 DEF Mentions, Active
    <2> QED
      BY <2>1, <2>2
  <1>7. ~InUse(r, s) => \A x \in Request \ {r} : ~Mentions(x, s)
    <2> SUFFICES ASSUME NEW x \in Request \ {r}, Mentions(x, s) PROVE InUse(r, s)
      OBVIOUS
    <2>1. CASE Active(x) /\ req[x].sid = s
      BY <2>1 DEF InUse
    <2>2. CASE \E c \in Pending : c.request = x /\ c.sid = s
      <3>1. PICK c \in Pending : c.request = x /\ c.sid = s
        BY <2>2
      <3>2. PICK v \in Worker : c \in ToSet(toMaster[v])
        BY <3>1 DEF Pending
      <3>3. \E i \in DOMAIN toMaster[v] : toMaster[v][i] = c
        BY <3>2 DEF ToSet
      <3> QED
        BY <3>1, <3>3 DEF InUse
    <2> QED
      BY <2>1, <2>2 DEF Mentions
  <1>8. OneUser'
    <2> SUFFICES ASSUME NEW t \in Sid \ overlapped', NEW x \in Request, NEW y \in Request,
                        Mentions(x, t)', Mentions(y, t)'
                 PROVE  x = y
      BY DEF OneUser
    <2>1. t \notin overlapped /\ (t = s => ~InUse(r, s))
      BY <1>1
    <2>2. CASE t = s
      BY <1>6, <1>7, <2>1, <2>2
    <2>3. CASE t # s
      BY <1>6, <2>1, <2>3 DEF KeptInv, OneUser
    <2> QED
      BY <2>2, <2>3
  <1>9. HandedOut'
    BY <1>1, <1>2, <1>3, <1>4 DEF KeptInv, HandedOut, Active
  <1>10. Numbered'
    BY <1>1, <1>2, <1>3, <1>4 DEF KeptInv, Numbered
  <1>11. InTurn'
    <2> SUFFICES ASSUME NEW x \in Request
                 PROVE
      /\ req'[x].phase = "idle" => /\ \A d \in Pending' : d.request # x
                                  /\ \A rep \in replies : rep.request # x
      /\ req'[x].phase = "serving" \/ Loading(x)' =>
           /\ \A d \in Pending' : d.request = x => d.method \notin Writing
           /\ \A rep \in replies : rep.request = x => rep.method \notin Writing
      /\ Getting(x)' => \A d \in Pending' : d.request = x /\ d.method = "get" => d.sid = req'[x].sid
      /\ Ending(x)' => \A d \in Pending' :
           d.request = x /\ d.method \in Writing =>
             d.sid = req'[x].sid /\ d.session.version = req'[x].session.version
      BY <1>1 DEF InTurn, Writing
    <2>1. CASE x = r
      <3>1. /\ req'[x].phase = "waiting" /\ ~Ending(x)' /\ req'[x].sid = s
            /\ \A d \in Pending' : d.request = x => d.method = "get" /\ d.sid = s
        BY <1>2, <1>3, <1>4, <1>5, <2>1 DEF Ending, Writing
      <3> QED
        BY <1>5, <2>1, <3>1 DEF Writing
    <2>2. CASE x # r
      <3>1. \A d \in Pending' : d.request = x => d \in Pending
        BY <1>4, <2>2
      <3> QED
        BY <1>3, <2>2, <3>1 DEF KeptInv, InTurn, Loading, Getting, Ending
    <2> QED
      BY <2>1, <2>2
  <1>12. Copies'
    <2>1. Copies /\ overlapped \subseteq overlapped'
      BY <1>1 DEF KeptInv
    <2>2. \A d \in Pending' : d.method \in Writing /\ d.sid \notin overlapped' =>
            d.session.version >= answered[d.sid]
      BY <1>4, <2>1 DEF Copies, Writing
    <2> SUFFICES ASSUME NEW x \in Request, req'[x].sid \notin overlapped'
                 PROVE
       /\ req'[x].phase = "serving" \/ Ending(x)' =>
            req'[x].session.version >= answered[req'[x].sid]
       /\ Getting(x)' => \A rep \in replies : rep.request = x /\ rep.method = "get" =>
            \A z \in rep.found : z.version >= answered[req'[x].sid]
       /\ Ending(x)' /\ req'[x].sid \in DOMAIN sessions =>
            \A rep \in replies : rep.request = x /\ rep.method = req'[x].awaits =>
              sessions[req'[x].sid].version >= req'[x].session.version
      BY <1>1, <2>1, <2>2 DEF Copies, Writing
    <2>3. CASE x = r
      BY <1>2, <1>3, <1>5, <2>3 DEF Ending, Writing
    <2>4. CASE x # r
      BY <1>3, <2>1, <2>4 DEF Copies, Loading, Getting, Ending
    <2> QED
      BY <2>3, <2>4
  <1> QED
    BY <1>8, <1>9, <1>10, <1>11, <1>12 DEF KeptInv

\* A new session is nobody else's, and nothing was answered about it.
LEMMA GenerateKept ==
  ASSUME TypeOK, KeptInv, NEW r \in Request, NEW w \in Worker, NEW s \in Sid,
         Generate(r, w, s), replies' \subseteq replies,
         \/ req[r].phase = "idle" \/ Loading(r),
         UNCHANGED <<sessions, toMaster, writes, answered, overlapped>>
  PROVE  KeptInv'
PROOF
  <1> DEFINE q == [phase |-> "serving", worker |-> w, sid |-> s, isNew |-> TRUE,
                   session |-> [version |-> 0, lastTouch |-> Untouched],
                   awaits |-> "get"]
  <1>1. req' = [req EXCEPT ![r] = q] /\ used' = used \cup {s} /\ s \notin used
    BY DEF Generate
  <1>2. q.phase = "serving" /\ q.sid = s /\ q.session.version = 0
    OBVIOUS
  <1> HIDE DEF q
  <1>3. /\ DOMAIN req' = Request /\ req'[r] = q
        /\ \A x \in Request \ {r} : req'[x] = req[x]
    BY <1>1 DEF TypeOK
  <1>4. Pending' = Pending
    BY DEF Pending
  <1>5. \A x \in Request : ~Mentions(x, s)
    BY <1>1 DEF KeptInv, HandedOut, Mentions
  <1>6. \A t : \A x \in Request : Mentions(x, t)' => Mentions(x, t) \/ (x = r /\ t = s)
    <2> TAKE t
    <2> TAKE x \in Request
    <2>1. CASE x = r
      BY <1>2, <1>3, <1>4, <2>1 DEF Mentions, Active
    <2>2. CASE x # r
      BY <1>3, <1>4, <2>2 DEF Mentions, Active
    <2> QED
      BY <2>1, <2>2
  <1>7. OneUser'
    BY <1>5, <1>6 DEF KeptInv, OneUser
  <1>8. HandedOut'
    BY <1>1, <1>2, <1>3, <1>4 DEF KeptInv, HandedOut, Active
  <1>9. Numbered'
    <2>1. writes \in Nat
      BY DEF TypeOK
    <2>2. \A x \in Request : req'[x].session.version <= writes
      BY <1>2, <1>3, <2>1 DEF KeptInv, Numbered
    <2> QED
      BY <1>4, <2>2 DEF KeptInv, Numbered
  <1>10. InTurn'
    <2>1. InTurn
      BY DEF KeptInv
    <2> SUFFICES ASSUME NEW x \in Request
                 PROVE
      /\ req'[x].phase = "idle" => /\ \A d \in Pending : d.request # x
                                  /\ \A rep \in replies' : rep.request # x
      /\ req'[x].phase = "serving" \/ Loading(x)' =>
           /\ \A d \in Pending : d.request = x => d.method \notin Writing
           /\ \A rep \in replies' : rep.request = x => rep.method \notin Writing
      /\ Getting(x)' => \A d \in Pending : d.request = x /\ d.method = "get" => d.sid = req'[x].sid
      /\ Ending(x)' => \A d \in Pending :
           d.request = x /\ d.method \in Writing =>
             d.sid = req'[x].sid /\ d.session.version = req'[x].session.version
      BY <1>4 DEF InTurn, Writing
    <2>2. CASE x = r
      <3>1. req'[x].phase = "serving" /\ ~Loading(x)' /\ ~Getting(x)' /\ ~Ending(x)'
        BY <1>2, <1>3, <2>2 DEF Loading, Getting, Ending
      <3>2. /\ \A d \in Pending : d.request = x => d.method \notin Writing
            /\ \A rep \in replies' : rep.request = x => rep.method \notin Writing
        BY <2>1, <2>2 DEF InTurn
      <3> QED
        BY <3>1, <3>2
    <2>3. CASE x # r
      BY <1>3, <2>1, <2>3 DEF InTurn, Loading, Getting, Ending
    <2> QED
      BY <2>2, <2>3
  <1>11. Copies'
    <2>1. Copies /\ answered[s] = 0
      BY <1>1 DEF KeptInv, HandedOut
    <2> SUFFICES ASSUME NEW x \in Request, req'[x].sid \notin overlapped
                 PROVE
       /\ req'[x].phase = "serving" \/ Ending(x)' =>
            req'[x].session.version >= answered[req'[x].sid]
       /\ Getting(x)' => \A rep \in replies' : rep.request = x /\ rep.method = "get" =>
            \A z \in rep.found : z.version >= answered[req'[x].sid]
       /\ Ending(x)' /\ req'[x].sid \in DOMAIN sessions =>
            \A rep \in replies' : rep.request = x /\ rep.method = req'[x].awaits =>
              sessions[req'[x].sid].version >= req'[x].session.version
      BY <1>4, <2>1 DEF Copies, Writing
    <2>2. CASE x = r
      BY <1>2, <1>3, <2>1, <2>2 DEF Loading, Getting, Ending
    <2>3. CASE x # r
      BY <1>3, <2>1, <2>3 DEF Copies, Loading, Getting, Ending
    <2> QED
      BY <2>2, <2>3
  <1> QED
    BY <1>7, <1>8, <1>9, <1>10, <1>11 DEF KeptInv

\* The session that is loaded is at least as young as the last answered write.
LEMMA LoadedKept ==
  ASSUME TypeOK, KeptInv, NEW r \in Request, NEW rep \in replies, Loaded(r, rep)
  PROVE  KeptInv'
PROOF
  <1>1. /\ Loading(r) /\ rep.request = r /\ replies' = replies \ {rep}
        /\ rep.method = req[r].awaits
        /\ UNCHANGED <<sessions, toMaster, writes, answered, overlapped>>
    BY DEF Loaded, TakeReply, Loading, Getting
  <1>2. CASE \E s \in Sid : Generate(r, req[r].worker, s)
    <2>1. req[r].worker \in Worker
      BY RequestType DEF RequestState
    <2> QED
      BY <1>1, <1>2, <2>1, GenerateKept
  <1>3. CASE /\ rep.method = "get"
             /\ \E session \in rep.found :
                  req' = [req EXCEPT
                       ![r].phase = "serving", ![r].isNew = FALSE,
                       ![r].session = [session EXCEPT !.lastTouch = now]]
             /\ UNCHANGED used
    <2>1. PICK session \in rep.found :
                  req' = [req EXCEPT
                       ![r].phase = "serving", ![r].isNew = FALSE,
                       ![r].session = [session EXCEPT !.lastTouch = now]]
      BY <1>3
    <2> DEFINE q == [req[r] EXCEPT !.phase = "serving", !.isNew = FALSE,
                                   !.session = [session EXCEPT !.lastTouch = now]]
    <2>2. session \in Session
      BY DEF TypeOK, Reply
    <2>3. /\ q.phase = "serving" /\ q.sid = req[r].sid
          /\ q.session.version = session.version
      BY <2>2, RequestType DEF RequestState, Session
    <2>4. /\ DOMAIN req' = Request /\ req'[r] = q
          /\ \A x \in Request \ {r} : req'[x] = req[x]
      BY <2>1 DEF TypeOK
    <2> HIDE DEF q
    <2>5. Pending' = Pending
      BY <1>1 DEF Pending
    <2>6. \A t : \A x \in Request : Mentions(x, t)' => Mentions(x, t)
      <3> TAKE t
      <3> TAKE x \in Request
      <3>1. CASE x = r
        BY <1>1, <2>3, <2>4, <2>5, <3>1 DEF Mentions, Active, Loading, Getting
      <3>2. CASE x # r
        BY <2>4, <2>5, <3>2 DEF Mentions, Active
      <3> QED
        BY <3>1, <3>2
    <2>7. OneUser'
      BY <1>1, <2>6 DEF KeptInv, OneUser
    <2>8. HandedOut'
      BY <1>1, <1>3, <2>3, <2>4, <2>5 DEF KeptInv, HandedOut, Active, Loading, Getting
    <2>9. Numbered'
      <3>1. session.version <= writes
        BY DEF KeptInv, Numbered
      <3>2. \A x \in Request : req'[x].session.version <= writes
        BY <2>3, <2>4, <3>1 DEF KeptInv, Numbered
      <3> QED
        BY <1>1, <2>5, <3>2 DEF KeptInv, Numbered
    <2>10. InTurn'
      <3>1. InTurn
        BY DEF KeptInv
      <3> SUFFICES ASSUME NEW x \in Request
                 PROVE
      /\ req'[x].phase = "idle" => /\ \A d \in Pending : d.request # x
                                  /\ \A p \in replies' : p.request # x
      /\ req'[x].phase = "serving" \/ Loading(x)' =>
           /\ \A d \in Pending : d.request = x => d.method \notin Writing
           /\ \A p \in replies' : p.request = x => p.method \notin Writing
      /\ Getting(x)' => \A d \in Pending : d.request = x /\ d.method = "get" => d.sid = req'[x].sid
      /\ Ending(x)' => \A d \in Pending :
           d.request = x /\ d.method \in Writing =>
             d.sid = req'[x].sid /\ d.session.version = req'[x].session.version
        BY <2>5 DEF InTurn, Writing
      <3>2. CASE x = r
        BY <1>1, <2>3, <2>4, <3>1, <3>2 DEF InTurn, Loading, Getting, Ending
      <3>3. CASE x # r
        BY <1>1, <2>4, <3>1, <3>3 DEF InTurn, Loading, Getting, Ending
      <3> QED
        BY <3>2, <3>3
    <2>11. Copies'
      <3>1. Copies
        BY DEF KeptInv
      <3> SUFFICES ASSUME NEW x \in Request, req'[x].sid \notin overlapped
                 PROVE
       /\ req'[x].phase = "serving" \/ Ending(x)' =>
            req'[x].session.version >= answered[req'[x].sid]
       /\ Getting(x)' => \A p \in replies' : p.request = x /\ p.method = "get" =>
            \A z \in p.found : z.version >= answered[req'[x].sid]
       /\ Ending(x)' /\ req'[x].sid \in DOMAIN sessions =>
            \A p \in replies' : p.request = x /\ p.method = req'[x].awaits =>
              sessions[req'[x].sid].version >= req'[x].session.version
        BY <1>1, <2>5, <3>1 DEF Copies, Writing
      <3>2. CASE x = r
        <4>1. session.version >= answered[req[r].sid]
          BY <1>1, <1>3, <2>3, <2>4, <3>1, <3>2 DEF Copies, Loading, Getting
        <4> QED
          BY <2>3, <2>4, <3>2, <4>1 DEF Loading, Getting, Ending
      <3>3. CASE x # r
        BY <1>1, <2>4, <3>1, <3>3 DEF Copies, Loading, Getting, Ending
      <3> QED
        BY <3>2, <3>3
    <2> QED
      BY <2>7, <2>8, <2>9, <2>10, <2>11 DEF KeptInv
  <1> QED
    BY <1>2, <1>3 DEF Loaded

\* A request writes the copy it has in hand, or a new version of it.
LEMMA FinishKept ==
  ASSUME TypeOK, KeptInv, NEW r \in Request, req[r].phase = "serving",
         NEW modified \in BOOLEAN, NEW methods \in Seq(Method),
         Last(methods) \in Writing, Finish(r, modified, methods),
         UNCHANGED <<sessions, replies, used, overlapped>>
  PROVE  KeptInv'
PROOF
  <1> DEFINE q == Written(r, modified)
             a == [q EXCEPT !.awaits = Last(methods)]
  <1>1. /\ req' = [req EXCEPT ![r] = a] /\ SendCalls(r, q, methods)
        /\ writes' = IF modified THEN writes + 1 ELSE writes
        /\ answered' = answered
    BY DEF Finish
  <1>2. req[r] \in RequestState /\ writes \in Nat /\ answered \in [Sid -> Nat]
    BY RequestType DEF TypeOK
  <1>3. /\ q.worker = req[r].worker /\ q.sid = req[r].sid
        /\ q.session.version = IF modified THEN writes + 1 ELSE req[r].session.version
        /\ a.phase = "waiting" /\ a.sid = req[r].sid /\ a.session = q.session
        /\ a.awaits = Last(methods)
    <2> DEFINE v == IF modified THEN writes + 1 ELSE req[r].session.version
    <2>1. q = [req[r] EXCEPT !.phase = "waiting",
                             !.session = [req[r].session EXCEPT !.version = v]]
      BY <1>2 DEF Written, RequestState
    <2> HIDE DEF v
    <2>2. [req[r].session EXCEPT !.version = v].version = v
      BY <1>2 DEF RequestState, Session
    <2>3. /\ q.worker = req[r].worker /\ q.sid = req[r].sid /\ q.phase = "waiting"
          /\ q.session = [req[r].session EXCEPT !.version = v]
          /\ "awaits" \in DOMAIN q /\ "phase" # "awaits"
          /\ "sid" # "awaits" /\ "session" # "awaits"
          /\ "phase" \in DOMAIN q /\ "sid" \in DOMAIN q /\ "session" \in DOMAIN q
      BY <1>2, <2>1 DEF RequestState
    <2> HIDE DEF q
    <2>4. /\ a.phase = q.phase /\ a.sid = q.sid /\ a.session = q.session
          /\ a.awaits = Last(methods)
      BY <2>3
    <2> QED
      BY <2>2, <2>3, <2>4 DEF v
  <1>4. q.session.version \in Nat /\ q.session.version <= writes' /\ writes <= writes'
    BY <1>1, <1>2, <1>3 DEF RequestState, Session, KeptInv, Numbered
  <1>5. req[r].sid \notin overlapped => q.session.version >= answered[req[r].sid]
    <2>1. req[r].sid \in Sid /\ answered[req[r].sid] \in Nat
      BY <1>2 DEF RequestState
    <2>2. answered[req[r].sid] <= writes
      BY <2>1 DEF KeptInv, Numbered
    <2>3. req[r].sid \notin overlapped => req[r].session.version >= answered[req[r].sid]
      BY DEF KeptInv, Copies
    <2> QED
      BY <1>2, <1>3, <2>1, <2>2, <2>3
  <1> HIDE DEF q, a
  <1>6. /\ DOMAIN req' = Request /\ req'[r] = a
        /\ \A x \in Request \ {r} : req'[x] = req[x]
    BY <1>1 DEF TypeOK
  <1>7. \A c \in Pending' :
          \/ c \in Pending
          \/ c.request = r /\ c.sid = req[r].sid /\ c.session = q.session
    BY <1>1, <1>2, <1>3, SendCallsAdds DEF RequestState
  <1>8. Active(r) /\ Ending(r)' /\ ~Loading(r)' /\ ~Getting(r)'
    BY <1>3, <1>6 DEF Active, Ending, Loading, Getting, Writing
  <1>9. \A t : \A x \in Request : Mentions(x, t)' => Mentions(x, t)
    <2> TAKE t
    <2> TAKE x \in Request
    <2>1. CASE x = r
      BY <1>3, <1>6, <1>7, <1>8, <2>1 DEF Mentions, Active
    <2>2. CASE x # r
      BY <1>6, <1>7, <2>2 DEF Mentions, Active
    <2> QED
      BY <2>1, <2>2
  <1>10. OneUser'
    BY <1>9 DEF KeptInv, OneUser
  <1>11. HandedOut'
    BY <1>1, <1>3, <1>6, <1>7, <1>8 DEF KeptInv, HandedOut, Active
  <1>12. Numbered'
    <2>1. Numbered /\ TypeOK
      BY DEF KeptInv
    <2>2. \A s \in DOMAIN sessions : sessions[s].version \in Nat
      BY <2>1 DEF TypeOK, Session
    <2>3. \A c \in Pending : c.session.version \in Nat
      BY <2>1, PendingType DEF Call, Session
    <2>4. \A rep \in replies : \A x \in rep.found : x.version \in Nat
      BY <2>1 DEF TypeOK, Reply, Session
    <2>5. \A x \in Request : req[x].session.version \in Nat
      BY <2>1, RequestType DEF RequestState, Session
    <2>6. writes' \in Nat
      BY <1>1, <1>2
    <2>7. \A s \in DOMAIN sessions : sessions[s].version <= writes'
      BY <1>2, <1>4, <2>1, <2>2, <2>6 DEF Numbered
    <2>8. \A c \in Pending' : c.session.version <= writes'
      BY <1>2, <1>4, <1>7, <2>1, <2>3, <2>6 DEF Numbered
    <2>9. \A rep \in replies : \A x \in rep.found : x.version <= writes'
      BY <1>2, <1>4, <2>1, <2>4, <2>6 DEF Numbered
    <2>10. \A x \in Request : req'[x].session.version <= writes'
      BY <1>2, <1>3, <1>4, <1>6, <2>1, <2>5, <2>6 DEF Numbered
    <2>11. \A s \in Sid : answered[s] <= writes'
      BY <1>2, <1>4, <2>1, <2>6 DEF Numbered
    <2> QED
      BY <1>1, <2>7, <2>8, <2>9, <2>10, <2>11 DEF Numbered
  <1>13. InTurn'
    <2>1. InTurn
      BY DEF KeptInv
    <2> SUFFICES ASSUME NEW x \in Request
                 PROVE
      /\ req'[x].phase = "idle" => /\ \A d \in Pending' : d.request # x
                                  /\ \A p \in replies : p.request # x
      /\ req'[x].phase = "serving" \/ Loading(x)' =>
           /\ \A d \in Pending' : d.request = x => d.method \notin Writing
           /\ \A p \in replies : p.request = x => p.method \notin Writing
      /\ Getting(x)' => \A d \in Pending' : d.request = x /\ d.method = "get" => d.sid = req'[x].sid
      /\ Ending(x)' => \A d \in Pending' :
           d.request = x /\ d.method \in Writing =>
             d.sid = req'[x].sid /\ d.session.version = req'[x].session.version
      BY DEF InTurn, Writing
    <2>2. CASE x = r
      BY <1>3, <1>6, <1>7, <1>8, <2>1, <2>2 DEF InTurn
    <2>3. CASE x # r
      <3>1. \A d \in Pending' : d.request = x => d \in Pending
        BY <1>7, <2>3
      <3> QED
        BY <1>6, <2>1, <2>3, <3>1 DEF InTurn, Loading, Getting, Ending
    <2> QED
      BY <2>2, <2>3
  <1>14. Copies'
    <2>1. Copies /\ InTurn
      BY DEF KeptInv
    <2>2. \A d \in Pending' : d.method \in Writing /\ d.sid \notin overlapped =>
            d.session.version >= answered[d.sid]
      BY <1>5, <1>7, <2>1 DEF Copies
    <2> SUFFICES ASSUME NEW x \in Request, req'[x].sid \notin overlapped
                 PROVE
       /\ req'[x].phase = "serving" \/ Ending(x)' =>
            req'[x].session.version >= answered[req'[x].sid]
       /\ Getting(x)' => \A p \in replies : p.request = x /\ p.method = "get" =>
            \A z \in p.found : z.version >= answered[req'[x].sid]
       /\ Ending(x)' /\ req'[x].sid \in DOMAIN sessions =>
            \A p \in replies : p.request = x /\ p.method = req'[x].awaits =>
              sessions[req'[x].sid].version >= req'[x].session.version
      BY <1>1, <2>1, <2>2 DEF Copies, Writing
    <2>3. CASE x = r
      <3>1. \A p \in replies : p.request = x => p.method # Last(methods)
        BY <2>1, <2>3 DEF InTurn
      <3> QED
        BY <1>3, <1>5, <1>6, <1>8, <2>3, <3>1
    <2>4. CASE x # r
      BY <1>6, <2>1, <2>4 DEF Copies, Loading, Getting, Ending
    <2> QED
      BY <2>3, <2>4
  <1> QED
    BY <1>10, <1>11, <1>12, <1>13, <1>14 DEF KeptInv

LEMMA EndKept ==
  ASSUME TypeOK, KeptInv, NEW r \in Request, End(r)
  PROVE  KeptInv'
PROOF
  <1>1. /\ Last(<<"set">>) \in Writing /\ Last(<<"set", "touch">>) \in Writing
        /\ Last(<<"destroy", "set">>) \in Writing /\ Last(<<"clear", "set">>) \in Writing
    BY DEF Last, Writing
  <1>2. \E modified \in BOOLEAN, methods \in Seq(Method) :
          Last(methods) \in Writing /\ Finish(r, modified, methods)
    BY <1>1, MethodsType DEF End
  <1> QED
    BY <1>2, FinishKept DEF End

LEMMA RegenerateKept ==
  ASSUME TypeOK, KeptInv, NEW r \in Request, Regenerate(r)
  PROVE  KeptInv'
PROOF
  <1> DEFINE q == [req[r] EXCEPT !.phase = "waiting", !.awaits = "destroy"]
  <1>1. /\ req' = [req EXCEPT ![r] = q] /\ SendCalls(r, req[r], <<"destroy">>)
        /\ UNCHANGED <<sessions, replies, used, writes, answered, overlapped>>
        /\ req[r].phase = "serving"
    BY DEF Regenerate
  <1>2. req[r] \in RequestState
    BY RequestType
  <1>3. /\ q.phase = "waiting" /\ q.awaits = "destroy" /\ q.sid = req[r].sid
        /\ q.session = req[r].session
    BY <1>2 DEF RequestState
  <1> HIDE DEF q
  <1>4. /\ DOMAIN req' = Request /\ req'[r] = q
        /\ \A x \in Request \ {r} : req'[x] = req[x]
    BY <1>1 DEF TypeOK
  <1>5. \A c \in Pending' :
          \/ c \in Pending
          \/ c.request = r /\ c.sid = req[r].sid /\ c.session = req[r].session /\ c.method = "destroy"
    <2>1. \A i \in DOMAIN <<"destroy">> : <<"destroy">>[i] = "destroy"
      OBVIOUS
    <2>2. req[r].worker \in Worker
      BY <1>2 DEF RequestState
    <2>3. \A c \in Pending' :
            \/ c \in Pending
            \/ /\ c.request = r /\ c.sid = req[r].sid /\ c.session = req[r].session
               /\ \E i \in DOMAIN <<"destroy">> : c.method = <<"destroy">>[i]
      BY <1>1, <2>2, SendCallsAdds, MethodsType
    <2> QED
      BY <2>1, <2>3
  <1>6. Active(r) /\ Loading(r)' /\ ~Ending(r)'
    BY <1>1, <1>3, <1>4 DEF Active, Loading, Getting, Ending, Writing
  <1>7. \A t : \A x \in Request : Mentions(x, t)' => Mentions(x, t)
    <2> TAKE t
    <2> TAKE x \in Request
    <2>1. CASE x = r
      BY <1>3, <1>4, <1>5, <1>6, <2>1 DEF Mentions, Active
    <2>2. CASE x # r
      BY <1>4, <1>5, <2>2 DEF Mentions, Active
    <2> QED
      BY <2>1, <2>2
  <1>8. OneUser'
    BY <1>1, <1>7 DEF KeptInv, OneUser
  <1>9. HandedOut'
    BY <1>1, <1>3, <1>4, <1>5, <1>6 DEF KeptInv, HandedOut, Active
  <1>10. Numbered'
    BY <1>1, <1>3, <1>4, <1>5 DEF KeptInv, Numbered
  <1>11. InTurn'
    <2>1. InTurn
      BY DEF KeptInv
    <2> SUFFICES ASSUME NEW x \in Request
                 PROVE
      /\ req'[x].phase = "idle" => /\ \A d \in Pending' : d.request # x
                                  /\ \A p \in replies : p.request # x
      /\ req'[x].phase = "serving" \/ Loading(x)' =>
           /\ \A d \in Pending' : d.request = x => d.method \notin Writing
           /\ \A p \in replies : p.request = x => p.method \notin Writing
      /\ Getting(x)' => \A d \in Pending' : d.request = x /\ d.method = "get" => d.sid = req'[x].sid
      /\ Ending(x)' => \A d \in Pending' :
           d.request = x /\ d.method \in Writing =>
             d.sid = req'[x].sid /\ d.session.version = req'[x].session.version
      BY <1>1 DEF InTurn, Writing
    <2>2. CASE x = r
      <3>1. /\ \A d \in Pending : d.request = x => d.method \notin Writing
            /\ \A p \in replies : p.request = x => p.method \notin Writing
            /\ \A d \in Pending' : d.request = x /\ d \notin Pending =>
                 d.sid = req[r].sid /\ d.method \notin Writing
        BY <1>1, <1>5, <2>1, <2>2 DEF InTurn, Writing
      <3>2. ~Getting(x)'
        BY <1>3, <1>4, <2>2 DEF Getting
      <3> QED
        BY <1>3, <1>4, <1>6, <2>2, <3>1, <3>2
    <2>3. CASE x # r
      <3>1. \A d \in Pending' : d.request = x => d \in Pending
        BY <1>5, <2>3
      <3> QED
        BY <1>4, <2>1, <2>3, <3>1 DEF InTurn, Loading, Getting, Ending
    <2> QED
      BY <2>2, <2>3
  <1>12. Copies'
    <2>1. Copies
      BY DEF KeptInv
    <2>2. \A d \in Pending' : d.method \in Writing /\ d.sid \notin overlapped =>
            d.session.version >= answered[d.sid]
      BY <1>5, <2>1 DEF Copies, Writing
    <2> SUFFICES ASSUME NEW x \in Request, req'[x].sid \notin overlapped
                 PROVE
       /\ req'[x].phase = "serving" \/ Ending(x)' =>
            req'[x].session.version >= answered[req'[x].sid]
       /\ Getting(x)' => \A p \in replies : p.request = x /\ p.method = "get" =>
            \A z \in p.found : z.version >= answered[req'[x].sid]
       /\ Ending(x)' /\ req'[x].sid \in DOMAIN sessions =>
            \A p \in replies : p.request = x /\ p.method = req'[x].awaits =>
              sessions[req'[x].sid].version >= req'[x].session.version
      BY <1>1, <2>1, <2>2 DEF Copies, Writing
    <2>3. CASE x = r
      BY <1>3, <1>4, <1>6, <2>1, <2>3 DEF Copies, Getting
    <2>4. CASE x # r
      BY <1>4, <2>1, <2>4 DEF Copies, Loading, Getting, Ending
    <2> QED
      BY <2>3, <2>4
  <1> QED
    BY <1>8, <1>9, <1>10, <1>11, <1>12 DEF KeptInv

\* What is answered is in the store, unless it has been pushed out.
LEMMA RespondKept ==
  ASSUME TypeOK, KeptInv, NEW r \in Request, NEW rep \in replies, Respond(r, rep)
  PROVE  KeptInv'
PROOF
  <1> DEFINE s == req[r].sid
             q == [req[r] EXCEPT !.phase = "answered"]
  <1>1. /\ Ending(r) /\ rep.request = r /\ rep.method = req[r].awaits
        /\ req' = [req EXCEPT ![r] = q] /\ replies' = replies \ {rep}
        /\ answered' = [answered EXCEPT ![s] = req[r].session.version]
        /\ UNCHANGED <<sessions, toMaster, used, writes, overlapped>>
    BY DEF Respond, TakeReply, Ending, Writing
  <1>2. req[r] \in RequestState /\ answered \in [Sid -> Nat] /\ s \in Sid
    BY RequestType DEF TypeOK, RequestState
  <1>3. q.phase = "answered" /\ q.sid = s /\ q.session = req[r].session
    BY <1>2 DEF RequestState
  <1>4. /\ DOMAIN req' = Request /\ req'[r] = q
        /\ \A x \in Request \ {r} : req'[x] = req[x]
    BY <1>1 DEF TypeOK
  <1>5. Pending' = Pending
    BY <1>1 DEF Pending
  <1>6. /\ answered'[s] = req[r].session.version
        /\ \A t \in Sid \ {s} : answered'[t] = answered[t]
    BY <1>1, <1>2
  <1>7. Active(r) /\ s \in used /\ Mentions(r, s)
    BY <1>1 DEF Ending, Active, Mentions, KeptInv, HandedOut
  <1> HIDE DEF s, q
  <1>8. \A t : \A x \in Request : Mentions(x, t)' => Mentions(x, t)
    BY <1>3, <1>4, <1>5 DEF Mentions, Active
  <1>9. OneUser'
    BY <1>1, <1>8 DEF KeptInv, OneUser
  <1>10. HandedOut'
    <2>1. \A x \in Request : Active(x)' => req'[x].sid \in used
      BY <1>3, <1>4 DEF KeptInv, HandedOut, Active
    <2> QED
      BY <1>1, <1>5, <1>6, <1>7, <2>1 DEF KeptInv, HandedOut
  <1>11. Numbered'
    <2>1. \A x \in Request : req'[x].session.version <= writes
      BY <1>3, <1>4 DEF KeptInv, Numbered
    <2>2. \A t \in Sid : answered'[t] <= writes
      BY <1>6 DEF KeptInv, Numbered
    <2> QED
      BY <1>1, <1>5, <2>1, <2>2 DEF KeptInv, Numbered
  <1>12. InTurn'
    <2>1. InTurn
      BY DEF KeptInv
    <2> SUFFICES ASSUME NEW x \in Request
                 PROVE
      /\ req'[x].phase = "idle" => /\ \A d \in Pending : d.request # x
                                  /\ \A p \in replies' : p.request # x
      /\ req'[x].phase = "serving" \/ Loading(x)' =>
           /\ \A d \in Pending : d.request = x => d.method \notin Writing
           /\ \A p \in replies' : p.request = x => p.method \notin Writing
      /\ Getting(x)' => \A d \in Pending : d.request = x /\ d.method = "get" => d.sid = req'[x].sid
      /\ Ending(x)' => \A d \in Pending :
           d.request = x /\ d.method \in Writing =>
             d.sid = req'[x].sid /\ d.session.version = req'[x].session.version
      BY <1>5 DEF InTurn, Writing
    <2>2. CASE x = r
      BY <1>3, <1>4, <2>2 DEF Loading, Getting, Ending
    <2>3. CASE x # r
      BY <1>1, <1>4, <2>1, <2>3 DEF InTurn, Loading, Getting, Ending
    <2> QED
      BY <2>2, <2>3
  <1>13. Copies'
    <2>1. Copies /\ InTurn /\ OneUser
      BY DEF KeptInv
    <2>2. DOMAIN sessions \subseteq Sid /\ \A x \in Request : req[x].sid \in Sid
      BY RequestType DEF TypeOK, RequestState
    <2>3. \A t \in DOMAIN sessions \ overlapped : sessions[t].version >= answered'[t]
      BY <1>1, <1>6, <2>1, <2>2 DEF Copies, s
    <2>4. \A d \in Pending : d.method \in Writing /\ d.sid \notin overlapped =>
            d.session.version >= answered'[d.sid]
      <3> SUFFICES ASSUME NEW d \in Pending, d.method \in Writing, d.sid \notin overlapped
                   PROVE  d.session.version >= answered'[d.sid]
        OBVIOUS
      <3>1. d \in Call
        BY PendingType
      <3>2. CASE d.sid = s
        <4>1. Mentions(d.request, s) /\ d.request \in Request
          BY <3>1, <3>2 DEF Mentions, Call
        <4>2. d.request = r
          BY <1>2, <1>7, <2>1, <3>2, <4>1 DEF OneUser
        <4>3. d.session.version = req[r].session.version
          BY <1>1, <2>1, <4>2 DEF InTurn
        <4>4. req[r].session.version \in Nat
          BY <1>2 DEF RequestState, Session
        <4> QED
          BY <1>6, <3>2, <4>3, <4>4
      <3>3. CASE d.sid # s
        BY <1>6, <2>1, <3>1, <3>3 DEF Copies, Call
      <3> QED
        BY <3>2, <3>3
    <2> SUFFICES ASSUME NEW x \in Request, req'[x].sid \notin overlapped
                 PROVE
       /\ req'[x].phase = "serving" \/ Ending(x)' =>
            req'[x].session.version >= answered'[req'[x].sid]
       /\ Getting(x)' => \A p \in replies' : p.request = x /\ p.method = "get" =>
            \A z \in p.found : z.version >= answered'[req'[x].sid]
       /\ Ending(x)' /\ req'[x].sid \in DOMAIN sessions =>
            \A p \in replies' : p.request = x /\ p.method = req'[x].awaits =>
              sessions[req'[x].sid].version >= req'[x].session.version
      BY <1>1, <1>5, <2>3, <2>4 DEF Copies, Writing
    <2>5. CASE x = r
      BY <1>3, <1>4, <2>5 DEF Loading, Getting, Ending
    <2>6. CASE x # r
      <3>1. req'[x] = req[x] /\ req[x].sid \in Sid
        BY <1>4, <2>2, <2>6
      <3>2. Active(x) => req[x].sid # s
        <4>1. Active(x) /\ req[x].sid = s => Mentions(x, s)
          BY DEF Mentions
        <4> QED
          BY <1>2, <1>7, <2>1, <2>6, <3>1, <4>1 DEF OneUser
      <3>3. Active(x) => answered'[req[x].sid] = answered[req[x].sid]
        BY <1>6, <3>1, <3>2
      <3> QED
        BY <1>1, <2>1, <3>1, <3>3 DEF Copies, Active, Loading, Getting, Ending
    <2> QED
      BY <2>5, <2>6
  <1> QED
    BY <1>9, <1>10, <1>11, <1>12, <1>13 DEF KeptInv

LEMMA InitKept == Init => KeptInv
PROOF
  <1> SUFFICES ASSUME Init PROVE KeptInv
    OBVIOUS
  <1>1. Pending = {}
    BY DEF Init, Pending, ToSet
  <1>2. \A r \in Request : req[r].phase = "idle" /\ req[r].session.version = 0
    BY DEF Init
  <1>3. /\ DOMAIN sessions = {} /\ replies = {} /\ used = {} /\ writes = 0
        /\ \A s \in Sid : answered[s] = 0
    BY EmptyQueue DEF Init
  <1>4. OneUser /\ HandedOut /\ Numbered
    BY <1>1, <1>2, <1>3 DEF OneUser, HandedOut, Numbered, Mentions, Active
  <1>5. InTurn /\ Copies
    BY <1>1, <1>2, <1>3 DEF InTurn, Copies, Loading, Getting, Ending
  <1> QED
    BY <1>4, <1>5 DEF KeptInv

LEMMA StepKept == TypeOK /\ KeptInv /\ [Next]_vars => KeptInv'
PROOF
  <1> SUFFICES ASSUME TypeOK, KeptInv, [Next]_vars PROVE KeptInv'
    OBVIOUS
  <1>1. DOMAIN req = Request
    BY DEF TypeOK
  <1>2. ASSUME NEW w \in Worker, HandleCall(w) PROVE KeptInv'
    BY <1>2, HandleCallKept
  <1>3. ASSUME NEW w \in Worker, Crash(w) PROVE KeptInv'
    <2>1. /\ DOMAIN req' = Request
          /\ \A r \in Request : \/ req'[r] = req[r]
                                \/ req'[r] = [req[r] EXCEPT !.phase = "lost"]
          /\ UNCHANGED <<sessions, toMaster, replies, used, writes, answered, overlapped>>
      BY <1>3 DEF Crash
    <2>2. \A r \in Request : /\ [req[r] EXCEPT !.phase = "lost"].phase = "lost"
                             /\ [req[r] EXCEPT !.phase = "lost"].sid = req[r].sid
                             /\ [req[r] EXCEPT !.phase = "lost"].session = req[r].session
      BY RequestType DEF RequestState
    <2> QED
      BY <2>1, <2>2, RetireKept
  <1>4. ASSUME NEW r \in Request, NEW p \in {"answered", "hung"},
               req' = [req EXCEPT ![r].phase = p],
               UNCHANGED <<sessions, toMaster, replies, used, writes, answered, overlapped>>
        PROVE  KeptInv'
    <2>1. /\ [req[r] EXCEPT !.phase = p].phase = p
          /\ [req[r] EXCEPT !.phase = p].sid = req[r].sid
          /\ [req[r] EXCEPT !.phase = p].session = req[r].session
      BY RequestType DEF RequestState
    <2>2. /\ DOMAIN req' = Request
          /\ req'[r] = [req[r] EXCEPT !.phase = p]
          /\ \A x \in Request \ {r} : req'[x] = req[x]
      BY <1>1, <1>4
    <2> QED
      BY <1>4, <2>1, <2>2, RetireKept
  <1>5. CASE Clean
    BY <1>5, CleanKept
  <1>6. CASE Tick \/ UNCHANGED vars
    <2>1. UNCHANGED <<sessions, toMaster, replies, req, used, writes, answered, overlapped>>
      BY <1>6 DEF Tick, vars
    <2> QED
      BY <1>1, <2>1, RetireKept
  <1>7. ASSUME NEW r \in Request, End(r) \/ EndUnsaved(r) \/ Regenerate(r) \/ Timeout(r)
        PROVE  KeptInv'
    <2>1. CASE EndUnsaved(r)
      BY <1>4, <2>1 DEF EndUnsaved
    <2>2. CASE Timeout(r)
      BY <1>4, <2>2 DEF Timeout
    <2> QED
      BY <1>7, <2>1, <2>2, EndKept, RegenerateKept
  <1>8. ASSUME NEW r \in Request, NEW rep \in replies, Loaded(r, rep) \/ Respond(r, rep)
        PROVE  KeptInv'
    BY <1>8, LoadedKept, RespondKept
  <1>9. ASSUME NEW r \in Request, NEW w \in Worker, NEW s \in Sid,
               Arrive(r, w, s) \/ ArriveWithoutCookie(r, w, s)
        PROVE  KeptInv'
    <2>1. CASE ArriveWithoutCookie(r, w, s)
      BY <2>1, GenerateKept DEF ArriveWithoutCookie
    <2> QED
      BY <1>9, <2>1, ArriveKept
  <1> QED
    BY <1>2, <1>3, <1>5, <1>6, <1>7, <1>8, <1>9 DEF Next, WorkerStep

-----------------------------------------------------------------------------
(* The theorems *)

\* The store, the pipes and the requests of the sessions have their types
\* whatever the requests, the timers and the crashes do.
THEOREM TypeCorrect == Spec => []TypeOK
PROOF
  <1>1. IInv => TypeOK
    BY DEF IInv
  <1> QED
    BY <1>1, Invariance, PTL

\* storedSessionsLimit bounds the store for every limit, and no session is
\* out of the limit's reach, whatever expired, was re-created or pushed out.
THEOREM StoreIsBounded == Spec => []StoreBounded
PROOF
  <1>1. IInv => StoreBounded
    BY DEF IInv, StoreInv
  <1> QED
    BY <1>1, Invariance, PTL

\* Without expiry the queue lists every stored session exactly once.
THEOREM OnlyExpiryLeavesEntries == Spec => []NoStaleEntries
PROOF
  <1>1. IInv => NoStaleEntries
    BY DEF IInv, StoreInv
  <1> QED
    BY <1>1, Invariance, PTL

\* For every number of workers, requests and sessions, and whatever calls are
\* given up and workers crash: a session that no two requests worked on at a
\* time is never in the store older than its last answered write.
THEOREM AnsweredWritesAreKept == Spec => []AnsweredWritesKept
PROOF
  <1>1. Init => KeptInv
    BY InitKept
  <1>2. TypeOK /\ KeptInv /\ [Next]_vars => KeptInv'
    BY StepKept
  <1>3. KeptInv => AnsweredWritesKept
    BY DEF KeptInv, Copies, AnsweredWritesKept
  <1> QED
    BY <1>1, <1>2, <1>3, TypeCorrect, PTL DEF Spec
=============================================================================
