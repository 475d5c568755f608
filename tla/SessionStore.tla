---------------------------- MODULE SessionStore ----------------------------
(***************************************************************************)
(* lib/sessionStore.js: the express-session store.  The sessions live in   *)
(* the master, in a Map bounded by a queue of session ids; every worker    *)
(* reaches them by remote calls (clusterRemoteCall), loads a session when  *)
(* a request arrives, works on its own copy and writes the copy back       *)
(* before it answers (express-session with resave, lib/webapp.js).         *)
(*                                                                         *)
(* Calls of one worker reach the master in order, and the master's store   *)
(* operations are synchronous, so handling a call is one action.  A call   *)
(* that is not answered within a second is given up by the worker; its     *)
(* effect may still come.  What a session holds is abstracted to the       *)
(* number of the write that produced it.                                   *)
(***************************************************************************)
EXTENDS Integers, SequencesExt

CONSTANTS
  Sid,                  \* session ids
  Worker,               \* worker slots
  Request,              \* HTTP requests, each handled by one worker
  StoredSessionsLimit,  \* storedSessionsLimit
  DefaultMaxAge2,       \* defaultMaxAge2
  MaxTime,              \* bound: clock
  MaxTimeouts,          \* bound: remote calls that are given up
  MaxCrashes            \* bound: workers that exit

ASSUME SessionStoreAssumption ==
  /\ StoredSessionsLimit \in Nat \ {0}
  /\ DefaultMaxAge2 \in Nat /\ MaxTime \in Nat
  /\ MaxTimeouts \in Nat /\ MaxCrashes \in Nat

VARIABLES
  sessions,        \* this.sessions of the master: sid -> session
  sessionsQueue,   \* this.sessionsQueue of the master
  now,             \* getTimestamp()
  toMaster,        \* the calls a worker has sent and the master not handled
  replies,         \* the answers the workers have not taken
  req,             \* the requests
  used,            \* ids handed out by generateId()
  writes,          \* number of writes so far
  timeouts, crashes,
  answered,        \* history: the last write of sid that was answered
  overlapped,      \* history: ids that two requests worked on at a time
  expired          \* history: the cleaner deleted a session

store == <<sessions, sessionsQueue>>
vars == <<sessions, sessionsQueue, now, toMaster, replies, req, used, writes,
          timeouts, crashes, answered, overlapped, expired>>

Untouched == -1  \* a session that express-session made has no lastTouch
Session == [version : Nat, lastTouch : Nat \cup {Untouched}]
Method == {"get", "set", "touch", "destroy", "clear"}
Call == [request : Request, method : Method, sid : Sid, session : Session]
Reply == [request : Request, method : Method, found : SUBSET Session]

Phase == {"idle", "waiting", "serving", "answered", "hung", "lost"}
Active(r) == req[r].phase \in {"waiting", "serving"}

TypeOK ==
  /\ DOMAIN sessions \subseteq Sid
  /\ \A s \in DOMAIN sessions : sessions[s] \in Session
  /\ sessionsQueue \in Seq(Sid)
  /\ now \in Nat
  /\ toMaster \in [Worker -> Seq(Call)]
  /\ replies \in SUBSET Reply
  /\ req \in [Request -> [phase : Phase, worker : Worker, sid : Sid,
                          isNew : BOOLEAN, session : Session,
                          awaits : Method]]
  /\ used \in SUBSET Sid
  /\ writes \in Nat /\ timeouts \in Nat /\ crashes \in Nat
  /\ answered \in [Sid -> Nat]
  /\ overlapped \in SUBSET Sid
  /\ expired \in BOOLEAN

-----------------------------------------------------------------------------
(* The store in the master *)

\* (mutant: the pushed-out session stays in the Map)
PushKeepsSession(sid, session) ==
  /\ sessionsQueue' = IF Len(sessionsQueue) >= StoredSessionsLimit
                      THEN Append(Tail(sessionsQueue), sid)
                      ELSE Append(sessionsQueue, sid)
  /\ sessions' = [s \in DOMAIN sessions \cup {sid} |->
                    IF s = sid THEN session ELSE sessions[s]]

\* The limited queue's push: the removed id's session goes with it, even if a
\* younger entry of the queue names the same id.
Push(sid, session) ==
  LET full == Len(sessionsQueue) >= StoredSessionsLimit
      kept == IF full THEN DOMAIN sessions \ {Head(sessionsQueue)}
              ELSE DOMAIN sessions
  IN  /\ sessionsQueue' =
           Append(IF full THEN Tail(sessionsQueue) ELSE sessionsQueue, sid)
      /\ sessions' = [s \in kept \cup {sid} |->
                        IF s = sid THEN session ELSE sessions[s]]

AddSession(sid, session) ==
  IF sid \in DOMAIN sessions
  THEN /\ sessions' = [sessions EXCEPT ![sid] = session]
       /\ UNCHANGED sessionsQueue
  ELSE Push(sid, session)

\* splice(indexOf(sid), 1): the last entry is cut out if there is none for sid.
Splice(queue, sid) ==
  IF sid \in ToSet(queue) THEN RemoveFirst(queue, sid)
  ELSE SubSeq(queue, 1, Len(queue) - 1)

\* (mutant: the queue keeps the removed id)
RemoveSidFromMapOnly(sid) ==
  /\ sessions' = Restrict(sessions, DOMAIN sessions \ {sid})
  /\ UNCHANGED sessionsQueue

RemoveSid(sid) ==
  IF sid \in DOMAIN sessions
  THEN /\ sessions' = Restrict(sessions, DOMAIN sessions \ {sid})
       /\ sessionsQueue' = Splice(sessionsQueue, sid)
  ELSE UNCHANGED store

Awaited(c) == req[c.request].phase = "waiting" /\ req[c.request].awaits = c.method

\* (mutant: a session that is not there is not answered for)
AnswerIfFound(c) ==
  replies' = replies \cup
    {[request |-> c.request, method |-> c.method, found |-> {session}] :
       session \in {sessions[s] : s \in {c.sid} \cap DOMAIN sessions}}

\* The callback's arguments go back to the worker; only get's matter, and an
\* answer without a listener is of no consequence.
Answer(c) ==
  replies' = IF ~Awaited(c) THEN replies
             ELSE replies \cup
               {[request |-> c.request, method |-> c.method,
                 found |-> {sessions[s] : s \in {c.sid} \cap DOMAIN sessions}]}

\* One remote call of worker w: get, set, touch, destroy or clear.
HandleCall(w) ==
  /\ toMaster[w] # << >>
  /\ LET c == Head(toMaster[w]) IN
       /\ \/ c.method = "get" /\ UNCHANGED store
          \/ c.method = "set" /\ AddSession(c.sid, c.session)
          \/ /\ c.method = "touch"
             /\ AddSession(c.sid, [c.session EXCEPT !.lastTouch = now])
          \/ c.method = "destroy" /\ RemoveSid(c.sid)
          \/ c.method = "clear" /\ sessions' = << >> /\ sessionsQueue' = << >>
       /\ Answer(c)
  /\ toMaster' = [toMaster EXCEPT ![w] = Tail(@)]
  /\ UNCHANGED <<now, req, used, writes, timeouts, crashes, answered,
                 overlapped, expired>>

\* The cleaner's second test (a cookie that came over IPC has no maxAge); a
\* comparison with a missing lastTouch is false.
IsDead(s) ==
  /\ sessions[s].lastTouch # Untouched
  /\ now - sessions[s].lastTouch > DefaultMaxAge2

\* The 10 s timer: it deletes from the Map, not from the queue.
Clean ==
  /\ \E s \in DOMAIN sessions : IsDead(s)
  /\ sessions' = RestrictDomain(sessions, LAMBDA s : ~IsDead(s))
  /\ expired' = TRUE
  /\ UNCHANGED <<sessionsQueue, now, toMaster, replies, req, used, writes,
                 timeouts, crashes, answered, overlapped>>

Tick ==
  /\ now < MaxTime
  /\ now' = now + 1
  /\ UNCHANGED <<sessions, sessionsQueue, toMaster, replies, req, used, writes,
                 timeouts, crashes, answered, overlapped, expired>>

-----------------------------------------------------------------------------
(* A request in a worker *)

\* process.send() of some calls about the request's session.
SendCalls(r, q, methods) ==
  toMaster' = [toMaster EXCEPT ![q.worker] = @ \o
                 [i \in DOMAIN methods |->
                    [request |-> r, method |-> methods[i],
                     sid |-> q.sid, session |-> q.session]]]

\* Something of another request about sid is still going on.
InUse(r, s) ==
  \/ \E r2 \in Request \ {r} : Active(r2) /\ req[r2].sid = s
  \/ \E w \in Worker : \E i \in DOMAIN toMaster[w] :
       toMaster[w][i].request # r /\ toMaster[w][i].sid = s

NoteUse(r, s) ==
  overlapped' = IF InUse(r, s) THEN overlapped \cup {s} ELSE overlapped

\* A request with the cookie of session s: store.get().
Arrive(r, w, s) ==
  /\ req[r].phase = "idle" /\ s \in used
  /\ LET q == [req[r] EXCEPT !.phase = "waiting", !.worker = w, !.sid = s,
                             !.awaits = "get"]
     IN  req' = [req EXCEPT ![r] = q] /\ SendCalls(r, q, <<"get">>)
  /\ NoteUse(r, s)
  /\ UNCHANGED <<sessions, sessionsQueue, now, replies, used, writes, timeouts,
                 crashes, answered, expired>>

\* store.generate(): a new id and a session without lastTouch.
Generate(r, w, s) ==
  /\ s \notin used /\ used' = used \cup {s}
  /\ req' = [req EXCEPT ![r] =
               [phase |-> "serving", worker |-> w, sid |-> s, isNew |-> TRUE,
                session |-> [version |-> 0, lastTouch |-> Untouched],
                awaits |-> "get"]]

\* A request without a cookie.
ArriveWithoutCookie(r, w, s) ==
  /\ req[r].phase = "idle" /\ Generate(r, w, s)
  /\ UNCHANGED <<sessions, sessionsQueue, now, toMaster, replies, writes,
                 timeouts, crashes, answered, overlapped, expired>>

\* The answer a waiting request waits for is taken.
TakeReply(r, rep) ==
  /\ req[r].phase = "waiting" /\ rep.request = r
  /\ rep.method = req[r].awaits
  /\ replies' = replies \ {rep}

\* get's callback: createSession() stamps the worker's copy with the time; no
\* session, or regenerate's destroy, leads to generate().
Loaded(r, rep) ==
  /\ TakeReply(r, rep) /\ rep.method \in {"get", "destroy"}
  /\ \/ /\ rep.method = "get" /\ rep.found # {}
        /\ \E session \in rep.found :
             req' = [req EXCEPT
                       ![r].phase = "serving", ![r].isNew = FALSE,
                       ![r].session = [session EXCEPT !.lastTouch = now]]
        /\ UNCHANGED used
     \/ /\ rep.method = "destroy" \/ rep.found = {}
        /\ \E s \in Sid : Generate(r, req[r].worker, s)
  /\ UNCHANGED <<sessions, sessionsQueue, now, toMaster, writes, timeouts,
                 crashes, answered, overlapped, expired>>

\* The request as it is written: a modification is a new write.
Written(r, modified) ==
  [req[r] EXCEPT !.phase = "waiting",
                 !.session.version = IF modified THEN writes + 1 ELSE @]

\* (mutant: the response does not wait for the store)
FinishAtOnce(r, modified, methods) ==
  LET q == Written(r, modified)
  IN  /\ SendCalls(r, q, methods)
      /\ req' = [req EXCEPT ![r] = [q EXCEPT !.phase = "answered"]]
      /\ writes' = IF modified THEN writes + 1 ELSE writes
      /\ answered' = [answered EXCEPT ![q.sid] = q.session.version]

\* The calls are made and the last one's callback ends the response.
Finish(r, modified, methods) ==
  LET q == Written(r, modified)
  IN  /\ SendCalls(r, q, methods)
      /\ req' = [req EXCEPT ![r] = [q EXCEPT !.awaits = Last(methods)]]
      /\ writes' = IF modified THEN writes + 1 ELSE writes
      /\ UNCHANGED answered

\* The response is ended: with resave a loaded session is written back even if
\* nothing changed, after a save() of the handler it is only touched, and
\* logout destroys it first; a new one is written if modified.  (The service
\* of a plugin may also have cleared the store.)
End(r) ==
  /\ req[r].phase = "serving"
  /\ \/ Finish(r, TRUE, <<"set">>)
     \/ ~req[r].isNew /\ Finish(r, FALSE, <<"set">>)
     \/ ~req[r].isNew /\ Finish(r, TRUE, <<"set", "touch">>)
     \/ ~req[r].isNew /\ Finish(r, TRUE, <<"destroy", "set">>)
     \/ ~req[r].isNew /\ Finish(r, TRUE, <<"clear", "set">>)
  /\ UNCHANGED <<sessions, sessionsQueue, now, replies, used, timeouts,
                 crashes, overlapped, expired>>

\* A new session nobody touched is not stored (saveUninitialized: false).
EndUnsaved(r) ==
  /\ req[r].phase = "serving" /\ req[r].isNew
  /\ req' = [req EXCEPT ![r].phase = "answered"]
  /\ UNCHANGED <<sessions, sessionsQueue, now, toMaster, replies, used, writes,
                 timeouts, crashes, answered, overlapped, expired>>

\* (mutant: the store is asked for a method of Map that it does not have)
RegenerateByDelete(r) ==
  /\ req[r].phase = "serving"
  /\ SendCalls(r, req[r], <<"delete">>)
  /\ req' = [req EXCEPT ![r].phase = "waiting", ![r].awaits = "delete"]
  /\ UNCHANGED <<sessions, sessionsQueue, now, replies, used, writes, timeouts,
                 crashes, answered, overlapped, expired>>

\* regenerateSessionId() of lib/webauth.js, when a session is restored.
Regenerate(r) ==
  /\ req[r].phase = "serving"
  /\ SendCalls(r, req[r], <<"destroy">>)
  /\ req' = [req EXCEPT ![r].phase = "waiting", ![r].awaits = "destroy"]
  /\ UNCHANGED <<sessions, sessionsQueue, now, replies, used, writes, timeouts,
                 crashes, answered, overlapped, expired>>

\* The callback of the last call: the response goes out.
Respond(r, rep) ==
  /\ TakeReply(r, rep) /\ rep.method \in {"set", "touch"}
  /\ req' = [req EXCEPT ![r].phase = "answered"]
  /\ answered' = [answered EXCEPT ![req[r].sid] = req[r].session.version]
  /\ UNCHANGED <<sessions, sessionsQueue, now, toMaster, used, writes,
                 timeouts, crashes, overlapped, expired>>

\* callClusterMethodRemote() gives up: a warning, and no callback.
Timeout(r) ==
  /\ req[r].phase = "waiting" /\ timeouts < MaxTimeouts
  /\ timeouts' = timeouts + 1
  /\ req' = [req EXCEPT ![r].phase = "hung"]
  /\ UNCHANGED <<sessions, sessionsQueue, now, toMaster, replies, used, writes,
                 crashes, answered, overlapped, expired>>

\* A worker exits: its requests are gone, its calls are not.
Crash(w) ==
  /\ crashes < MaxCrashes
  /\ \E r \in Request : Active(r) /\ req[r].worker = w
  /\ crashes' = crashes + 1
  /\ req' = [r \in Request |->
               IF Active(r) /\ req[r].worker = w
               THEN [req[r] EXCEPT !.phase = "lost"] ELSE req[r]]
  /\ UNCHANGED <<sessions, sessionsQueue, now, toMaster, replies, used, writes,
                 timeouts, answered, overlapped, expired>>

-----------------------------------------------------------------------------
Init ==
  /\ sessions = << >> /\ sessionsQueue = << >>
  /\ now = 0
  /\ toMaster = [w \in Worker |-> << >>]
  /\ replies = {}
  /\ \E w \in Worker, s \in Sid :
       req = [r \in Request |->
                [phase |-> "idle", worker |-> w, sid |-> s, isNew |-> FALSE,
                 session |-> [version |-> 0, lastTouch |-> Untouched],
                 awaits |-> "get"]]
  /\ used = {} /\ writes = 0 /\ timeouts = 0 /\ crashes = 0
  /\ answered = [s \in Sid |-> 0]
  /\ overlapped = {} /\ expired = FALSE

WorkerStep(r) ==
  \/ End(r) \/ EndUnsaved(r) \/ Regenerate(r)
  \/ \E rep \in replies : Loaded(r, rep) \/ Respond(r, rep)

Next ==
  \/ \E w \in Worker : HandleCall(w) \/ Crash(w)
  \/ Clean \/ Tick
  \/ \E r \in Request :
       \/ WorkerStep(r) \/ Timeout(r)
       \/ \E w \in Worker, s \in Sid :
            Arrive(r, w, s) \/ ArriveWithoutCookie(r, w, s)

Spec == Init /\ [][Next]_vars

\* The event loops of the master and of the workers do not stay idle.
FairSpec ==
  /\ Spec
  /\ \A w \in Worker : WF_vars(HandleCall(w))
  /\ \A r \in Request : WF_vars(WorkerStep(r))

-----------------------------------------------------------------------------
(* Properties *)

\* Every stored session has an entry in the queue, so that the limit applies
\* to it and removeSid()'s splice cuts out its own entry; the Map is then no
\* larger than the limit.  This has to survive expiry (which leaves entries
\* behind), re-creation of an expired or destroyed session by a request that
\* still holds a copy, and the pushing out of a stale entry.
StoreBounded ==
  /\ DOMAIN sessions \subseteq ToSet(sessionsQueue)
  /\ Len(sessionsQueue) <= StoredSessionsLimit

\* Only the cleaner leaves entries behind: as long as nothing expired, the
\* queue lists each stored session once, and what is pushed out at the limit
\* is the session that was stored first.
NoStaleEntries ==
  ~expired => /\ IsInjective(sessionsQueue)
              /\ ToSet(sessionsQueue) = DOMAIN sessions

\* What a client was answered is in the store for its next request, whichever
\* worker handles that: a session no two requests worked on at a time is
\* never found older than its last answered write.
AnsweredWritesKept ==
  \A s \in DOMAIN sessions \ overlapped :
    sessions[s].version >= answered[s]

\* A request whose worker lives and whose remote calls are answered in time
\* gets its response (or no session id was left).
EveryRequestEnds ==
  \A r \in Request :
    Active(r) ~> req[r].phase \in {"answered", "hung", "lost"} \/ used = Sid

\* "Required, callback(error, session)" at get(): the callback is called, with
\* the error if there is one.
GetCallsBack ==
  \A r \in Request :
    (req[r].phase = "waiting" /\ req[r].awaits = "get")
      ~> req[r].phase \in {"serving", "answered"} \/ used = Sid
=============================================================================
