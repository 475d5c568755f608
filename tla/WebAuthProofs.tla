--------------------------- MODULE WebAuthProofs ---------------------------
(***************************************************************************)
(* WebAuth, for every number of requests, deployment, timeout and life of  *)
(* the tokens, whatever overlaps:                                          *)
(*   - a login or refresh that is answered with success leaves an          *)
(*     authenticated session (SuccessAuthenticates, from IInv);            *)
(*   - a session refused as expired stays refused (ExpiredIsRefused, from  *)
(*     ShapeInv and ExpInv);                                               *)
(*   - the variables keep their types and the identifiers suffice          *)
(*     (TypeCorrect, from IdInv);                                          *)
(*   - a user who logged in is served until the session's end, and one who *)
(*     logged out is refused (UserIsKept, from KeepInv).                   *)
(***************************************************************************)
EXTENDS WebAuth, FiniteSetTheorems, TLAPS

\* The fields the argument looks at, where records are copied and updated.
IsPlugin(p) == {"auth", "kept"} \subseteq DOMAIN p /\ p.auth \in BOOLEAN
IsSession(s) == "plugin" \in DOMAIN s /\ IsPlugin(s.plugin)
IsRequest(q) ==
  /\ {"op", "pc", "was", "sess", "result"} \subseteq DOMAIN q
  /\ q.was \in BOOLEAN /\ q.result.success \in BOOLEAN /\ IsSession(q.sess)

Shapes ==
  /\ DOMAIN req = Requests /\ \A r \in Requests : IsRequest(req[r])
  /\ \A s \in Stored : IsSession(sessions[s])

\* What SuccessIsAuthenticated says of one request.
Leaves(q) == q.sess.plugin.auth \/ (canRefresh /\ q.op = "refresh" /\ ~q.was)

\* Only an answered request has a result of success; and where a request waits
\* for the authenticator, what it remembers of the session (was) still holds of
\* its copy.  A refresh that waits for ZSS needs the latter: its success leaves
\* the copy as authenticated as it was.
Waits(q) ==
  /\ q.pc = "authenticate" => q.op = "login"
  /\ q.pc = "zssRefresh" => (q.was => PluginOf(q.sess).auth) /\ canRefresh /\ q.op = "refresh"
  /\ q.pc = "authenticateViaCookie" => ~canRefresh
Progress(q) == Waits(q) /\ (q.result.success => q.pc = "answered" /\ Leaves(q))

IInv == Shapes /\ \A r \in Requests : Progress(req[r])

-----------------------------------------------------------------------------
(* The parts of a session *)

LEMMA StatusFacts ==
  ASSUME NEW p, IsPlugin(p)
  PROVE  IsPlugin(getStatus(p)) /\ (getStatus(p).auth => p.auth)
  BY DEF getStatus, IsPlugin

\* The state found on arrival is authenticated only if it is stored.
LEMMA PluginFacts ==
  ASSUME NEW s, IsSession(s)
  PROVE  IsPlugin(PluginOf(s)) /\ (PluginOf(s).auth => s.plugin.kept = "yes" /\ s.plugin.auth)
  BY DEF PluginOf, NoPlugin, IsSession, IsPlugin

LEMMA AttachFacts ==
  ASSUME NEW s, IsSession(s), NEW p, IsPlugin(p)
  PROVE  /\ IsSession(Attach(s, p)) /\ Attach(s, p).plugin.auth = p.auth
         /\ PluginOf(Attach(s, p)).auth = p.auth
  BY DEF Attach, PluginOf, IsSession, IsPlugin

\* Changing the state in place changes what a later reader of it finds, if it
\* is stored.
LEMMA InPlaceFacts ==
  ASSUME NEW s, IsSession(s), NEW p, IsPlugin(p)
  PROVE  /\ IsSession(InPlace(s, p))
         /\ s.plugin.kept = "yes" => PluginOf(InPlace(s, p)).auth = p.auth
  BY AttachFacts DEF InPlace

\* A session with another expiration time.
LEMMA ExpirationFacts ==
  ASSUME NEW s, IsSession(s), NEW t
  PROVE  IsSession([s EXCEPT !.zlux = t]) /\ [s EXCEPT !.zlux = t].plugin = s.plugin
  BY DEF IsSession

-----------------------------------------------------------------------------
(* Requests *)

\* A request that starts has a session of the store, or a fresh one.
LEMMA LoadedFacts ==
  ASSUME Shapes, NEW q, IsRequest(q)
  PROVE  /\ IsRequest(Loaded(q)) /\ Loaded(q).op = q.op /\ Loaded(q).was = q.was
         /\ Loaded(q).result = q.result /\ Loaded(q).pc = q.pc
PROOF
  <1>1. IsSession(Fresh)
    BY DEF Fresh, NoPlugin, IsSession, IsPlugin
  <1>2. CASE q.cookie \in Stored
    BY <1>2 DEF Loaded, IsRequest, Shapes
  <1>3. CASE q.cookie \notin Stored
    BY <1>3 DEF Loaded, IsRequest
  <1> QED
    BY <1>2, <1>3

\* A request with another copy of its session.
LEMMA WithSession ==
  ASSUME NEW q, IsRequest(q), NEW s, IsSession(s)
  PROVE  /\ IsRequest([q EXCEPT !.sess = s]) /\ [q EXCEPT !.sess = s].sess = s
         /\ [q EXCEPT !.sess = s].result = q.result /\ [q EXCEPT !.sess = s].op = q.op
         /\ [q EXCEPT !.sess = s].was = q.was
  BY DEF IsRequest

\* One request makes progress, the others and the deployment stay.
LEMMA OneMoves ==
  ASSUME IInv, NEW r \in Requests, NEW q, IsRequest(q), Progress(q),
         req' = [req EXCEPT ![r] = q], conf' = conf,
         \A s \in DOMAIN sessions' : IsSession(sessions'[s])
  PROVE  IInv'
PROOF
  <1>1. canRefresh' = canRefresh
    BY DEF canRefresh, usingZss, usingSso
  <1>2. DOMAIN req' = Requests /\ \A x \in Requests : req'[x] = IF x = r THEN q ELSE req[x]
    BY DEF IInv, Shapes
  <1>3. Shapes'
    BY <1>2 DEF IInv, Shapes, Stored
  <1>4. \A x \in Requests : Progress(req'[x])
    BY <1>2 DEF IInv
  <1>5. \A x \in Requests : Progress(req[x])'
    BY <1>1, <1>4 DEF Progress, Waits, Leaves, PluginOf, NoPlugin
  <1> QED
    BY <1>3, <1>5 DEF IInv

\* The answer, and the copy of the session saved with it.
LEMMA FinishKeeps ==
  ASSUME IInv, NEW r \in Requests, NEW q, IsRequest(q), q.result.success => Leaves(q),
         NEW code, Finish(r, q, code), conf' = conf
  PROVE  IInv'
PROOF
  <1> DEFINE a == [q EXCEPT !.pc = "answered", !.code = code,
                            !.setCookie = Saves(q) /\ q.sid # q.cookie]
  <1>1. /\ IsRequest(a) /\ a.pc = "answered" /\ a.result = q.result
        /\ a.sess = q.sess /\ a.op = q.op /\ a.was = q.was
    BY DEF IsRequest
  <1>2. Progress(a)
    BY <1>1 DEF Progress, Waits, Leaves
  <1>3. req' = [req EXCEPT ![r] = a] /\ sessions' = Saved(q)
    BY DEF Finish
  <1>4. \A s \in DOMAIN sessions' : IsSession(sessions'[s])
    BY <1>3 DEF Saved, Stored, IInv, Shapes, IsRequest
  <1> HIDE DEF a
  <1> QED
    BY <1>1, <1>2, <1>3, <1>4, OneMoves

\* A wait.
LEMMA WaitKeeps ==
  ASSUME IInv, NEW r \in Requests, NEW q, IsRequest(q), ~q.result.success,
         NEW pc, Waits([q EXCEPT !.pc = pc]), Wait(r, q, pc), conf' = conf
  PROVE  IInv'
PROOF
  <1> DEFINE a == [q EXCEPT !.pc = pc]
  <1>1. IsRequest(a) /\ a.result = q.result
    BY DEF IsRequest
  <1>2. Progress(a)
    BY <1>1 DEF Progress
  <1>3. req' = [req EXCEPT ![r] = a] /\ sessions' = sessions
    BY DEF Wait
  <1> HIDE DEF a
  <1> QED
    BY <1>1, <1>2, <1>3, OneMoves DEF IInv, Shapes, Stored

-----------------------------------------------------------------------------
(* Login and refresh *)

\* A result, and what its success needs of the authenticator's state.
IsResult(x) == x.success \in BOOLEAN
Justified(q, p, x) ==
  x.success => p.auth \/ (canRefresh /\ q.op = "refresh" /\ ~q.was)

\* What the authenticator's result makes of its state.
LEMMA AuthenticatedFacts ==
  ASSUME NEW q, NEW p, IsPlugin(p), NEW result, IsResult(result)
  PROVE  IsPlugin(Authenticated(q, p, result))
PROOF
  <1>1. CASE result.success
    BY <1>1 DEF Authenticated, IsPlugin
  <1>2. CASE ~result.success
    BY <1>2 DEF Authenticated, Cleaned, IsPlugin
  <1> QED
    BY <1>1, <1>2

\* The end of a login or refresh: the authenticator's state is attached to the
\* session whenever the result is a success.
LEMMA AuthEndKeeps ==
  ASSUME IInv, NEW r \in Requests, NEW q, IsRequest(q), NEW s, IsSession(s),
         NEW p, IsPlugin(p), NEW result, IsResult(result), Justified(q, p, result),
         authEnd(r, q, s, p, result), conf' = conf
  PROVE  IInv'
PROOF
  <1> DEFINE c == Concluded(q, s, p, result)
             attached == IF q.was \/ result.success THEN Attach(s, p) ELSE InPlace(s, p)
  <1>1. IsSession(attached) /\ (result.success => attached.plugin.auth = p.auth)
    BY AttachFacts, InPlaceFacts
  <1>2. /\ IsSession([attached EXCEPT !.zlux = NewExpiration(result)])
        /\ [attached EXCEPT !.zlux = NewExpiration(result)].plugin = attached.plugin
    BY <1>1, ExpirationFacts
  <1>3. /\ IsRequest(c) /\ c.result = result /\ c.op = q.op /\ c.was = q.was
        /\ c.sess.plugin = attached.plugin
    BY <1>2 DEF Concluded, IsRequest, IsResult
  <1>4. c.result.success => Leaves(c)
    BY <1>1, <1>3 DEF Leaves, Justified
  <1>5. Finish(r, c, IF result.success THEN 200 ELSE 401)
    BY DEF authEnd
  <1> HIDE DEF c
  <1> QED
    BY <1>3, <1>4, <1>5, FinishKeeps

\* The start of a login or refresh: what it remembers is what its copy says.
LEMMA AuthBeginKeeps ==
  ASSUME IInv, NEW r \in Requests, authBegin(r)
  PROVE  IInv'
PROOF
  <1> DEFINE q0 == Loaded(req[r])
             p == getStatus(PluginOf(q0.sess))
             q == [q0 EXCEPT !.was = p.auth, !.sess = InPlace(q0.sess, p)]
  <1>1. /\ IsRequest(q0) /\ q0.result = req[r].result /\ q0.op = req[r].op
        /\ ~q0.result.success
    BY LoadedFacts DEF IInv, Shapes, authBegin, Progress
  <1>2. /\ IsPlugin(p) /\ (p.auth => q0.sess.plugin.kept = "yes")
        /\ IsSession(InPlace(q0.sess, p))
        /\ p.auth => PluginOf(InPlace(q0.sess, p)).auth
    BY <1>1, PluginFacts, StatusFacts, InPlaceFacts DEF IsRequest
  <1>3. /\ IsRequest(q) /\ q.result = q0.result /\ q.op = q0.op /\ q.was = p.auth
        /\ q.sess = InPlace(q0.sess, p)
    <2>1. p.auth \in BOOLEAN
      BY <1>2 DEF IsPlugin
    <2> QED
      BY <1>1, <1>2, <2>1 DEF IsRequest
  <1>4. conf' = conf /\ q.op \in {"login", "refresh"}
    BY <1>1, <1>3 DEF authBegin
  <1>5. /\ IsResult(Failure) /\ \A x : Justified(q, x, Failure)
        /\ IsPlugin(Authenticated(q, p, Failure))
    <2>1. IsResult(Failure) /\ \A x : Justified(q, x, Failure)
      BY DEF Failure, Result, IsResult, Justified
    <2> HIDE DEF p, q
    <2> QED
      BY <1>2, <2>1, AuthenticatedFacts
  <1>6. ASSUME NEW pc, Wait(r, q, pc),
               \/ pc = "authenticate" /\ q.op = "login"
               \/ pc = "zssRefresh" /\ canRefresh /\ q.op = "refresh"
               \/ pc = "authenticateViaCookie" /\ ~canRefresh
        PROVE  IInv'
    <2>1. Waits([q EXCEPT !.pc = pc])
      <3>1. /\ [q EXCEPT !.pc = pc].pc = pc /\ [q EXCEPT !.pc = pc].op = q.op
            /\ [q EXCEPT !.pc = pc].was = q.was /\ [q EXCEPT !.pc = pc].sess = q.sess
        BY <1>3 DEF IsRequest
      <3> HIDE DEF q
      <3> QED
        BY <1>2, <1>3, <1>6, <3>1 DEF Waits
    <2> HIDE DEF q
    <2> QED
      BY <1>1, <1>3, <1>4, <1>6, <2>1, WaitKeeps
  <1>7. \/ q.op = "login" /\ Wait(r, q, "authenticate")
        \/ authEnd(r, q, [q.sess EXCEPT !.zlux = 0], p, Failure)
        \/ canRefresh /\ q.op = "refresh" /\ Wait(r, q, "zssRefresh")
        \/ authEnd(r, q, q.sess, p, Failure)
        \/ p.auth /\ authEnd(r, q, q.sess, p, Result(TRUE, p.ends - now, 0))
        \/ authEnd(r, q, q.sess, Authenticated(q, p, Failure), Failure)
        \/ ~canRefresh /\ Wait(r, q, "authenticateViaCookie")
    BY DEF authBegin
  <1>8. IsSession(q.sess) /\ IsSession([q.sess EXCEPT !.zlux = 0])
    BY <1>2, <1>3, ExpirationFacts
  <1>9. /\ IsResult(Result(TRUE, p.ends - now, 0))
        /\ p.auth => Justified(q, p, Result(TRUE, p.ends - now, 0))
    BY DEF Result, IsResult, Justified
  <1> HIDE DEF p, q
  <1>10. CASE \/ authEnd(r, q, [q.sess EXCEPT !.zlux = 0], p, Failure)
              \/ authEnd(r, q, q.sess, p, Failure)
              \/ authEnd(r, q, q.sess, Authenticated(q, p, Failure), Failure)
    BY <1>2, <1>3, <1>4, <1>5, <1>8, <1>10, AuthEndKeeps
  <1>11. CASE p.auth /\ authEnd(r, q, q.sess, p, Result(TRUE, p.ends - now, 0))
    BY <1>2, <1>3, <1>4, <1>8, <1>9, <1>11, AuthEndKeeps
  <1> QED
    BY <1>6, <1>7, <1>10, <1>11

\* The answer of ZSS or the gateway, taken with the copy of the session.
LEMMA AnswerKeeps ==
  ASSUME IInv, NEW r \in Requests, NEW result, IsResult(result), conf' = conf,
         req[r].pc \in {"authenticate", "zssRefresh", "authenticateViaCookie"},
         authEnd(r, req[r], req[r].sess,
                 Authenticated(req[r], NewPlugin(req[r]), result), result)
  PROVE  IInv'
PROOF
  <1> DEFINE p == NewPlugin(req[r])
  <1>1. IsRequest(req[r]) /\ Waits(req[r])
    BY DEF IInv, Shapes, Progress
  <1>2. IsPlugin(p) /\ p.auth = PluginOf(req[r].sess).auth
    <2>1. PluginOf(req[r].sess).auth \in BOOLEAN
      BY <1>1, PluginFacts DEF IsRequest, IsPlugin
    <2> QED
      BY <2>1 DEF NewPlugin, Plugin, Copy, IsPlugin
  <1>3. IsPlugin(Authenticated(req[r], p, result))
    <2> HIDE DEF p
    <2> QED
      BY <1>2, AuthenticatedFacts
  <1>4. Justified(req[r], Authenticated(req[r], p, result), result)
    <2> HIDE DEF p
    <2> QED
      BY <1>1, <1>2 DEF Justified, Authenticated, Waits, IsRequest, IsPlugin
  <1> HIDE DEF p
  <1> QED
    BY <1>1, <1>3, <1>4, AuthEndKeeps DEF IsRequest, p

LEMMA ResultFacts ==
  ASSUME NEW success \in BOOLEAN, NEW expms, NEW token
  PROVE  IsResult(Result(success, expms, token)) /\ IsResult(Failure)
  BY DEF Result, Failure, IsResult

\* A login; asking for a new password cleans the state up.
LEMMA AuthenticateKeeps ==
  ASSUME IInv, NEW r \in Requests, authenticate(r)
  PROVE  IInv'
PROOF
  <1> DEFINE q == [req[r] EXCEPT !.newToken = 0]
             p == [NewPlugin(req[r]) EXCEPT !.auth = FALSE]
  <1>1. conf' = conf /\ req[r].pc = "authenticate"
    BY DEF authenticate
  <1>2. CASE authEnd(r, q, req[r].sess, p, Failure)
    <2>1. IsRequest(q)
      BY DEF IInv, Shapes, IsRequest
    <2>2. IsPlugin(p)
      BY DEF NewPlugin, Plugin, IsPlugin
    <2>3. Justified(q, p, Failure) /\ IsSession(req[r].sess)
      BY DEF Failure, Result, Justified, IInv, Shapes, IsRequest
    <2> HIDE DEF p, q
    <2> QED
      BY <1>1, <1>2, <2>1, <2>2, <2>3, ResultFacts, AuthEndKeeps
  <1>3. ASSUME NEW result, IsResult(result),
               authEnd(r, req[r], req[r].sess,
                       Authenticated(req[r], NewPlugin(req[r]), result), result)
        PROVE  IInv'
    BY <1>1, <1>3, AnswerKeeps
  <1>4. \/ \E life : authEnd(r, req[r], req[r].sess,
                       Authenticated(req[r], NewPlugin(req[r]), Result(TRUE, life, Given + 1)),
                       Result(TRUE, life, Given + 1))
        \/ authEnd(r, req[r], req[r].sess,
                   Authenticated(req[r], NewPlugin(req[r]), Failure), Failure)
        \/ authEnd(r, q, req[r].sess, p, Failure)
    BY DEF authenticate
  <1> HIDE DEF p, q
  <1> QED
    BY <1>2, <1>3, <1>4, ResultFacts

\* A refresh of the token, or of the session by the token's own time.
LEMMA RefreshKeeps ==
  ASSUME IInv, NEW r \in Requests, zssRefresh(r) \/ authenticateViaCookie(r)
  PROVE  IInv'
PROOF
  <1>1. conf' = conf /\ req[r].pc \in {"zssRefresh", "authenticateViaCookie"}
    BY DEF zssRefresh, authenticateViaCookie
  <1>2. ASSUME NEW result, IsResult(result),
               authEnd(r, req[r], req[r].sess,
                       Authenticated(req[r], NewPlugin(req[r]), result), result)
        PROVE  IInv'
    BY <1>1, <1>2, AnswerKeeps
  <1>3. CASE zssRefresh(r)
    <2>1. \/ \E life : authEnd(r, req[r], req[r].sess,
                         Authenticated(req[r], NewPlugin(req[r]), Result(TRUE, life, Given + 1)),
                         Result(TRUE, life, Given + 1))
          \/ authEnd(r, req[r], req[r].sess,
                     Authenticated(req[r], NewPlugin(req[r]), Failure), Failure)
      BY <1>3 DEF zssRefresh
    <2> QED
      BY <1>2, <2>1, ResultFacts
  <1>4. CASE authenticateViaCookie(r)
    <2> DEFINE out == Authenticated(req[r], NewPlugin(req[r]), Failure)
               q == [req[r] EXCEPT !.sess = InPlace(@, out)]
               x == Result(TRUE, ends[req[r].token] - now, 0)
    <2>1. \/ authEnd(r, req[r], req[r].sess, Authenticated(req[r], NewPlugin(req[r]), x), x)
          \/ authEnd(r, req[r], req[r].sess, out, Failure)
          \/ Finish(r, q, 500)
      BY <1>4 DEF authenticateViaCookie
    <2>2. CASE Finish(r, q, 500)
      <3>1. IsRequest(req[r]) /\ ~req[r].result.success
        BY <1>1 DEF IInv, Shapes, Progress, IsRequest
      <3>2. IsPlugin(NewPlugin(req[r]))
        <4>1. PluginOf(req[r].sess).auth \in BOOLEAN
          BY <3>1, PluginFacts DEF IsRequest, IsPlugin
        <4> QED
          BY <4>1 DEF NewPlugin, Plugin, Copy, IsPlugin
      <3>3. IsSession(InPlace(req[r].sess, out))
        <4>1. IsPlugin(out)
          BY <3>2, ResultFacts, AuthenticatedFacts
        <4> HIDE DEF out
        <4> QED
          BY <3>1, <4>1, InPlaceFacts DEF IsRequest
      <3>4. IsRequest(q) /\ ~q.result.success
        BY <3>1, <3>3, WithSession
      <3> HIDE DEF q
      <3> QED
        BY <1>1, <2>2, <3>4, FinishKeeps
    <2>3. IsResult(x) /\ IsResult(Failure)
      BY ResultFacts
    <2> HIDE DEF x, q
    <2> QED
      BY <1>2, <2>1, <2>2, <2>3
  <1> QED
    BY <1>3, <1>4

-----------------------------------------------------------------------------
(* Logout, status and service requests *)

\* A request that waits for something else than a login or refresh.
LEMMA WaitElsewhere ==
  ASSUME IInv, NEW r \in Requests, NEW q, IsRequest(q), ~q.result.success,
         NEW pc \in {"logout", "serve", "restore"}, Wait(r, q, pc), conf' = conf
  PROVE  IInv'
PROOF
  <1>1. [q EXCEPT !.pc = pc].pc = pc
    BY DEF IsRequest
  <1>2. Waits([q EXCEPT !.pc = pc])
    BY <1>1 DEF Waits
  <1> QED
    BY <1>2, WaitKeeps

\* A request that has not been answered has no success yet.
LEMMA NotYet ==
  ASSUME IInv, NEW r \in Requests, req[r].pc # "answered"
  PROVE  /\ IsRequest(req[r]) /\ ~req[r].result.success
         /\ IsRequest(Loaded(req[r])) /\ ~Loaded(req[r]).result.success
  BY LoadedFacts DEF IInv, Shapes, Progress

LEMMA LogoutKeeps ==
  ASSUME IInv, NEW r \in Requests, logoutBegin(r) \/ logoutEnd(r)
  PROVE  IInv'
PROOF
  <1>1. CASE logoutBegin(r)
    <2> DEFINE q0 == Loaded(req[r])
               s == getStatus(PluginOf(q0.sess))
               p == IF usingSso THEN s ELSE [s EXCEPT !.auth = FALSE]
               q == [q0 EXCEPT !.sess = InPlace(@, p)]
    <2>1. conf' = conf /\ req[r].pc = "sent" /\ Wait(r, q, "logout")
      BY <1>1 DEF logoutBegin
    <2>2. IsRequest(q0) /\ ~q0.result.success
      BY <2>1, NotYet
    <2>3. IsPlugin(s)
      BY <2>2, PluginFacts, StatusFacts DEF IsRequest
    <2>4. IsPlugin(p)
      BY <2>3 DEF IsPlugin
    <2>5. IsSession(InPlace(q0.sess, p))
      <3> HIDE DEF p, q0
      <3> QED
        BY <2>2, <2>4, InPlaceFacts DEF IsRequest
    <2>6. IsRequest(q) /\ ~q.result.success
      BY <2>2, <2>5, WithSession
    <2> HIDE DEF q
    <2> QED
      BY <2>1, <2>6, WaitElsewhere
  <1>2. CASE logoutEnd(r)
    <2> DEFINE q == [req[r] EXCEPT !.sess = LoggedOut(@)]
    <2>1. /\ conf' = conf /\ req[r].pc = "logout"
          /\ Finish(r, [q EXCEPT !.newToken = 0], 200) \/ Finish(r, q, 500)
      BY <1>2 DEF logoutEnd
    <2>2. IsRequest(req[r]) /\ ~req[r].result.success
      BY <2>1, NotYet
    <2>3. IsSession(LoggedOut(req[r].sess))
      BY DEF LoggedOut, IsSession, IsPlugin, NoPlugin, Emptied
    <2>4. IsRequest(q) /\ ~q.result.success
      BY <2>2, <2>3, WithSession
    <2>5. IsRequest([q EXCEPT !.newToken = 0]) /\ ~[q EXCEPT !.newToken = 0].result.success
      <3> HIDE DEF q
      <3> QED
        BY <2>4 DEF IsRequest
    <2> HIDE DEF q
    <2> QED
      BY <2>1, <2>4, <2>5, FinishKeeps
  <1> QED
    BY <1>1, <1>2

LEMMA StatusKeeps ==
  ASSUME IInv, NEW r \in Requests, status(r)
  PROVE  IInv'
PROOF
  <1> DEFINE q0 == Loaded(req[r])
             p == getStatus(PluginOf(q0.sess))
             q == [q0 EXCEPT !.sess = InPlace(@, getStatus(PluginOf(@)))]
  <1>1. conf' = conf /\ req[r].pc = "sent" /\ Finish(r, q, 200)
    BY DEF status
  <1>2. IsRequest(q0) /\ ~q0.result.success
    BY <1>1, NotYet
  <1>3. IsSession(InPlace(q0.sess, p))
    BY <1>2, PluginFacts, StatusFacts, InPlaceFacts DEF IsRequest
  <1>4. IsRequest(q) /\ ~q.result.success
    BY <1>2, <1>3, WithSession
  <1> HIDE DEF q
  <1> QED
    BY <1>1, <1>4, FinishKeeps

LEMMA AuthorizedKeeps ==
  ASSUME IInv, NEW r \in Requests, NEW q, IsRequest(q), ~q.result.success,
         NEW p, Authorized(r, q, p), conf' = conf
  PROVE  IInv'
PROOF
  <1> DEFINE a == [q EXCEPT !.revived = q.over /\ q.sid \in refused]
  <1>1. IsRequest(a) /\ ~a.result.success
    BY DEF IsRequest
  <1>2. Wait(r, a, "serve") \/ Finish(r, q, 401)
    BY DEF Authorized
  <1> HIDE DEF a
  <1> QED
    BY <1>1, <1>2, WaitElsewhere, FinishKeeps

LEMMA MiddlewareKeeps ==
  ASSUME IInv, NEW r \in Requests, middleware(r)
  PROVE  IInv'
PROOF
  <1> DEFINE q == Loaded(req[r])
             late == [q EXCEPT !.sess.zlux = 0]
  <1>1. /\ conf' = conf /\ req[r].pc = "sent"
        /\ \/ Wait(r, q, "restore")
           \/ Finish(r, late, 401)
           \/ Authorized(r, q, PluginOf(q.sess))
    BY DEF middleware
  <1>2. IsRequest(q) /\ ~q.result.success
    BY <1>1, NotYet
  <1>3. IsRequest(late) /\ ~late.result.success
    <2>1. IsSession([q.sess EXCEPT !.zlux = 0])
      BY <1>2, ExpirationFacts DEF IsRequest
    <2>2. late = [q EXCEPT !.sess = [q.sess EXCEPT !.zlux = 0]]
      BY <1>2 DEF IsRequest
    <2> QED
      BY <1>2, <2>1, <2>2, WithSession
  <1> HIDE DEF q, late
  <1> QED
    BY <1>1, <1>2, <1>3, WaitElsewhere, FinishKeeps, AuthorizedKeeps

\* The session of an HA token, made anew or not.
LEMMA RestoreKeeps ==
  ASSUME IInv, NEW r \in Requests, restore(r)
  PROVE  IInv'
PROOF
  <1> DEFINE valid == req[r].token # 0 /\ ends[req[r].token] > now
             restored == Attach([req[r].sess EXCEPT !.zlux = Never], Plugin(valid, 0))
             q == [req[r] EXCEPT !.pc = "restored", !.sess = restored,
                                 !.sid = GeneratedSid(req[r].token), !.over = FALSE]
             s == Attach(req[r].sess, Plugin(FALSE, 0))
             failed == [req[r] EXCEPT !.sess = s]
  <1>1. /\ conf' = conf /\ req[r].pc = "restore"
        /\ \/ /\ req' = [req EXCEPT ![r] = q]
              /\ sessions' = [x \in Stored \ {req[r].sid} |-> sessions[x]]
           \/ Authorized(r, failed, s.plugin)
    BY DEF restore
  <1>2. IsRequest(req[r]) /\ ~req[r].result.success
    BY <1>1, NotYet
  <1>3. IsPlugin(Plugin(valid, 0)) /\ IsPlugin(Plugin(FALSE, 0))
    BY DEF Plugin, IsPlugin
  <1>4. IsSession([req[r].sess EXCEPT !.zlux = Never])
    BY <1>2, ExpirationFacts DEF IsRequest
  <1>5. IsSession(restored)
    <2> HIDE DEF valid
    <2> QED
      BY <1>3, <1>4, AttachFacts
  <1>6. CASE Authorized(r, failed, s.plugin)
    <2>1. IsSession(s)
      BY <1>2, <1>3, AttachFacts DEF IsRequest
    <2> HIDE DEF s
    <2>2. IsRequest(failed) /\ ~failed.result.success
      BY <1>2, <2>1, WithSession
    <2> HIDE DEF failed
    <2> QED
      BY <1>1, <1>6, <2>2, AuthorizedKeeps
  <1>7. CASE /\ req' = [req EXCEPT ![r] = q]
             /\ sessions' = [x \in Stored \ {req[r].sid} |-> sessions[x]]
    <2> HIDE DEF restored
    <2>1. IsRequest(q) /\ ~q.result.success /\ q.pc = "restored"
      BY <1>2, <1>5 DEF IsRequest
    <2>2. Progress(q)
      BY <2>1 DEF Progress, Waits
    <2>3. \A x \in DOMAIN sessions' : IsSession(sessions'[x])
      BY <1>7 DEF IInv, Shapes, Stored
    <2> HIDE DEF q
    <2> QED
      BY <1>1, <1>7, <2>1, <2>2, <2>3, OneMoves
  <1> QED
    BY <1>1, <1>6, <1>7

LEMMA ServeKeeps ==
  ASSUME IInv, NEW r \in Requests, authorize(r) \/ serve(r)
  PROVE  IInv'
PROOF
  <1>1. conf' = conf /\ req[r].pc \in {"restored", "serve"}
    BY DEF authorize, serve
  <1>2. IsRequest(req[r]) /\ ~req[r].result.success
    BY <1>1, NotYet
  <1>3. \/ Authorized(r, req[r], req[r].sess.plugin)
        \/ Finish(r, req[r], 200) \/ Finish(r, req[r], 403)
    BY DEF authorize, serve
  <1> QED
    BY <1>1, <1>2, <1>3, AuthorizedKeeps, FinishKeeps

-----------------------------------------------------------------------------
(* The browser *)

LEMMA NoRequestFacts ==
  ASSUME NEW pc
  PROVE  /\ IsRequest(NoRequest(pc)) /\ ~NoRequest(pc).result.success
         /\ NoRequest(pc).pc = pc
PROOF
  <1>1. NoRequest(pc).pc = pc /\ NoRequest(pc).result = Failure /\ NoRequest(pc).sess = Fresh
        /\ NoRequest(pc).was = FALSE
    BY DEF NoRequest
  <1>2. {"op", "pc", "was", "sess", "result"} \subseteq DOMAIN NoRequest(pc)
    BY DEF NoRequest
  <1>3. IsSession(Fresh) /\ Failure.success = FALSE
    BY DEF Fresh, NoPlugin, IsSession, IsPlugin, Failure, Result
  <1> QED
    BY <1>1, <1>2, <1>3 DEF IsRequest

LEMMA ReceiveKeeps ==
  ASSUME IInv, NEW r \in Requests, receive(r)
  PROVE  IInv'
PROOF
  <1>1. /\ req' = [req EXCEPT ![r] = NoRequest("done")]
        /\ conf' = conf /\ sessions' = sessions
    BY DEF receive
  <1>2. Progress(NoRequest("done")) /\ IsRequest(NoRequest("done"))
    BY NoRequestFacts DEF Progress, Waits
  <1> QED
    BY <1>1, <1>2, OneMoves DEF IInv, Shapes, Stored

\* Sending marks the requests under way, and changes nothing of theirs that
\* matters here.
LEMMA SendKeeps ==
  ASSUME IInv, NEW r \in Requests, NEW op, Send(r, op)
  PROVE  IInv'
PROOF
  <1> DEFINE mixed == \E x \in InFlight : Changing(op) \/ Changing(req[x].op) \/ req[x].mixed
             q == [NoRequest("sent") EXCEPT !.op = op, !.cookie = browser.cookie,
                     !.token = browser.token, !.newToken = browser.token,
                     !.mixed = mixed, !.expect = expect]
  <1>1. /\ conf' = conf /\ sessions' = sessions
        /\ req' = [x \in Requests |->
                     IF x = r THEN q
                     ELSE IF x \in InFlight /\ mixed THEN [req[x] EXCEPT !.mixed = TRUE]
                     ELSE req[x]]
    BY DEF Send
  <1> HIDE DEF mixed
  <1>2. IsRequest(q) /\ Progress(q)
    <2>1. IsRequest(q) /\ ~q.result.success /\ q.pc = "sent"
      BY NoRequestFacts DEF IsRequest
    <2> QED
      BY <2>1 DEF Progress, Waits
  <1>3. ASSUME NEW x \in Requests
        PROVE  /\ IsRequest(req[x]) /\ Progress(req[x])
               /\ IsRequest([req[x] EXCEPT !.mixed = TRUE])
               /\ Progress([req[x] EXCEPT !.mixed = TRUE])
    <2>1. IsRequest(req[x]) /\ Progress(req[x])
      BY DEF IInv, Shapes
    <2> DEFINE m == [req[x] EXCEPT !.mixed = TRUE]
    <2>2. /\ IsRequest(m) /\ m.pc = req[x].pc /\ m.op = req[x].op /\ m.was = req[x].was
          /\ m.sess = req[x].sess /\ m.result = req[x].result
      BY <2>1 DEF IsRequest
    <2> HIDE DEF m
    <2>3. Progress(m)
      BY <2>1, <2>2 DEF Progress, Waits, Leaves
    <2> QED
      BY <2>1, <2>2, <2>3 DEF m
  <1> HIDE DEF q
  <1>4. DOMAIN req' = Requests /\ \A x \in Requests : IsRequest(req'[x]) /\ Progress(req'[x])
    BY <1>1, <1>2, <1>3
  <1>5. canRefresh' = canRefresh
    BY <1>1 DEF canRefresh, usingZss, usingSso
  <1>6. \A x \in Requests : Progress(req[x])'
    BY <1>4, <1>5 DEF Progress, Waits, Leaves, PluginOf, NoPlugin
  <1> QED
    BY <1>1, <1>4, <1>6 DEF IInv, Shapes, Stored

-----------------------------------------------------------------------------
(* The invariant *)

LEMMA InitIInv == Init => IInv
PROOF
  <1> SUFFICES ASSUME Init PROVE IInv
    OBVIOUS
  <1>1. req = [r \in Requests |-> NoRequest("unsent")] /\ Stored = {}
    BY DEF Init, Stored
  <1> QED
    BY <1>1, NoRequestFacts DEF IInv, Shapes, Progress, Waits

LEMMA NextIInv == IInv /\ [Next]_vars => IInv'
PROOF
  <1> SUFFICES ASSUME IInv, [Next]_vars PROVE IInv'
    OBVIOUS
  <1>1. ASSUME NEW r \in Requests, NEW op, Send(r, op) PROVE IInv'
    BY <1>1, SendKeeps
  <1>2. ASSUME NEW r \in Requests, authBegin(r) \/ authenticate(r) PROVE IInv'
    BY <1>2, AuthBeginKeeps, AuthenticateKeeps
  <1>3. ASSUME NEW r \in Requests, zssRefresh(r) \/ authenticateViaCookie(r) PROVE IInv'
    BY <1>3, RefreshKeeps
  <1>4. ASSUME NEW r \in Requests, logoutBegin(r) \/ logoutEnd(r) \/ status(r) PROVE IInv'
    BY <1>4, LogoutKeeps, StatusKeeps
  <1>5. ASSUME NEW r \in Requests, middleware(r) \/ restore(r) \/ authorize(r) \/ serve(r)
        PROVE  IInv'
    BY <1>5, MiddlewareKeeps, RestoreKeeps, ServeKeeps
  <1>6. ASSUME NEW r \in Requests, receive(r) PROVE IInv'
    BY <1>6, ReceiveKeeps
  <1>7. CASE Tick \/ UNCHANGED vars
    <2>1. UNCHANGED <<conf, req, sessions>>
      BY <1>7 DEF Tick, vars
    <2> QED
      BY <2>1 DEF IInv, Shapes, Stored, Progress, Waits, Leaves, PluginOf, NoPlugin,
                  canRefresh, usingZss, usingSso
  <1> QED
    BY <1>1, <1>2, <1>3, <1>4, <1>5, <1>6, <1>7 DEF Next

THEOREM RequestInvariance == Spec => []IInv
  BY InitIInv, NextIInv, PTL DEF Spec

\* Whatever overlaps it, a login or refresh answered with success leaves an
\* authenticated session: the authenticator's state is attached whenever its
\* result is a success; except a refresh by ZSS alone of a session that is not
\* there or has ended.
THEOREM SuccessAuthenticates == Spec => []SuccessIsAuthenticated
PROOF
  <1>1. IInv => SuccessIsAuthenticated
    BY DEF IInv, Progress, Leaves, SuccessIsAuthenticated
  <1> QED
    BY <1>1, RequestInvariance, PTL

-----------------------------------------------------------------------------
(* What sessions and requests are, in every state *)

Plugins == [auth : BOOLEAN, ends : Nat, kept : {"no", "yes", "emptied"}]

\* Only a state that is stored is authenticated, and with the gateway a session
\* does not expire before its token.
Sound(s) ==
  /\ s \in [zlux : Nat, plugin : Plugins]
  /\ s.plugin.auth => s.plugin.kept = "yes"
  /\ usingSso /\ s.plugin.auth /\ s.zlux # 0 => s.plugin.ends <= s.zlux

Holding == {"authenticate", "zssRefresh", "authenticateViaCookie", "logout", "restore",
            "restored", "serve"}
Fields == {"op", "pc", "cookie", "token", "sid", "sess", "was", "code", "result",
           "newToken", "setCookie", "mixed", "expect", "at", "over", "revived"}
Typed(q, given) ==
  /\ Fields \subseteq DOMAIN q
  /\ q.pc \in {"unsent", "sent", "answered", "done"} \cup Holding
  /\ q.token \in 0 .. given /\ q.newToken \in 0 .. given
  /\ Sound(q.sess) /\ q.at \in Nat
  /\ q.was \in BOOLEAN /\ q.mixed \in BOOLEAN /\ q.over \in BOOLEAN /\ q.revived \in BOOLEAN

\* What a request has got, and which operations get to which place.
StageAt(pc, q) ==
  /\ pc = "sent" =>
       /\ q.op \in {"login", "refresh", "logout", "status", "service"}
       /\ q.sess = Fresh /\ q.sid = 0 /\ ~q.was /\ ~q.over /\ ~q.revived /\ ~q.setCookie
  /\ pc = "authenticate" => q.op = "login"
  /\ pc = "zssRefresh" =>
       q.op = "refresh" /\ ~usingSso /\ q.token # 0 /\ (q.was => q.sess.plugin.auth)
  /\ pc = "authenticateViaCookie" => q.op = "refresh" /\ usingSso /\ q.token # 0
  /\ pc = "logout" => q.op = "logout"
  /\ pc = "restore" => q.op = "service" /\ conf.ha /\ q.sess = Fresh
  /\ pc = "restored" => q.op = "service" /\ conf.ha /\ ~q.over /\ q.sess.zlux = Never
  /\ pc = "serve" => q.op = "service" /\ q.sess.plugin.auth
  /\ pc \in Holding \cup {"sent"} => q.newToken = q.token
Stage(q) == StageAt(q.pc, q)

\* The requests under way are all mixed or all not; one that changes the session
\* and is not mixed is the only one.
MixedInv ==
  /\ \A x, y \in InFlight : req[x].mixed = req[y].mixed
  /\ \A x, y \in InFlight : Changing(req[x].op) /\ ~req[x].mixed => x = y

ConfType ==
  /\ conf.apiml \in BOOLEAN /\ conf.zss \in BOOLEAN /\ conf.ha \in BOOLEAN
  /\ conf.apiml \/ conf.zss
  /\ conf.timeout \in (Nat \ {0}) \cup {NoExpire}

EndsType ==
  /\ Given \in Nat /\ DOMAIN ends = 1 .. Given
  /\ \A t \in 1 .. Given : ends[t] \in Nat

ShapeInv ==
  /\ ConfType /\ EndsType /\ MixedInv
  /\ now \in Nat /\ 1 <= now /\ now <= MaxTime + 1
  /\ browser.token \in 0 .. Given
  /\ DOMAIN req = Requests
  /\ \A r \in Requests : Typed(req[r], Given) /\ Stage(req[r])
  /\ \A s \in Stored : Sound(sessions[s])

-----------------------------------------------------------------------------
(* Sessions *)

LEMMA SoundParts ==
  ASSUME NEW s, Sound(s)
  PROVE  /\ s.zlux \in Nat /\ s.plugin \in Plugins
         /\ s.plugin.auth \in BOOLEAN /\ s.plugin.ends \in Nat
         /\ s.plugin.kept \in {"no", "yes", "emptied"}
  BY DEF Sound, Plugins

LEMMA FreshSound == Sound(Fresh)
  BY DEF Sound, Plugins, Fresh, NoPlugin

\* A state with another authentication and end.
LEMMA PluginWith ==
  ASSUME NEW p \in Plugins, NEW b \in BOOLEAN, NEW e \in Nat
  PROVE  /\ [p EXCEPT !.auth = b, !.ends = e] \in Plugins
         /\ [p EXCEPT !.auth = b, !.ends = e].auth = b
  BY DEF Plugins

\* The state found on arrival.
LEMMA FoundFacts ==
  ASSUME NEW s, Sound(s)
  PROVE  /\ PluginOf(s) \in Plugins /\ PluginOf(s).auth = s.plugin.auth
         /\ s.plugin.kept = "yes" => PluginOf(s) = s.plugin
         /\ s.plugin.kept # "yes" => ~s.plugin.auth /\ ~PluginOf(s).auth
PROOF
  <1>1. s.plugin \in Plugins /\ (s.plugin.auth => s.plugin.kept = "yes")
    BY DEF Sound
  <1>2. CASE s.plugin.kept = "yes"
    BY <1>1, <1>2 DEF PluginOf
  <1>3. CASE s.plugin.kept # "yes"
    <2>1. NoPlugin \in Plugins /\ NoPlugin.auth = FALSE
      BY DEF NoPlugin, Plugins
    <2>2. PluginOf(s) = NoPlugin /\ ~s.plugin.auth /\ s.plugin.auth \in BOOLEAN
      BY <1>1, <1>3 DEF PluginOf, Plugins
    <2> QED
      BY <1>3, <2>1, <2>2
  <1> QED
    BY <1>2, <1>3

\* Another state, and another expiration time.
LEMMA AttachSound ==
  ASSUME NEW s, Sound(s), NEW p \in Plugins, NEW t \in Nat,
         usingSso /\ p.auth /\ t # 0 => p.ends <= t
  PROVE  /\ Sound([Attach(s, p) EXCEPT !.zlux = t])
         /\ [Attach(s, p) EXCEPT !.zlux = t].zlux = t
         /\ [Attach(s, p) EXCEPT !.zlux = t].plugin.auth = p.auth
         /\ [Attach(s, p) EXCEPT !.zlux = t].plugin.ends = p.ends
PROOF
  <1> DEFINE k == [p EXCEPT !.kept = "yes"]
             a == [Attach(s, p) EXCEPT !.zlux = t]
  <1>1. k \in Plugins /\ k.auth = p.auth /\ k.ends = p.ends /\ k.kept = "yes"
    BY DEF Plugins
  <1>2. s \in [zlux : Nat, plugin : Plugins]
    BY DEF Sound
  <1> HIDE DEF k
  <1>3. a \in [zlux : Nat, plugin : Plugins] /\ a.plugin = k /\ a.zlux = t
    BY <1>1, <1>2 DEF Attach, k
  <1> HIDE DEF a
  <1>4. Sound(a)
    BY <1>1, <1>3 DEF Sound
  <1> QED
    BY <1>1, <1>3, <1>4 DEF a

LEMMA SameTime ==
  ASSUME NEW s, s \in [zlux : Nat, plugin : Plugins]
  PROVE  [s EXCEPT !.zlux = s.zlux] = s
  OBVIOUS

LEMMA InPlaceSound ==
  ASSUME NEW s, Sound(s), NEW p \in Plugins, NEW t \in Nat,
         usingSso /\ p.auth /\ t # 0 => p.ends <= t
  PROVE  /\ Sound([InPlace(s, p) EXCEPT !.zlux = t])
         /\ [InPlace(s, p) EXCEPT !.zlux = t].zlux = t
         /\ [InPlace(s, p) EXCEPT !.zlux = t].plugin.auth => p.auth
PROOF
  <1>1. CASE s.plugin.kept = "yes"
    BY <1>1, AttachSound DEF InPlace
  <1>2. CASE s.plugin.kept # "yes"
    <2> DEFINE a == [s EXCEPT !.zlux = t]
    <2>1. InPlace(s, p) = s
      BY <1>2 DEF InPlace
    <2>2. s \in [zlux : Nat, plugin : Plugins] /\ ~s.plugin.auth
      BY <1>2 DEF Sound
    <2>3. a \in [zlux : Nat, plugin : Plugins] /\ a.plugin = s.plugin /\ a.zlux = t
      BY <2>2
    <2> HIDE DEF a
    <2>4. Sound(a)
      BY <2>2, <2>3 DEF Sound
    <2> QED
      BY <2>1, <2>2, <2>3, <2>4 DEF a
  <1> QED
    BY <1>1, <1>2

LEMMA InPlaceNow ==
  ASSUME NEW s, Sound(s), NEW p \in Plugins,
         usingSso /\ p.auth /\ s.zlux # 0 => p.ends <= s.zlux
  PROVE  Sound(InPlace(s, p)) /\ InPlace(s, p).zlux = s.zlux /\ (InPlace(s, p).plugin.auth => p.auth)
PROOF
  <1>1. s \in [zlux : Nat, plugin : Plugins]
    BY DEF Sound
  <1>2. InPlace(s, p) \in [zlux : Nat, plugin : Plugins] /\ InPlace(s, p).zlux = s.zlux
    BY <1>1 DEF InPlace, Attach, Plugins
  <1>3. [InPlace(s, p) EXCEPT !.zlux = s.zlux] = InPlace(s, p)
    BY <1>2, SameTime
  <1> QED
    BY <1>1, <1>2, <1>3, InPlaceSound

\* A copy is what is stored, or what getStatus leaves of it past its time.
Copied(s, b) ==
  /\ s.zlux = b.zlux
  /\ s = b \/ (~s.plugin.auth /\ (b.plugin.auth => b.plugin.ends <= now))

LEMMA StatusedFacts ==
  ASSUME NEW s, Sound(s), now \in Nat
  PROVE  /\ getStatus(PluginOf(s)) \in Plugins
         /\ Sound(InPlace(s, getStatus(PluginOf(s))))
         /\ Copied(InPlace(s, getStatus(PluginOf(s))), s)
         /\ InPlace(s, getStatus(PluginOf(s))).plugin.auth = getStatus(PluginOf(s)).auth
         /\ getStatus(PluginOf(s)).auth =>
              /\ getStatus(PluginOf(s)) = s.plugin /\ s.plugin.ends > now
              /\ s.plugin.auth /\ InPlace(s, getStatus(PluginOf(s))) = s
PROOF
  <1> DEFINE f == PluginOf(s)
             p == getStatus(f)
             a == InPlace(s, p)
  <1>1. f \in Plugins /\ f.auth = s.plugin.auth /\ f.auth \in BOOLEAN
    BY FoundFacts DEF Plugins
  <1>2. s \in [zlux : Nat, plugin : Plugins] /\ (s.plugin.auth => s.plugin.kept = "yes")
    BY DEF Sound
  <1>3. s.plugin.kept = "yes" => f = s.plugin
    BY FoundFacts
  <1>4. s.plugin.kept # "yes" => ~f.auth /\ ~s.plugin.auth
    BY FoundFacts
  <1> HIDE DEF f
  <1>5. CASE f.ends = 0 \/ f.ends <= now
    <2>1. p = [f EXCEPT !.auth = FALSE, !.ends = 0]
      BY <1>5 DEF getStatus
    <2>2. p \in Plugins /\ p.auth = FALSE
      BY <1>1, <2>1, PluginWith
    <2> HIDE DEF p
    <2>3. Sound(a) /\ a.zlux = s.zlux /\ ~a.plugin.auth
      BY <2>2, InPlaceNow
    <2>4. s.plugin.auth => s.plugin.ends <= now
      BY <1>1, <1>2, <1>3, <1>5 DEF Plugins
    <2>5. a.plugin.auth = FALSE
      <3>1. a.plugin.auth \in BOOLEAN
        BY <2>3, SoundParts
      <3> QED
        BY <2>3, <3>1
    <2> HIDE DEF a
    <2> QED
      BY <2>2, <2>3, <2>4, <2>5 DEF Copied, f, p, a
  <1>6. CASE ~(f.ends = 0 \/ f.ends <= now)
    <2>1. p = f
      BY <1>6 DEF getStatus
    <2>2. a = s
      <3>1. CASE s.plugin.kept = "yes"
        BY <1>2, <1>3, <2>1, <3>1 DEF InPlace, Attach, Plugins
      <3>2. CASE s.plugin.kept # "yes"
        BY <3>2 DEF InPlace
      <3> QED
        BY <3>1, <3>2
    <2>3. s.plugin.auth => s.plugin.ends > now
      BY <1>1, <1>2, <1>3, <1>6 DEF Plugins
    <2>4. s.plugin.auth => f = s.plugin
      BY <1>2, <1>3
    <2> HIDE DEF p, a
    <2> QED
      BY <1>1, <2>1, <2>2, <2>3, <2>4 DEF Copied, f, p, a
  <1> QED
    BY <1>5, <1>6

-----------------------------------------------------------------------------
(* Times *)

LEMMA AfterFacts ==
  ASSUME now \in Nat, NEW ms \in Nat \cup {NoExpire}
  PROVE  After(ms) \in Nat
  BY WebAuthAssumption DEF After, Never

LEMMA FailureTime ==
  ASSUME now \in Nat, ConfType
  PROVE  NewExpiration(Failure) \in Nat
  BY AfterFacts DEF NewExpiration, ResultExpms, Failure, Result, ConfType

\* A result that knows how long its token lives.
LEMMA ResultTime ==
  ASSUME now \in Nat, NEW expms \in (Nat \ {0}) \cup {NoExpire}, NEW token
  PROVE  /\ NewExpiration(Result(TRUE, expms, token)) = After(expms)
         /\ NewExpiration(Result(TRUE, expms, token)) \in Nat
PROOF
  <1>1. expms # 0 /\ Result(TRUE, expms, token).expms = expms
    BY DEF Result, NoExpire
  <1>2. NewExpiration(Result(TRUE, expms, token)) = After(expms)
    BY <1>1 DEF NewExpiration, ResultExpms
  <1> QED
    BY <1>2, AfterFacts

\* What success makes of the authenticator's state, and what failure.
LEMMA SuccessFacts ==
  ASSUME now \in Nat, NEW q, NEW p \in Plugins,
         NEW expms \in (Nat \ {0}) \cup {NoExpire}, NEW token
  PROVE  LET a == Authenticated(q, p, Result(TRUE, expms, token)) IN
         /\ a \in Plugins /\ a.ends = After(expms)
         /\ a.auth = (p.auth \/ ~(canRefresh /\ q.op = "refresh"))
PROOF
  <1> DEFINE result == Result(TRUE, expms, token)
             a == Authenticated(q, p, result)
  <1>1. result.success = TRUE /\ result.expms = expms
    BY DEF Result
  <1>2. After(expms) \in Nat
    BY AfterFacts
  <1>3. a = [p EXCEPT !.ends = After(expms),
                      !.auth = @ \/ ~(canRefresh /\ q.op = "refresh")]
    BY <1>1 DEF Authenticated
  <1>4. p.auth \in BOOLEAN
    BY DEF Plugins
  <1> DEFINE b == p.auth \/ ~(canRefresh /\ q.op = "refresh")
             e == After(expms)
  <1>5. b \in BOOLEAN
    BY <1>4
  <1>6. a = [p EXCEPT !.ends = e, !.auth = b]
    BY <1>3
  <1>7. e \in Nat
    BY <1>2
  <1> HIDE DEF a, b, e
  <1>8. a \in Plugins /\ a.ends = e /\ a.auth = b
    BY <1>5, <1>6, <1>7 DEF Plugins
  <1> QED
    BY <1>8 DEF a, b, e

LEMMA FailureFacts ==
  ASSUME NEW q, NEW p \in Plugins
  PROVE  /\ Authenticated(q, p, Failure) \in Plugins
         /\ Authenticated(q, p, Failure).auth => p.auth /\ ~usingSso
         /\ ~usingSso => Authenticated(q, p, Failure) = p
PROOF
  <1>1. Failure.success = FALSE
    BY DEF Failure, Result
  <1>2. Authenticated(q, p, Failure) = IF usingSso THEN [p EXCEPT !.auth = FALSE, !.ends = 0] ELSE p
    BY <1>1 DEF Authenticated, Cleaned
  <1>3. /\ [p EXCEPT !.auth = FALSE, !.ends = 0] \in Plugins
        /\ [p EXCEPT !.auth = FALSE, !.ends = 0].auth = FALSE
    BY PluginWith
  <1> QED
    BY <1>2, <1>3

\* With neither the gateway nor ZSS there is no deployment.
LEMMA RefreshBy ==
  ASSUME ConfType
  PROVE  canRefresh <=> ~usingSso
  BY DEF ConfType, canRefresh, usingZss, usingSso

-----------------------------------------------------------------------------
(* What a step makes of a request *)

\* What the browser sent with it stays as it is until the answer is received.
Carried(q0, q) ==
  /\ q.op = q0.op /\ q.cookie = q0.cookie /\ q.token = q0.token
  /\ q.mixed = q0.mixed /\ q.expect = q0.expect
\* What was found on arrival stays too, unless the session is restored.
Stays(q0, q) ==
  Carried(q0, q) /\ q.sid = q0.sid /\ q.at = q0.at /\ q.was = q0.was /\ q.over = q0.over

\* A request that waits, and one that is answered.
Around == <<conf, now, browser, expect>>
Moves(r, q) ==
  /\ req' = [req EXCEPT ![r] = q] /\ UNCHANGED Around
  /\ req[r].pc \in Holding \cup {"sent"}
  /\ Carried(req[r], q) /\ Typed(q, Given') /\ Stage(q)
Holds(r, q) ==
  /\ Moves(r, q) /\ q.pc \in Holding /\ q.newToken = req[r].newToken
  /\ UNCHANGED <<sessions, ends>>
Answers(r, q) == Moves(r, q) /\ q.pc = "answered" /\ sessions' = Saved(q)
                 /\ q.setCookie = (Saves(q) /\ q.sid # q.cookie)

\* The first step of a request takes a copy of its session.
Base(q) == IF q.cookie \in Stored THEN sessions[q.cookie] ELSE Fresh
BaseSid(q) == IF q.cookie \in Stored THEN q.cookie ELSE GeneratedSid(q.token)
Opened(q0, q) ==
  /\ q0.pc = "sent" /\ Carried(q0, q) /\ q.at = now /\ q.sid = BaseSid(q0)
  /\ q.over = (q0.cookie \in Stored /\ q0.cookie \in refused)

LEMMA BaseSound ==
  ASSUME ShapeInv, NEW q
  PROVE  Sound(Base(q))
  BY FreshSound DEF Base, ShapeInv

LEMMA LoadedOpened ==
  ASSUME ShapeInv, NEW r \in Requests, req[r].pc = "sent"
  PROVE  LET q == Loaded(req[r]) IN
         /\ Opened(req[r], q) /\ q.sess = Base(req[r]) /\ Typed(q, Given) /\ q.pc = "sent"
         /\ ~q.was /\ ~q.revived /\ q.revived = req[r].revived /\ q.newToken = q.token
PROOF
  <1> DEFINE q == Loaded(req[r])
  <1>1. Typed(req[r], Given) /\ Stage(req[r]) /\ now \in Nat
    BY DEF ShapeInv
  <1>2. Fields \subseteq DOMAIN req[r]
    BY <1>1 DEF Typed
  <1>3. /\ Fields \subseteq DOMAIN q /\ Carried(req[r], q) /\ q.at = now /\ q.pc = req[r].pc
        /\ q.was = req[r].was /\ q.revived = req[r].revived /\ q.newToken = req[r].newToken
    <2>1. CASE req[r].cookie \in Stored
      BY <1>2, <2>1 DEF Loaded, Fields, Carried
    <2>2. CASE req[r].cookie \notin Stored
      BY <1>2, <2>2 DEF Loaded, Fields, Carried
    <2> QED
      BY <2>1, <2>2
  <1>4. /\ q.sid = BaseSid(req[r]) /\ q.sess = Base(req[r])
        /\ q.over = (req[r].cookie \in Stored /\ req[r].cookie \in refused)
    <2>1. CASE req[r].cookie \in Stored
      BY <1>2, <2>1 DEF Loaded, Fields, BaseSid, Base
    <2>2. CASE req[r].cookie \notin Stored
      <3>1. q.sess = req[r].sess /\ q.over = req[r].over /\ q.sid = GeneratedSid(req[r].token)
        BY <1>2, <2>2 DEF Loaded, Fields
      <3> QED
        BY <1>1, <2>2, <3>1 DEF Stage, StageAt, Typed, BaseSid, Base
    <2> QED
      BY <2>1, <2>2
  <1> HIDE DEF q
  <1>5. Opened(req[r], q)
    BY <1>3, <1>4 DEF Opened
  <1>6. Typed(q, Given)
    BY <1>1, <1>3, <1>4, BaseSound DEF Typed, Carried
  <1> QED
    BY <1>1, <1>3, <1>4, <1>5, <1>6 DEF Stage, StageAt, q, Carried

-----------------------------------------------------------------------------
(* Waiting, answering, concluding *)

LEMMA FinishAnswers ==
  ASSUME NEW r \in Requests, req[r].pc \in Holding \cup {"sent"}, UNCHANGED Around,
         NEW q, Typed(q, Given'), Carried(req[r], q), NEW code, Finish(r, q, code)
  PROVE  \E a : /\ Answers(r, a) /\ Stays(q, a) /\ a.sess = q.sess /\ a.code = code
                /\ a.newToken = q.newToken /\ a.revived = q.revived
PROOF
  <1> DEFINE b == Saves(q) /\ q.sid # q.cookie
             a == [q EXCEPT !.pc = "answered", !.code = code, !.setCookie = b]
  <1>1. Fields \subseteq DOMAIN q
    BY DEF Typed
  <1> HIDE DEF b
  <1>2. /\ Fields \subseteq DOMAIN a /\ Stays(q, a) /\ a.sess = q.sess /\ a.code = code
        /\ a.newToken = q.newToken /\ a.revived = q.revived /\ a.mixed = q.mixed
        /\ a.pc = "answered" /\ a.setCookie = b
    BY <1>1 DEF Fields, Stays, Carried
  <1>3. req' = [req EXCEPT ![r] = a] /\ sessions' = Saved(q)
    BY DEF Finish, b
  <1> HIDE DEF a
  <1>4. Typed(a, Given') /\ Carried(req[r], a)
    BY <1>2 DEF Typed, Stays, Carried
  <1>5. Stage(a)
    BY <1>2 DEF Stage, StageAt, Holding
  <1>6. Saves(a) = Saves(q) /\ Saved(a) = Saved(q) /\ a.setCookie = (Saves(a) /\ a.sid # a.cookie)
    BY <1>2 DEF Saves, Saved, Stays, Carried, b
  <1>7. Answers(r, a)
    BY <1>2, <1>3, <1>4, <1>5, <1>6 DEF Answers, Moves
  <1> QED
    BY <1>2, <1>7

LEMMA WaitHolds ==
  ASSUME NEW r \in Requests, req[r].pc \in Holding \cup {"sent"}, UNCHANGED Around, ends' = ends,
         NEW q, Typed(q, Given), Carried(req[r], q), q.newToken = req[r].newToken,
         NEW pc \in Holding, StageAt(pc, q), Wait(r, q, pc)
  PROVE  /\ refused' = refused
         /\ \E a : /\ Holds(r, a) /\ Stays(q, a) /\ a.pc = pc /\ a.sess = q.sess
                   /\ a.revived = q.revived
PROOF
  <1> DEFINE a == [q EXCEPT !.pc = pc]
  <1>1. Fields \subseteq DOMAIN q
    BY DEF Typed
  <1>2. /\ Fields \subseteq DOMAIN a /\ Stays(q, a) /\ a.sess = q.sess
        /\ a.newToken = q.newToken /\ a.revived = q.revived /\ a.mixed = q.mixed
        /\ a.pc = pc
    BY <1>1 DEF Fields, Stays, Carried
  <1>3. req' = [req EXCEPT ![r] = a] /\ sessions' = sessions /\ refused' = refused
    BY DEF Wait
  <1> HIDE DEF a
  <1>4. Typed(a, Given) /\ Carried(req[r], a) /\ Given' = Given
    BY <1>2 DEF Typed, Stays, Carried, Given
  <1>5. Stage(a)
    <2>1. pc # "sent"
      BY DEF Holding
    <2> QED
      BY <1>2, <2>1 DEF Stage, StageAt, Stays, Carried
  <1>6. Holds(r, a)
    BY <1>2, <1>3, <1>4, <1>5 DEF Holds, Moves
  <1> QED
    BY <1>2, <1>3, <1>6

\* More tokens.
LEMMA MoreTokens ==
  ASSUME NEW q, NEW given \in Nat, NEW more \in Nat, given <= more, Typed(q, given)
  PROVE  Typed(q, more)
  BY DEF Typed

LEMMA NewTokenFacts ==
  ASSUME EndsType, now \in Nat, NEW life \in Nat \cup {NoExpire}, NewToken(life)
  PROVE  EndsType' /\ Given' = Given + 1
PROOF
  <1> DEFINE e == After(life)
             n == Given
  <1>1. e \in Nat /\ n \in Nat
    BY AfterFacts DEF EndsType
  <1>2. ends' = [t \in 1 .. n + 1 |-> IF t <= n THEN ends[t] ELSE e]
    BY DEF NewToken
  <1>3. \A t \in 1 .. n : ends[t] \in Nat
    BY DEF EndsType
  <1> HIDE DEF e, n
  <1>4. DOMAIN ends' = 1 .. n + 1 /\ \A t \in 1 .. n + 1 : ends'[t] \in Nat
    BY <1>1, <1>2, <1>3
  <1>5. Given' = n + 1
    BY <1>1, <1>4, FS_Interval DEF Given
  <1> QED
    BY <1>1, <1>4, <1>5 DEF EndsType, n

\* The end of a login or refresh.
LEMMA ConcludedFacts ==
  ASSUME NEW q, Fields \subseteq DOMAIN q, q.was \in BOOLEAN, NEW s, Sound(s), NEW p \in Plugins,
         NEW result, result.success \in BOOLEAN, NewExpiration(result) \in Nat,
         usingSso /\ p.auth => p.ends <= NewExpiration(result)
  PROVE  LET c == Concluded(q, s, p, result) IN
         /\ Fields \subseteq DOMAIN c /\ Stays(q, c) /\ c.revived = q.revived /\ c.pc = q.pc
         /\ c.newToken = (IF result.token # 0 THEN result.token ELSE q.newToken)
         /\ Sound(c.sess) /\ c.sess.zlux = NewExpiration(result)
         /\ c.sess.plugin.auth => p.auth
         /\ result.success \/ q.was => c.sess.plugin.auth = p.auth /\ c.sess.plugin.ends = p.ends
PROOF
  <1> DEFINE t == NewExpiration(result)
             attached == IF q.was \/ result.success THEN Attach(s, p) ELSE InPlace(s, p)
             a == [attached EXCEPT !.zlux = t]
             k == IF result.token # 0 THEN result.token ELSE q.newToken
             c == Concluded(q, s, p, result)
  <1>1. Sound(a) /\ a.zlux = t /\ (a.plugin.auth => p.auth)
    <2>1. CASE q.was \/ result.success
      BY <2>1, AttachSound
    <2>2. CASE ~(q.was \/ result.success)
      BY <2>2, InPlaceSound
    <2> QED
      BY <2>1, <2>2
  <1>2. result.success \/ q.was => a.plugin.auth = p.auth /\ a.plugin.ends = p.ends
    <2>1. SUFFICES ASSUME result.success \/ q.was
                   PROVE  a.plugin.auth = p.auth /\ a.plugin.ends = p.ends
      OBVIOUS
    <2>2. a = [Attach(s, p) EXCEPT !.zlux = t]
      BY <2>1
    <2>3. t \in Nat /\ (usingSso /\ p.auth /\ t # 0 => p.ends <= t)
      OBVIOUS
    <2> HIDE DEF a, t
    <2> QED
      BY <2>2, <2>3, AttachSound
  <1>3. c = [q EXCEPT !.sess = a, !.result = result, !.newToken = k]
    BY DEF Concluded
  <1> HIDE DEF a, c, k, t
  <1>4. /\ Fields \subseteq DOMAIN c /\ c.sess = a /\ c.newToken = k /\ Stays(q, c)
        /\ c.revived = q.revived /\ c.pc = q.pc
    BY <1>3 DEF Fields, Stays, Carried
  <1> QED
    BY <1>1, <1>2, <1>4 DEF c, k, t

AuthEnded(r, q, p, result, a) ==
  /\ Answers(r, a) /\ Stays(q, a) /\ a.revived = q.revived
  /\ a.code = (IF result.success THEN 200 ELSE 401)
  /\ a.newToken = (IF result.token # 0 THEN result.token ELSE q.newToken)
  /\ a.sess.zlux = NewExpiration(result)
  /\ a.sess.plugin.auth => p.auth
  /\ result.success \/ q.was => a.sess.plugin.auth = p.auth /\ a.sess.plugin.ends = p.ends
  /\ refused' = IF result.success \/ ~usingSso THEN refused \ {a.sid} ELSE refused

LEMMA AuthEndAnswers ==
  ASSUME ShapeInv, NEW r \in Requests, req[r].pc \in Holding \cup {"sent"}, UNCHANGED Around,
         NEW q, Typed(q, Given), Carried(req[r], q), NEW s, Sound(s), NEW p \in Plugins,
         NEW result, result.success \in BOOLEAN, NewExpiration(result) \in Nat,
         Given' \in Nat, Given <= Given', result.token \in 0 .. Given',
         usingSso /\ p.auth => p.ends <= NewExpiration(result),
         authEnd(r, q, s, p, result)
  PROVE  \E a : AuthEnded(r, q, p, result, a)
PROOF
  <1> DEFINE c == Concluded(q, s, p, result)
             code == IF result.success THEN 200 ELSE 401
             g == Given'
  <1>0. Fields \subseteq DOMAIN q /\ q.was \in BOOLEAN
    BY DEF Typed
  <1>1. /\ Fields \subseteq DOMAIN c /\ Stays(q, c) /\ c.revived = q.revived /\ c.pc = q.pc
        /\ c.newToken = (IF result.token # 0 THEN result.token ELSE q.newToken)
        /\ Sound(c.sess) /\ c.sess.zlux = NewExpiration(result)
        /\ c.sess.plugin.auth => p.auth
        /\ result.success \/ q.was => c.sess.plugin.auth = p.auth /\ c.sess.plugin.ends = p.ends
    BY <1>0, ConcludedFacts
  <1>2. /\ Finish(r, c, code)
        /\ refused' = IF result.success \/ ~usingSso THEN refused \ {q.sid} ELSE refused
    BY DEF authEnd
  <1>3. Given \in Nat
    BY DEF ShapeInv, EndsType
  <1>4. g \in Nat /\ Given <= g /\ result.token \in 0 .. g
    OBVIOUS
  <1> HIDE DEF c, g
  <1>5. Typed(q, g)
    BY <1>3, <1>4, MoreTokens
  <1>6. Typed(c, g)
    BY <1>1, <1>4, <1>5 DEF Typed, Stays, Carried
  <1>7. Carried(req[r], c)
    BY <1>1 DEF Stays, Carried
  <1>8. PICK a : /\ Answers(r, a) /\ Stays(c, a) /\ a.sess = c.sess /\ a.code = code
                 /\ a.newToken = c.newToken /\ a.revived = c.revived
    BY <1>2, <1>6, <1>7, FinishAnswers DEF g
  <1>9. Stays(q, a) /\ a.sid = q.sid
    BY <1>1, <1>8 DEF Stays, Carried
  <1>10. /\ a.revived = q.revived /\ a.sess.zlux = NewExpiration(result)
         /\ a.newToken = (IF result.token # 0 THEN result.token ELSE q.newToken)
         /\ a.sess.plugin.auth => p.auth
         /\ result.success \/ q.was =>
              a.sess.plugin.auth = p.auth /\ a.sess.plugin.ends = p.ends
         /\ a.code = (IF result.success THEN 200 ELSE 401)
         /\ refused' = IF result.success \/ ~usingSso THEN refused \ {a.sid} ELSE refused
    BY <1>1, <1>2, <1>8, <1>9
  <1> QED
    BY <1>8, <1>9, <1>10 DEF AuthEnded

-----------------------------------------------------------------------------
(* The outcomes of the actions: login and refresh *)

\* A login or refresh that is answered.
Concludes(r, a) ==
  /\ Answers(r, a) /\ a.op \in {"login", "refresh"} /\ a.code \in {200, 401}
  /\ a.revived = req[r].revived
  /\ a.code = 200 /\ (a.op = "login" \/ a.was) =>
       a.sess.plugin.auth /\ a.sess.plugin.ends = a.sess.zlux
  /\ a.code = 401 /\ usingSso => ~a.sess.plugin.auth
  /\ refused' = IF a.code = 200 \/ ~usingSso THEN refused \ {a.sid} ELSE refused

LEMMA OpenedStays ==
  ASSUME NEW q0, NEW q, NEW a, Opened(q0, q), Stays(q, a)
  PROVE  Opened(q0, a)
  BY DEF Opened, Stays, Carried

\* A session that no longer has an expiration time.
LEMMA WithoutTime ==
  ASSUME NEW s, Sound(s)
  PROVE  /\ Sound([s EXCEPT !.zlux = 0]) /\ [s EXCEPT !.zlux = 0].plugin = s.plugin
         /\ [s EXCEPT !.zlux = 0].zlux = 0
PROOF
  <1> DEFINE a == [s EXCEPT !.zlux = 0]
  <1>1. s \in [zlux : Nat, plugin : Plugins]
    BY DEF Sound
  <1>2. a \in [zlux : Nat, plugin : Plugins] /\ a.plugin = s.plugin /\ a.zlux = 0
    BY <1>1
  <1> HIDE DEF a
  <1>3. Sound(a)
    BY <1>2 DEF Sound
  <1> QED
    BY <1>2, <1>3 DEF a

\* A failure: with the gateway the state must be cleaned up by then.
LEMMA FailureConcludes ==
  ASSUME ShapeInv, NEW r \in Requests, req[r].pc \in Holding \cup {"sent"}, UNCHANGED Around,
         EndsType', Given' = Given,
         NEW q, Typed(q, Given), Carried(req[r], q), q.op \in {"login", "refresh"},
         q.revived = req[r].revived,
         NEW s, Sound(s), NEW p \in Plugins, usingSso => ~p.auth, authEnd(r, q, s, p, Failure)
  PROVE  \E a : Concludes(r, a) /\ Stays(q, a)
PROOF
  <1>1. Failure.success = FALSE /\ Failure.token = 0 /\ Failure.success \in BOOLEAN
    BY DEF Failure, Result
  <1>2. NewExpiration(Failure) \in Nat
    BY FailureTime DEF ShapeInv
  <1>3. Given' \in Nat /\ Given <= Given' /\ Failure.token \in 0 .. Given'
    BY <1>1 DEF ShapeInv, EndsType
  <1>0. usingSso /\ p.auth => p.ends <= NewExpiration(Failure)
    OBVIOUS
  <1>4. PICK a : AuthEnded(r, q, p, Failure, a)
    BY <1>0, <1>1, <1>2, <1>3, AuthEndAnswers
  <1>5. /\ Answers(r, a) /\ Stays(q, a) /\ a.revived = q.revived /\ (a.sess.plugin.auth => p.auth)
        /\ a.code = 401 /\ refused' = (IF ~usingSso THEN refused \ {a.sid} ELSE refused)
    BY <1>1, <1>4 DEF AuthEnded
  <1>6. Concludes(r, a)
    BY <1>5 DEF Concludes, Stays, Carried
  <1> QED
    BY <1>5, <1>6

\* A success.
LEMMA SuccessConcludes ==
  ASSUME ShapeInv, NEW r \in Requests, req[r].pc \in Holding \cup {"sent"}, UNCHANGED Around,
         EndsType', Given <= Given',
         NEW q, Typed(q, Given), Carried(req[r], q), q.op \in {"login", "refresh"},
         q.revived = req[r].revived,
         NEW s, Sound(s), NEW p \in Plugins, NEW expms, NEW token \in 0 .. Given',
         NewExpiration(Result(TRUE, expms, token)) \in Nat,
         p.ends = NewExpiration(Result(TRUE, expms, token)),
         q.op = "login" \/ q.was => p.auth,
         authEnd(r, q, s, p, Result(TRUE, expms, token))
  PROVE  \E a : Concludes(r, a) /\ Stays(q, a)
PROOF
  <1> DEFINE result == Result(TRUE, expms, token)
  <1>1. result.success = TRUE /\ result.token = token
    BY DEF Result
  <1>2. NewExpiration(result) \in Nat /\ p.ends = NewExpiration(result)
    OBVIOUS
  <1>3. Given' \in Nat /\ Given <= Given' /\ result.token \in 0 .. Given'
    BY <1>1 DEF EndsType
  <1>4. authEnd(r, q, s, p, result)
    OBVIOUS
  <1>5. p.ends \in Nat /\ result.success \in BOOLEAN
    BY <1>1 DEF Plugins
  <1> HIDE DEF result
  <1>6. p.ends <= NewExpiration(result)
    <2> DEFINE e == p.ends
               t == NewExpiration(result)
    <2>1. e \in Nat /\ e = t
      BY <1>2, <1>5
    <2> HIDE DEF e, t
    <2>2. e <= t
      BY <2>1
    <2> QED
      BY <2>2 DEF e, t
  <1>7. PICK a : AuthEnded(r, q, p, result, a)
    BY <1>2, <1>3, <1>4, <1>5, <1>6, AuthEndAnswers
  <1>8. /\ Answers(r, a) /\ Stays(q, a) /\ a.revived = q.revived
        /\ a.code = 200 /\ refused' = refused \ {a.sid}
        /\ a.op = q.op /\ a.was = q.was
    BY <1>1, <1>7 DEF AuthEnded, Stays, Carried
  <1>9. a.op = "login" \/ a.was => a.sess.plugin.auth /\ a.sess.plugin.ends = a.sess.zlux
    BY <1>1, <1>2, <1>7, <1>8 DEF AuthEnded
  <1>10. Concludes(r, a)
    BY <1>8, <1>9 DEF Concludes
  <1> QED
    BY <1>8, <1>10

\* Up to the first wait: a wait for the authenticator, or an answer.
LEMMA AuthBeginOutcome ==
  ASSUME ShapeInv, NEW r \in Requests, authBegin(r)
  PROVE  \E a : /\ Opened(req[r], a) /\ a.revived = req[r].revived /\ ends' = ends
                /\ a.op \in {"login", "refresh"}
                /\ \/ Concludes(r, a)
                   \/ Holds(r, a) /\ refused' = refused /\ Copied(a.sess, Base(req[r]))
PROOF
  <1> DEFINE q0 == Loaded(req[r])
             p == getStatus(PluginOf(q0.sess))
             s == InPlace(q0.sess, p)
             q == [q0 EXCEPT !.was = p.auth, !.sess = InPlace(q0.sess, p)]
  <1>1. /\ req[r].pc = "sent" /\ req[r].op \in {"login", "refresh"} /\ UNCHANGED Around
        /\ ends' = ends
    BY DEF authBegin, Around
  <1>2. /\ Opened(req[r], q0) /\ q0.sess = Base(req[r]) /\ Typed(q0, Given) /\ q0.pc = "sent"
        /\ ~q0.was /\ ~q0.revived /\ q0.revived = req[r].revived /\ q0.newToken = q0.token
    BY <1>1, LoadedOpened
  <1>3. Sound(q0.sess) /\ now \in Nat /\ Given' = Given /\ EndsType' /\ Given \in Nat
    BY <1>1, <1>2 DEF Typed, ShapeInv, Given, EndsType
  <1>4. /\ p \in Plugins /\ Sound(s) /\ Copied(s, q0.sess) /\ s.plugin.auth = p.auth
        /\ p.auth => /\ p = q0.sess.plugin /\ p.ends > now /\ q0.sess.plugin.auth /\ s = q0.sess
    BY <1>3, StatusedFacts
  <1>5. p.auth \in BOOLEAN /\ p.ends \in Nat
    BY <1>4 DEF Plugins
  <1>6. ~req[r].revived /\ req[r].newToken = req[r].token
    BY <1>1 DEF ShapeInv, Stage, StageAt
  <1>7. q = [q0 EXCEPT !.was = p.auth, !.sess = s]
    OBVIOUS
  <1>8. \/ q.op = "login" /\ Wait(r, q, "authenticate")
        \/ q.op = "refresh" /\ SessionExpired(q.sess)
           /\ authEnd(r, q, [q.sess EXCEPT !.zlux = 0], p, Failure)
        \/ q.op = "refresh" /\ canRefresh /\ q.token # 0 /\ Wait(r, q, "zssRefresh")
        \/ q.op = "refresh" /\ canRefresh /\ authEnd(r, q, q.sess, p, Failure)
        \/ q.op = "refresh" /\ p.auth /\ authEnd(r, q, q.sess, p, Result(TRUE, p.ends - now, 0))
        \/ q.op = "refresh" /\ ~canRefresh
           /\ authEnd(r, q, q.sess, Authenticated(q, p, Failure), Failure)
        \/ q.op = "refresh" /\ ~canRefresh /\ q.token # 0 /\ Wait(r, q, "authenticateViaCookie")
    BY DEF authBegin
  <1> HIDE DEF p, s, q0
  <1>9. /\ Fields \subseteq DOMAIN q /\ Stays(q0, [q EXCEPT !.was = q0.was]) /\ Carried(q0, q)
        /\ q.sid = q0.sid /\ q.at = q0.at /\ q.over = q0.over /\ q.pc = q0.pc
        /\ q.was = p.auth /\ q.sess = s /\ q.newToken = q0.newToken /\ q.revived = q0.revived
    <2>1. Fields \subseteq DOMAIN q0
      BY <1>2 DEF Typed
    <2> QED
      BY <1>7, <2>1 DEF Fields, Carried, Stays
  <1> HIDE DEF q
  <1>10. Typed(q, Given) /\ Carried(req[r], q) /\ Opened(req[r], q)
    BY <1>2, <1>4, <1>5, <1>9 DEF Typed, Opened, Carried
  <1>11. /\ q.op \in {"login", "refresh"} /\ q.revived = req[r].revived
         /\ q.newToken = req[r].newToken /\ q.newToken = q.token
    <2>1. ~q.revived /\ q.revived = q0.revived
      BY <1>2, <1>9
    <2>2. q.op = req[r].op /\ q.token = req[r].token /\ q.token = q0.token
      BY <1>9, <1>10 DEF Carried
    <2> QED
      BY <1>1, <1>2, <1>6, <1>9, <2>2
  <1>12. canRefresh <=> ~usingSso
    BY RefreshBy DEF ShapeInv
  <1>13. ASSUME NEW a, Concludes(r, a), Stays(q, a)
         PROVE  /\ Opened(req[r], a) /\ a.revived = req[r].revived /\ a.op \in {"login", "refresh"}
    BY <1>10, <1>13, OpenedStays DEF Concludes
  <1>14. ASSUME NEW pc \in Holding, StageAt(pc, q), Wait(r, q, pc)
         PROVE  \E a : /\ Opened(req[r], a) /\ a.revived = req[r].revived
                       /\ a.op \in {"login", "refresh"}
                       /\ Holds(r, a) /\ refused' = refused /\ Copied(a.sess, Base(req[r]))
    <2>1. /\ refused' = refused
          /\ \E a : /\ Holds(r, a) /\ Stays(q, a) /\ a.pc = pc /\ a.sess = q.sess
                    /\ a.revived = q.revived
      BY <1>1, <1>10, <1>11, <1>14, WaitHolds
    <2>2. PICK a : /\ Holds(r, a) /\ Stays(q, a) /\ a.pc = pc /\ a.sess = q.sess
                   /\ a.revived = q.revived
      BY <2>1
    <2>3. Opened(req[r], a) /\ a.op = q.op
      BY <1>10, <2>2, OpenedStays DEF Stays, Carried
    <2> QED
      BY <1>2, <1>4, <1>9, <1>11, <2>1, <2>2, <2>3
  <1>15. CASE q.op = "login" /\ Wait(r, q, "authenticate")
    <2>1. StageAt("authenticate", q) /\ "authenticate" \in Holding
      BY <1>11, <1>15 DEF StageAt, Holding
    <2> QED
      BY <1>1, <1>14, <1>15, <2>1
  <1>16. CASE q.op = "refresh" /\ canRefresh /\ q.token # 0 /\ Wait(r, q, "zssRefresh")
    <2>1. StageAt("zssRefresh", q) /\ "zssRefresh" \in Holding
      BY <1>4, <1>9, <1>11, <1>12, <1>16 DEF StageAt, Holding
    <2> QED
      BY <1>1, <1>14, <1>16, <2>1
  <1>17. CASE q.op = "refresh" /\ ~canRefresh /\ q.token # 0 /\ Wait(r, q, "authenticateViaCookie")
    <2>1. StageAt("authenticateViaCookie", q) /\ "authenticateViaCookie" \in Holding
      BY <1>11, <1>12, <1>17 DEF StageAt, Holding
    <2> QED
      BY <1>1, <1>14, <1>17, <2>1
  <1>18. CASE q.op = "refresh" /\ SessionExpired(q.sess)
              /\ authEnd(r, q, [q.sess EXCEPT !.zlux = 0], p, Failure)
    <2>1. usingSso => ~p.auth
      <3>1. SUFFICES ASSUME usingSso, p.auth PROVE FALSE
        OBVIOUS
      <3>2. q0.sess.zlux # 0 /\ q0.sess.zlux < now
        BY <1>4, <1>9, <1>18 DEF SessionExpired, Copied
      <3>3. q0.sess.plugin.ends <= q0.sess.zlux /\ q0.sess.plugin.ends > now
        BY <1>3, <1>4, <3>1, <3>2 DEF Sound
      <3>4. q0.sess.zlux \in Nat /\ q0.sess.plugin.ends \in Nat
        BY <1>3, SoundParts
      <3> QED
        BY <1>3, <3>2, <3>3, <3>4
    <2>2. Sound([q.sess EXCEPT !.zlux = 0])
      BY <1>4, <1>9, WithoutTime
    <2>3. PICK a : Concludes(r, a) /\ Stays(q, a)
      BY <1>1, <1>3, <1>4, <1>10, <1>11, <1>18, <2>1, <2>2, FailureConcludes
    <2> QED
      BY <1>1, <1>13, <2>3
  <1>19. CASE q.op = "refresh" /\ canRefresh /\ authEnd(r, q, q.sess, p, Failure)
    <2>1. PICK a : Concludes(r, a) /\ Stays(q, a)
      BY <1>1, <1>3, <1>4, <1>9, <1>10, <1>11, <1>12, <1>19, FailureConcludes
    <2> QED
      BY <1>1, <1>13, <2>1
  <1>20. CASE q.op = "refresh" /\ ~canRefresh
              /\ authEnd(r, q, q.sess, Authenticated(q, p, Failure), Failure)
    <2> DEFINE x == Authenticated(q, p, Failure)
    <2>1. x \in Plugins /\ (usingSso => ~x.auth)
      BY <1>4, FailureFacts
    <2>2. authEnd(r, q, q.sess, x, Failure)
      BY <1>20
    <2> HIDE DEF x
    <2>3. PICK a : Concludes(r, a) /\ Stays(q, a)
      BY <1>1, <1>3, <1>4, <1>9, <1>10, <1>11, <2>1, <2>2, FailureConcludes
    <2> QED
      BY <1>1, <1>13, <2>3
  <1>21. CASE q.op = "refresh" /\ p.auth
              /\ authEnd(r, q, q.sess, p, Result(TRUE, p.ends - now, 0))
    <2> DEFINE e == p.ends - now
    <2>1. e \in Nat \ {0} /\ now + e = p.ends
      BY <1>3, <1>4, <1>5, <1>21
    <2>2. authEnd(r, q, q.sess, p, Result(TRUE, e, 0))
      BY <1>21
    <2> HIDE DEF e
    <2>3. NewExpiration(Result(TRUE, e, 0)) = p.ends
      <3>1. After(e) = p.ends
        BY <1>3, <2>1 DEF After, NoExpire
      <3>2. e \in (Nat \ {0}) \cup {NoExpire}
        BY <2>1
      <3> QED
        BY <1>3, <3>1, <3>2, ResultTime
    <2>4. 0 \in 0 .. Given' /\ Given <= Given'
      BY <1>3
    <2>5. PICK a : Concludes(r, a) /\ Stays(q, a)
      BY <1>1, <1>3, <1>4, <1>5, <1>9, <1>10, <1>11, <1>21, <2>2, <2>3, <2>4, SuccessConcludes
    <2> QED
      BY <1>1, <1>13, <2>5
  <1> QED
    BY <1>8, <1>15, <1>16, <1>17, <1>18, <1>19, <1>20, <1>21

\* The answer of ZSS or the gateway; a query that fails ends in an exception.
Breaks(r, a) ==
  /\ Answers(r, a) /\ a.op = "refresh" /\ a.code = 500 /\ a.revived = req[r].revived
  /\ ~a.sess.plugin.auth /\ refused' = refused

LEMMA CopyFacts ==
  ASSUME NEW q, Sound(q.sess)
  PROVE  /\ NewPlugin(q) \in Plugins /\ NewPlugin(q).auth = q.sess.plugin.auth
         /\ NewPlugin(q).kept = "yes"
PROOF
  <1>1. PluginOf(q.sess) \in Plugins /\ PluginOf(q.sess).auth = q.sess.plugin.auth
    BY FoundFacts
  <1> QED
    BY <1>1 DEF NewPlugin, Copy, Plugin, Plugins

LEMMA AnswerOutcome ==
  ASSUME ShapeInv, NEW r \in Requests, authenticate(r) \/ zssRefresh(r) \/ authenticateViaCookie(r)
  PROVE  /\ EndsType' /\ Given <= Given'
         /\ \E a : Stays(req[r], a) /\ (Concludes(r, a) \/ Breaks(r, a))
PROOF
  <1> DEFINE q == req[r]
             p == NewPlugin(q)
             s == q.sess
             f == Authenticated(q, p, Failure)
  <1>1. Typed(q, Given) /\ Stage(q) /\ now \in Nat /\ EndsType /\ Given \in Nat /\ ConfType
    BY DEF ShapeInv, EndsType
  <1>2. UNCHANGED Around /\ q.pc \in {"authenticate", "zssRefresh", "authenticateViaCookie"}
    BY DEF authenticate, zssRefresh, authenticateViaCookie, Around
  <1>3. /\ q.op \in {"login", "refresh"} /\ q.pc \in Holding \cup {"sent"}
        /\ Carried(q, q) /\ q.revived = req[r].revived
    BY <1>1, <1>2 DEF Stage, StageAt, Carried, Holding
  <1>4. Sound(s) /\ p \in Plugins /\ p.auth = s.plugin.auth
    BY <1>1, CopyFacts DEF Typed
  <1>5. f \in Plugins /\ (f.auth => ~usingSso)
    BY <1>4, FailureFacts
  <1>6. canRefresh <=> ~usingSso
    BY <1>1, RefreshBy
  <1>7. ends' = ends => EndsType' /\ Given' = Given
    BY <1>1 DEF EndsType, Given
  <1> HIDE DEF q, p, s, f
  <1>8. ASSUME ends' = ends, authEnd(r, q, s, f, Failure)
        PROVE  \E a : Stays(q, a) /\ Concludes(r, a)
    BY <1>1, <1>2, <1>3, <1>4, <1>5, <1>7, <1>8, FailureConcludes DEF q
  <1>9. ASSUME NEW expms \in (Nat \ {0}) \cup {NoExpire}, NEW token \in 0 .. Given', EndsType',
               Given <= Given', authEnd(r, q, s, Authenticated(q, p, Result(TRUE, expms, token)),
                                        Result(TRUE, expms, token)),
               q.was /\ q.op # "login" => p.auth \/ ~canRefresh
        PROVE  \E a : Stays(q, a) /\ Concludes(r, a)
    <2> DEFINE x == Authenticated(q, p, Result(TRUE, expms, token))
    <2>1. /\ x \in Plugins /\ x.ends = After(expms)
          /\ x.auth = (p.auth \/ ~(canRefresh /\ q.op = "refresh"))
      BY <1>1, <1>4, SuccessFacts
    <2>2. /\ NewExpiration(Result(TRUE, expms, token)) \in Nat
          /\ x.ends = NewExpiration(Result(TRUE, expms, token))
      BY <1>1, <2>1, ResultTime
    <2>3. q.op = "login" \/ q.was => x.auth
      BY <1>9, <2>1
    <2>4. authEnd(r, q, s, x, Result(TRUE, expms, token))
      BY <1>9
    <2> HIDE DEF x
    <2> QED
      BY <1>1, <1>2, <1>3, <1>4, <1>9, <2>1, <2>2, <2>3, <2>4, SuccessConcludes DEF q
  <1>10. ASSUME NEW life \in Nat \cup {NoExpire}, NewToken(life)
         PROVE  /\ EndsType' /\ Given' = Given + 1 /\ Given <= Given' /\ Given + 1 \in 0 .. Given'
    <2>1. EndsType' /\ Given' = Given + 1
      BY <1>1, <1>10, NewTokenFacts
    <2> QED
      BY <1>1, <2>1
  <1>11. CASE authenticate(r)
    <2> DEFINE q1 == [q EXCEPT !.newToken = 0]
               p1 == [p EXCEPT !.auth = FALSE]
    <2>1. \/ \E life \in Lives :
               /\ life # 0 /\ NewToken(life)
               /\ authEnd(r, q, s, Authenticated(q, p, Result(TRUE, life, Given + 1)),
                          Result(TRUE, life, Given + 1))
          \/ authEnd(r, q, s, f, Failure) /\ ends' = ends
          \/ authEnd(r, q1, s, p1, Failure) /\ ends' = ends
      BY <1>11 DEF authenticate, q, p, s, f
    <2>2. q.op = "login"
      BY <1>1, <1>11 DEF Stage, StageAt, authenticate, q
    <2>3. ASSUME NEW life \in Lives, life # 0, NewToken(life),
                 authEnd(r, q, s, Authenticated(q, p, Result(TRUE, life, Given + 1)),
                         Result(TRUE, life, Given + 1))
          PROVE  /\ EndsType' /\ Given <= Given'
                 /\ \E a : Stays(q, a) /\ Concludes(r, a)
      <3>1. life \in Nat \cup {NoExpire} /\ life \in (Nat \ {0}) \cup {NoExpire}
        BY <2>3, WebAuthAssumption DEF NoExpire
      <3>2. EndsType' /\ Given <= Given' /\ Given + 1 \in 0 .. Given'
        BY <1>10, <2>3, <3>1
      <3> QED
        BY <1>9, <2>2, <2>3, <3>1, <3>2
    <2>4. CASE authEnd(r, q1, s, p1, Failure) /\ ends' = ends
      <3>1. p1 \in Plugins /\ ~p1.auth
        BY <1>4 DEF Plugins
      <3>2. Fields \subseteq DOMAIN q
        BY <1>1 DEF Typed
      <3>3. /\ Fields \subseteq DOMAIN q1 /\ Stays(q, q1) /\ q1.revived = q.revived
            /\ q1.newToken = 0 /\ q1.pc = q.pc /\ q1.sess = q.sess
        BY <3>2 DEF Fields, Stays, Carried
      <3> HIDE DEF q1, p1
      <3>4. Typed(q1, Given) /\ Carried(q, q1) /\ q1.op \in {"login", "refresh"}
        BY <1>1, <1>3, <3>3 DEF Typed, Stays, Carried
      <3>5. q1.revived = req[r].revived /\ Carried(req[r], q1)
        BY <3>3, <3>4 DEF q
      <3>6. PICK a : Concludes(r, a) /\ Stays(q1, a)
        BY <1>2, <1>3, <1>4, <1>7, <2>4, <3>1, <3>4, <3>5, FailureConcludes DEF q
      <3>7. Stays(q, a)
        BY <3>3, <3>6 DEF Stays, Carried
      <3> QED
        BY <1>1, <1>7, <2>4, <3>6, <3>7 DEF q
    <2> HIDE DEF q1, p1
    <2>5. CASE \E life \in Lives :
               /\ life # 0 /\ NewToken(life)
               /\ authEnd(r, q, s, Authenticated(q, p, Result(TRUE, life, Given + 1)),
                          Result(TRUE, life, Given + 1))
      BY <2>3, <2>5 DEF q
    <2>6. CASE authEnd(r, q, s, f, Failure) /\ ends' = ends
      <3>1. EndsType' /\ Given <= Given'
        BY <1>1, <1>7, <2>6
      <3> QED
        BY <1>8, <2>6, <3>1 DEF q
    <2> QED
      BY <2>1, <2>4, <2>5, <2>6
  <1>12. CASE zssRefresh(r)
    <2>1. \/ \E life \in Lives \ {0} :
               /\ NewToken(life)
               /\ authEnd(r, q, s, Authenticated(q, p, Result(TRUE, life, Given + 1)),
                          Result(TRUE, life, Given + 1))
          \/ authEnd(r, q, s, f, Failure) /\ ends' = ends
      BY <1>12 DEF zssRefresh, q, p, s, f
    <2>2. q.was => p.auth
      BY <1>1, <1>4, <1>12 DEF Stage, StageAt, zssRefresh, q, s
    <2>3. ASSUME NEW life \in Lives \ {0}, NewToken(life),
                 authEnd(r, q, s, Authenticated(q, p, Result(TRUE, life, Given + 1)),
                         Result(TRUE, life, Given + 1))
          PROVE  /\ EndsType' /\ Given <= Given'
                 /\ \E a : Stays(q, a) /\ Concludes(r, a)
      <3>1. life \in Nat \cup {NoExpire} /\ life \in (Nat \ {0}) \cup {NoExpire}
        BY <2>3, WebAuthAssumption DEF NoExpire
      <3>2. EndsType' /\ Given <= Given' /\ Given + 1 \in 0 .. Given'
        BY <1>10, <2>3, <3>1
      <3> QED
        BY <1>9, <2>2, <2>3, <3>1, <3>2
    <2>4. CASE authEnd(r, q, s, f, Failure) /\ ends' = ends
      <3>1. EndsType' /\ Given <= Given'
        BY <1>1, <1>7, <2>4
      <3> QED
        BY <1>8, <2>4, <3>1 DEF q
    <2> QED
      BY <2>1, <2>3, <2>4 DEF q
  <1>13. CASE authenticateViaCookie(r)
    <2> DEFINE e == ends[q.token] - now
               b == [q EXCEPT !.sess = InPlace(s, f)]
    <2>1. /\ ends' = ends
          /\ \/ /\ ends[q.token] > now
                /\ authEnd(r, q, s, Authenticated(q, p, Result(TRUE, e, 0)), Result(TRUE, e, 0))
             \/ authEnd(r, q, s, f, Failure)
             \/ Finish(r, b, 500) /\ refused' = refused
      BY <1>13 DEF authenticateViaCookie, q, p, s, f
    <2>2. q.op = "refresh" /\ usingSso /\ q.token # 0 /\ ~canRefresh
      BY <1>1, <1>6, <1>13 DEF Stage, StageAt, authenticateViaCookie, q
    <2>3. EndsType' /\ Given <= Given' /\ Given' = Given
      BY <1>1, <1>7, <2>1
    <2>4. CASE /\ ends[q.token] > now
               /\ authEnd(r, q, s, Authenticated(q, p, Result(TRUE, e, 0)), Result(TRUE, e, 0))
      <3>1. ends[q.token] \in Nat
        BY <1>1, <2>2 DEF EndsType, Typed
      <3>2. e \in Nat \ {0}
        BY <1>1, <2>4, <3>1
      <3>3. 0 \in 0 .. Given'
        BY <1>1, <2>3
      <3> HIDE DEF e
      <3>4. \E a : Stays(q, a) /\ Concludes(r, a)
        BY <1>9, <2>2, <2>3, <2>4, <3>2, <3>3
      <3> QED
        BY <2>3, <3>4 DEF q
    <2>5. CASE authEnd(r, q, s, f, Failure)
      BY <1>8, <2>1, <2>3, <2>5 DEF q
    <2>6. CASE Finish(r, b, 500) /\ refused' = refused
      <3> DEFINE t == InPlace(s, f)
      <3>1. Sound(t) /\ ~t.plugin.auth
        <4>1. ~f.auth
          BY <1>5, <2>2
        <4> QED
          BY <1>4, <1>5, <4>1, InPlaceNow
      <3>2. Fields \subseteq DOMAIN q
        BY <1>1 DEF Typed
      <3> HIDE DEF t
      <3>3. /\ Fields \subseteq DOMAIN b /\ Stays(q, b) /\ b.revived = q.revived
            /\ b.newToken = q.newToken /\ b.pc = q.pc /\ b.sess = t
        BY <3>2 DEF Fields, Stays, Carried, t
      <3> HIDE DEF b
      <3>4. Typed(b, Given') /\ Carried(req[r], b)
        BY <1>1, <2>3, <3>1, <3>3 DEF Typed, Stays, Carried, q
      <3>5. PICK a : /\ Answers(r, a) /\ Stays(b, a) /\ a.sess = b.sess /\ a.code = 500
                     /\ a.newToken = b.newToken /\ a.revived = b.revived
        BY <1>2, <1>3, <2>6, <3>4, FinishAnswers DEF q
      <3>6. Stays(q, a) /\ a.op = q.op
        BY <3>3, <3>5 DEF Stays, Carried
      <3>7. Breaks(r, a)
        BY <2>2, <2>6, <3>1, <3>3, <3>5, <3>6 DEF Breaks, q
      <3> QED
        BY <2>3, <3>6, <3>7 DEF q
    <2> QED
      BY <2>1, <2>4, <2>5, <2>6
  <1> QED
    BY <1>11, <1>12, <1>13

-----------------------------------------------------------------------------
(* The outcomes of the actions: logout, status, services *)

\* The copy of a request that has just been opened, changed in place.
LEMMA OpenedWith ==
  ASSUME ShapeInv, NEW r \in Requests, req[r].pc = "sent", NEW s, Sound(s)
  PROVE  LET q == [Loaded(req[r]) EXCEPT !.sess = s] IN
         /\ Opened(req[r], q) /\ Carried(req[r], q) /\ Typed(q, Given) /\ q.sess = s
         /\ q.newToken = req[r].newToken /\ q.newToken = q.token /\ q.revived = req[r].revived
PROOF
  <1> DEFINE q0 == Loaded(req[r])
             q == [q0 EXCEPT !.sess = s]
  <1>1. /\ Opened(req[r], q0) /\ Typed(q0, Given) /\ q0.pc = "sent"
        /\ ~q0.revived /\ q0.newToken = q0.token
    BY LoadedOpened
  <1>2. req[r].newToken = req[r].token /\ ~req[r].revived
    BY DEF ShapeInv, Stage, StageAt
  <1> HIDE DEF q0
  <1>3. Fields \subseteq DOMAIN q0
    BY <1>1 DEF Typed
  <1>4. /\ Fields \subseteq DOMAIN q /\ Stays(q0, q) /\ q.sess = s /\ q.pc = q0.pc
        /\ q.newToken = q0.newToken /\ q.revived = q0.revived
    BY <1>3 DEF Fields, Stays, Carried
  <1>5. q0.revived = FALSE /\ req[r].revived = FALSE
    <2>1. q0.revived = req[r].revived /\ q0.revived \in BOOLEAN
      BY <1>1, LoadedOpened DEF Typed, q0
    <2> QED
      BY <1>1, <1>2, <2>1
  <1> HIDE DEF q
  <1>6. Opened(req[r], q) /\ Typed(q, Given)
    BY <1>1, <1>4, OpenedStays DEF Typed, Stays, Carried
  <1> QED
    BY <1>1, <1>2, <1>4, <1>5, <1>6 DEF Opened, Stays, Carried, q, q0

LEMMA StatusOutcome ==
  ASSUME ShapeInv, NEW r \in Requests, status(r)
  PROVE  \E a : /\ Opened(req[r], a) /\ Answers(r, a) /\ a.op = "status" /\ a.code = 200
                /\ Copied(a.sess, Base(req[r])) /\ a.newToken = req[r].newToken
                /\ a.revived = req[r].revived /\ ends' = ends /\ refused' = refused
PROOF
  <1> DEFINE q0 == Loaded(req[r])
             s == InPlace(q0.sess, getStatus(PluginOf(q0.sess)))
             q == [q0 EXCEPT !.sess = s]
  <1>1. /\ UNCHANGED Around /\ ends' = ends /\ refused' = refused
        /\ req[r].pc = "sent" /\ req[r].op = "status"
        /\ Finish(r, [q0 EXCEPT !.sess = InPlace(@, getStatus(PluginOf(@)))], 200)
    BY DEF status, Around
  <1>2. q0.sess = Base(req[r]) /\ now \in Nat /\ Given' = Given /\ Typed(q0, Given)
    BY <1>1, LoadedOpened DEF ShapeInv, Given
  <1>3. Sound(s) /\ Copied(s, Base(req[r]))
    BY <1>2, StatusedFacts, BaseSound
  <1>4. Finish(r, q, 200)
    BY <1>1
  <1> HIDE DEF s
  <1>5. /\ Opened(req[r], q) /\ Carried(req[r], q) /\ Typed(q, Given) /\ q.sess = s
        /\ q.newToken = req[r].newToken /\ q.revived = req[r].revived
    BY <1>1, <1>3, OpenedWith
  <1> HIDE DEF q
  <1>6. PICK a : /\ Answers(r, a) /\ Stays(q, a) /\ a.sess = q.sess /\ a.code = 200
                 /\ a.newToken = q.newToken /\ a.revived = q.revived
    BY <1>1, <1>2, <1>4, <1>5, FinishAnswers
  <1>7. Opened(req[r], a) /\ a.op = req[r].op
    BY <1>5, <1>6, OpenedStays DEF Stays, Carried
  <1> QED
    BY <1>1, <1>3, <1>5, <1>6, <1>7

\* The copy a logout waits with is no more authenticated than the session was.
Weaker(s, b) == s.zlux = b.zlux /\ (s.plugin.auth => b.plugin.auth)

LEMMA LogoutBeginOutcome ==
  ASSUME ShapeInv, NEW r \in Requests, logoutBegin(r)
  PROVE  \E a : /\ Opened(req[r], a) /\ Holds(r, a) /\ a.op = "logout"
                /\ Weaker(a.sess, Base(req[r]))
                /\ a.revived = req[r].revived /\ refused' = refused
PROOF
  <1> DEFINE q0 == Loaded(req[r])
             f == getStatus(PluginOf(q0.sess))
             p == IF usingSso THEN f ELSE [f EXCEPT !.auth = FALSE]
             s == InPlace(q0.sess, p)
             q == [q0 EXCEPT !.sess = s]
  <1>1. /\ UNCHANGED Around /\ ends' = ends
        /\ req[r].pc = "sent" /\ req[r].op = "logout"
        /\ Wait(r, [q0 EXCEPT !.sess = InPlace(@, p)], "logout")
    BY DEF logoutBegin, Around
  <1>2. q0.sess = Base(req[r]) /\ now \in Nat /\ Sound(Base(req[r]))
    BY <1>1, LoadedOpened, BaseSound DEF ShapeInv
  <1>3. /\ f \in Plugins /\ f.auth \in BOOLEAN
        /\ f.auth => f = q0.sess.plugin /\ q0.sess.plugin.auth
    BY <1>2, StatusedFacts DEF Plugins
  <1>4. p \in Plugins /\ (p.auth => p = q0.sess.plugin /\ q0.sess.plugin.auth)
    <2> HIDE DEF f
    <2>1. CASE usingSso
      BY <1>3, <2>1
    <2>2. CASE ~usingSso
      BY <1>3, <2>2 DEF Plugins
    <2> QED
      BY <2>1, <2>2
  <1>5. Wait(r, q, "logout")
    BY <1>1
  <1> HIDE DEF q0, p
  <1>6. usingSso /\ p.auth /\ q0.sess.zlux # 0 => p.ends <= q0.sess.zlux
    BY <1>2, <1>4 DEF Sound
  <1>7. Sound(s) /\ Weaker(s, Base(req[r]))
    BY <1>2, <1>4, <1>6, InPlaceNow DEF Weaker
  <1> HIDE DEF s
  <1>8. /\ Opened(req[r], q) /\ Carried(req[r], q) /\ Typed(q, Given) /\ q.sess = s
        /\ q.newToken = req[r].newToken /\ q.newToken = q.token /\ q.revived = req[r].revived
    BY <1>1, <1>7, OpenedWith DEF q0
  <1> HIDE DEF q
  <1>9. StageAt("logout", q) /\ "logout" \in Holding
    BY <1>1, <1>8 DEF StageAt, Holding, Carried
  <1>10. /\ refused' = refused
         /\ \E a : /\ Holds(r, a) /\ Stays(q, a) /\ a.pc = "logout" /\ a.sess = q.sess
                   /\ a.revived = q.revived
    BY <1>1, <1>5, <1>8, <1>9, WaitHolds
  <1>11. PICK a : /\ Holds(r, a) /\ Stays(q, a) /\ a.pc = "logout" /\ a.sess = q.sess
                  /\ a.revived = q.revived
    BY <1>10
  <1>12. Opened(req[r], a) /\ a.op = "logout"
    BY <1>1, <1>8, <1>11, OpenedStays DEF Stays, Carried
  <1> QED
    BY <1>7, <1>8, <1>10, <1>11, <1>12

LEMMA LogoutEndOutcome ==
  ASSUME ShapeInv, NEW r \in Requests, logoutEnd(r)
  PROVE  \E a : /\ Stays(req[r], a) /\ Answers(r, a) /\ a.op = "logout" /\ a.code \in {200, 500}
                /\ a.sess.zlux = 0 /\ ~a.sess.plugin.auth
                /\ a.code = 200 => a.newToken = 0
                /\ a.revived = req[r].revived /\ ends' = ends /\ refused' = refused
PROOF
  <1> DEFINE s == LoggedOut(req[r].sess)
             q == [req[r] EXCEPT !.sess = s]
             q0 == [q EXCEPT !.newToken = 0]
  <1>1. /\ UNCHANGED Around /\ ends' = ends /\ refused' = refused /\ req[r].pc = "logout"
        /\ Finish(r, q0, 200) \/ Finish(r, q, 500)
    BY DEF logoutEnd, Around
  <1>2. Typed(req[r], Given) /\ Given' = Given /\ Given \in Nat /\ req[r].op = "logout"
    BY <1>1 DEF ShapeInv, Stage, StageAt, Given, EndsType
  <1>3. Sound(s) /\ s.zlux = 0 /\ ~s.plugin.auth
    BY DEF LoggedOut, NoPlugin, Emptied, Sound, Plugins
  <1>4. Fields \subseteq DOMAIN req[r] /\ req[r].pc \in Holding
    BY <1>1, <1>2 DEF Typed, Holding
  <1> HIDE DEF s
  <1>5. /\ Fields \subseteq DOMAIN q /\ Stays(req[r], q) /\ q.sess = s
        /\ q.newToken = req[r].newToken /\ q.revived = req[r].revived /\ q.pc = req[r].pc
    BY <1>4 DEF Fields, Stays, Carried
  <1> HIDE DEF q
  <1>6. /\ Fields \subseteq DOMAIN q0 /\ Stays(req[r], q0) /\ q0.sess = s
        /\ q0.newToken = 0 /\ q0.revived = req[r].revived /\ q0.pc = req[r].pc
    BY <1>5 DEF Fields, Stays, Carried
  <1> HIDE DEF q0
  <1>7. Typed(q, Given) /\ Typed(q0, Given) /\ Carried(req[r], q) /\ Carried(req[r], q0)
    BY <1>2, <1>3, <1>5, <1>6 DEF Typed, Stays, Carried
  <1>8. ASSUME NEW x, Typed(x, Given), Stays(req[r], x), x.sess = s, x.revived = req[r].revived,
               NEW code \in {200, 500}, Finish(r, x, code), code = 200 => x.newToken = 0
        PROVE  \E a : /\ Stays(req[r], a) /\ Answers(r, a) /\ a.op = "logout"
                      /\ a.code \in {200, 500} /\ a.sess.zlux = 0 /\ ~a.sess.plugin.auth
                      /\ a.code = 200 => a.newToken = 0
                      /\ a.revived = req[r].revived /\ ends' = ends /\ refused' = refused
    <2>1. Carried(req[r], x)
      BY <1>8 DEF Stays
    <2>2. PICK a : /\ Answers(r, a) /\ Stays(x, a) /\ a.sess = x.sess /\ a.code = code
                   /\ a.newToken = x.newToken /\ a.revived = x.revived
      BY <1>1, <1>2, <1>4, <1>8, <2>1, FinishAnswers
    <2>3. Stays(req[r], a) /\ a.op = "logout"
      BY <1>2, <1>8, <2>2 DEF Stays, Carried
    <2> QED
      BY <1>1, <1>3, <1>8, <2>2, <2>3
  <1> QED
    BY <1>1, <1>5, <1>6, <1>7, <1>8

\* The end of the authorization.
LEMMA AuthorizedOutcome ==
  ASSUME ShapeInv, NEW r \in Requests, req[r].pc \in Holding \cup {"sent"}, UNCHANGED Around,
         ends' = ends, NEW q, Typed(q, Given), Carried(req[r], q), q.op = "service",
         q.newToken = req[r].newToken, q.newToken = q.token,
         NEW p, p.auth = q.sess.plugin.auth, Authorized(r, q, p)
  PROVE  /\ refused' = refused
         /\ \E a : /\ Stays(q, a) /\ a.sess = q.sess /\ a.newToken = q.newToken
                   /\ \/ /\ Holds(r, a) /\ a.pc = "serve" /\ q.sess.plugin.auth
                         /\ a.revived = (q.over /\ q.sid \in refused)
                      \/ /\ Answers(r, a) /\ a.code = 401 /\ ~q.sess.plugin.auth
                         /\ a.revived = q.revived
PROOF
  <1>1. CASE p.auth
    <2> DEFINE b == q.over /\ q.sid \in refused
               x == [q EXCEPT !.revived = b]
    <2>1. Wait(r, x, "serve")
      BY <1>1 DEF Authorized
    <2>2. b \in BOOLEAN /\ Fields \subseteq DOMAIN q
      BY DEF Typed
    <2> HIDE DEF b
    <2>3. /\ Fields \subseteq DOMAIN x /\ Stays(q, x) /\ x.sess = q.sess
          /\ x.newToken = q.newToken /\ x.revived = b /\ x.pc = q.pc
      BY <2>2 DEF Fields, Stays, Carried
    <2> HIDE DEF x
    <2>4. Typed(x, Given) /\ Carried(req[r], x)
      BY <2>2, <2>3 DEF Typed, Stays, Carried
    <2>5. StageAt("serve", x) /\ "serve" \in Holding /\ x.newToken = req[r].newToken
      BY <1>1, <2>3 DEF StageAt, Holding, Stays, Carried
    <2>6. /\ refused' = refused
          /\ \E a : /\ Holds(r, a) /\ Stays(x, a) /\ a.pc = "serve" /\ a.sess = x.sess
                    /\ a.revived = x.revived
      BY <2>1, <2>4, <2>5, WaitHolds
    <2>7. PICK a : /\ Holds(r, a) /\ Stays(x, a) /\ a.pc = "serve" /\ a.sess = x.sess
                   /\ a.revived = x.revived
      BY <2>6
    <2>8. Stays(q, a) /\ a.newToken = q.newToken
      BY <2>3, <2>7 DEF Stays, Carried, Holds
    <2> QED
      BY <1>1, <2>3, <2>6, <2>7, <2>8 DEF b
  <1>2. CASE ~p.auth
    <2>1. Finish(r, q, 401) /\ refused' = refused
      BY <1>2 DEF Authorized
    <2>2. Typed(q, Given')
      BY DEF Given
    <2>3. PICK a : /\ Answers(r, a) /\ Stays(q, a) /\ a.sess = q.sess /\ a.code = 401
                   /\ a.newToken = q.newToken /\ a.revived = q.revived
      BY <2>1, <2>2, FinishAnswers
    <2> QED
      BY <1>2, <2>1, <2>3
  <1> QED
    BY <1>1, <1>2

LEMMA MiddlewareOutcome ==
  ASSUME ShapeInv, NEW r \in Requests, middleware(r)
  PROVE  LET b == Base(req[r]) IN
         /\ ends' = ends
         /\ \E a : /\ Opened(req[r], a) /\ a.op = "service" /\ a.newToken = req[r].newToken
                   /\ \/ /\ Holds(r, a) /\ a.pc = "restore" /\ b = Fresh /\ a.sess = b /\ conf.ha
                         /\ a.revived = req[r].revived /\ refused' = refused
                      \/ /\ Answers(r, a) /\ a.code = 401 /\ TimedOut(b) /\ a.revived = req[r].revived
                         /\ a.sess.zlux = 0 /\ a.sess.plugin = b.plugin
                         /\ refused' = IF b.zlux # 0 /\ ~a.mixed THEN refused \cup {a.sid} ELSE refused
                      \/ /\ Holds(r, a) /\ a.pc = "serve" /\ a.sess = b /\ b.plugin.auth /\ ~TimedOut(b)
                         /\ a.revived = (a.over /\ a.sid \in refused) /\ refused' = refused
                      \/ /\ Answers(r, a) /\ a.code = 401 /\ a.sess = b /\ ~b.plugin.auth
                         /\ ~TimedOut(b) /\ a.revived = req[r].revived /\ refused' = refused
PROOF
  <1> DEFINE q == Loaded(req[r])
             b == Base(req[r])
             late == [q EXCEPT !.sess.zlux = 0]
  <1>1. /\ UNCHANGED Around /\ ends' = ends /\ req[r].pc = "sent" /\ req[r].op = "service"
        /\ \/ Wait(r, q, "restore") /\ q.sess = Fresh /\ conf.ha
           \/ /\ TimedOut(q.sess) /\ Finish(r, late, 401)
              /\ refused' = IF q.sess.zlux # 0 /\ ~q.mixed THEN refused \cup {q.sid} ELSE refused
           \/ ~TimedOut(q.sess) /\ Authorized(r, q, PluginOf(q.sess))
    BY DEF middleware, Around
  <1>2. /\ Opened(req[r], q) /\ q.sess = b /\ Typed(q, Given)
        /\ q.newToken = q.token /\ q.revived = req[r].revived
    BY <1>1, LoadedOpened
  <1>3. Sound(b) /\ Given' = Given /\ Fields \subseteq DOMAIN q
    BY <1>1, <1>2, BaseSound DEF Given, Typed
  <1>4. q.newToken = req[r].newToken /\ q.op = "service" /\ Carried(req[r], q)
    BY <1>1, <1>2 DEF Opened, Carried, ShapeInv, Stage, StageAt
  <1>5. late = [q EXCEPT !.sess = [q.sess EXCEPT !.zlux = 0]]
    BY <1>3 DEF Fields
  <1> HIDE DEF q, b, late
  <1>6. CASE Wait(r, q, "restore") /\ q.sess = Fresh /\ conf.ha
    <2>1. StageAt("restore", q) /\ "restore" \in Holding
      BY <1>2, <1>4, <1>6 DEF StageAt, Holding
    <2>2. /\ refused' = refused
          /\ \E a : /\ Holds(r, a) /\ Stays(q, a) /\ a.pc = "restore" /\ a.sess = q.sess
                    /\ a.revived = q.revived
      BY <1>1, <1>2, <1>4, <1>6, <2>1, WaitHolds
    <2>3. PICK a : /\ Holds(r, a) /\ Stays(q, a) /\ a.pc = "restore" /\ a.sess = q.sess
                   /\ a.revived = q.revived
      BY <2>2
    <2>4. Opened(req[r], a) /\ a.op = "service" /\ a.newToken = req[r].newToken
      BY <1>2, <1>4, <2>3, OpenedStays DEF Stays, Carried, Holds
    <2> QED
      BY <1>1, <1>2, <1>6, <2>2, <2>3, <2>4 DEF b
  <1>7. CASE /\ TimedOut(q.sess) /\ Finish(r, late, 401)
             /\ refused' = IF q.sess.zlux # 0 /\ ~q.mixed THEN refused \cup {q.sid} ELSE refused
    <2> DEFINE s == [q.sess EXCEPT !.zlux = 0]
    <2>1. Sound(s) /\ s.plugin = b.plugin /\ s.zlux = 0
      BY <1>2, <1>3, WithoutTime
    <2> HIDE DEF s
    <2>2. /\ Fields \subseteq DOMAIN late /\ Stays(q, late) /\ late.sess = s
          /\ late.newToken = q.newToken /\ late.revived = q.revived /\ late.pc = q.pc
      BY <1>3, <1>5 DEF Fields, Stays, Carried, s
    <2>3. Typed(late, Given') /\ Carried(req[r], late)
      BY <1>2, <1>3, <1>4, <2>1, <2>2 DEF Typed, Stays, Carried
    <2>4. PICK a : /\ Answers(r, a) /\ Stays(late, a) /\ a.sess = late.sess /\ a.code = 401
                   /\ a.newToken = late.newToken /\ a.revived = late.revived
      BY <1>1, <1>7, <2>3, FinishAnswers
    <2>5. Stays(q, a) /\ a.sid = q.sid /\ a.mixed = q.mixed /\ a.op = "service"
      BY <1>4, <2>2, <2>4 DEF Stays, Carried
    <2>6. Opened(req[r], a)
      BY <1>2, <2>5, OpenedStays
    <2>7. /\ TimedOut(b) /\ a.sess.zlux = 0 /\ a.sess.plugin = b.plugin
          /\ a.newToken = req[r].newToken /\ a.revived = req[r].revived
          /\ refused' = IF b.zlux # 0 /\ ~a.mixed THEN refused \cup {a.sid} ELSE refused
      BY <1>2, <1>4, <1>7, <2>1, <2>2, <2>4, <2>5
    <2> QED
      BY <1>1, <2>4, <2>5, <2>6, <2>7 DEF b
  <1>8. CASE ~TimedOut(q.sess) /\ Authorized(r, q, PluginOf(q.sess))
    <2>1. PluginOf(q.sess).auth = q.sess.plugin.auth
      BY <1>2, <1>3, FoundFacts
    <2>2. /\ refused' = refused
          /\ \E a : /\ Stays(q, a) /\ a.sess = q.sess /\ a.newToken = q.newToken
                    /\ \/ /\ Holds(r, a) /\ a.pc = "serve" /\ q.sess.plugin.auth
                          /\ a.revived = (q.over /\ q.sid \in refused)
                       \/ /\ Answers(r, a) /\ a.code = 401 /\ ~q.sess.plugin.auth
                          /\ a.revived = q.revived
      BY <1>1, <1>2, <1>4, <1>8, <2>1, AuthorizedOutcome
    <2>3. PICK a : /\ Stays(q, a) /\ a.sess = q.sess /\ a.newToken = q.newToken
                   /\ \/ /\ Holds(r, a) /\ a.pc = "serve" /\ q.sess.plugin.auth
                         /\ a.revived = (q.over /\ q.sid \in refused)
                      \/ /\ Answers(r, a) /\ a.code = 401 /\ ~q.sess.plugin.auth
                         /\ a.revived = q.revived
      BY <2>2
    <2>4. Opened(req[r], a) /\ a.op = "service" /\ a.over = q.over /\ a.sid = q.sid
      BY <1>2, <1>4, <2>3, OpenedStays DEF Stays, Carried
    <2> QED
      BY <1>1, <1>2, <1>4, <1>8, <2>2, <2>3, <2>4 DEF b
  <1> QED
    BY <1>1, <1>6, <1>7, <1>8

\* The session of a token, made anew, or the answer that there is none.
LEMMA RestoreOutcome ==
  ASSUME ShapeInv, NEW r \in Requests, restore(r)
  PROVE  /\ ends' = ends /\ refused' = refused /\ req[r].op = "service"
         /\ \E a : /\ a.revived = req[r].revived /\ a.newToken = req[r].newToken
                   /\ \/ /\ Moves(r, a) /\ a.pc = "restored" /\ a.sess.zlux = Never /\ req[r].token # 0
                         /\ a.sid = GeneratedSid(req[r].token) /\ a.at = req[r].at
                         /\ sessions' = [s \in Stored \ {req[r].sid} |-> sessions[s]]
                      \/ /\ Stays(req[r], a) /\ Answers(r, a) /\ a.code = 401
                         /\ a.sess.zlux = req[r].sess.zlux /\ ~a.sess.plugin.auth
PROOF
  <1> DEFINE q == req[r]
             valid == q.token # 0 /\ ends[q.token] > now
             s == Attach([q.sess EXCEPT !.zlux = Never], Plugin(valid, 0))
             sid == GeneratedSid(q.token)
             a == [q EXCEPT !.pc = "restored", !.sess = s, !.sid = sid, !.over = FALSE]
             t == Attach(q.sess, Plugin(FALSE, 0))
             f == [q EXCEPT !.sess = t]
  <1>1. /\ UNCHANGED Around /\ ends' = ends /\ q.pc = "restore"
        /\ \/ /\ q.token # 0 /\ sessions' = [x \in Stored \ {q.sid} |-> sessions[x]]
              /\ req' = [req EXCEPT ![r] = a] /\ refused' = refused
           \/ Authorized(r, f, t.plugin)
    BY DEF restore, Around
  <1>2. /\ Typed(q, Given) /\ q.op = "service" /\ conf.ha /\ q.newToken = q.token
        /\ Given' = Given /\ q.pc \in Holding
    BY <1>1 DEF ShapeInv, Stage, StageAt, Given, Holding
  <1>3. Sound(q.sess) /\ Fields \subseteq DOMAIN q /\ q.sess \in [zlux : Nat, plugin : Plugins]
    BY <1>2 DEF Typed, Sound
  <1>4. Never \in Nat
    BY WebAuthAssumption DEF Never
  <1>5. CASE /\ q.token # 0 /\ sessions' = [x \in Stored \ {q.sid} |-> sessions[x]]
             /\ req' = [req EXCEPT ![r] = a] /\ refused' = refused
    <2>1. Sound(s) /\ s.zlux = Never
      <3> DEFINE b == valid
                 n == Never
      <3>1. b \in BOOLEAN /\ n \in Nat
        BY <1>4
      <3>2. s = Attach([q.sess EXCEPT !.zlux = n], Plugin(b, 0))
        OBVIOUS
      <3> HIDE DEF s, b, n
      <3>3. s = [zlux |-> n, plugin |-> [auth |-> b, ends |-> 0, kept |-> "yes"]]
        BY <1>3, <3>1, <3>2 DEF Attach, Plugin, Plugins
      <3>4. Sound(s)
        BY <3>1, <3>3 DEF Sound, Plugins
      <3> QED
        BY <3>3, <3>4 DEF n
    <2> HIDE DEF s, sid
    <2>2. /\ Fields \subseteq DOMAIN a /\ a.pc = "restored" /\ a.sess = s /\ a.sid = sid
          /\ a.over = FALSE /\ a.at = q.at /\ a.was = q.was /\ Carried(q, a)
          /\ a.newToken = q.newToken /\ a.revived = q.revived
      BY <1>3 DEF Fields, Carried
    <2> HIDE DEF a
    <2>3. Typed(a, Given') /\ Stage(a)
      BY <1>2, <2>1, <2>2 DEF Typed, Stage, StageAt, Holding, Carried
    <2>4. Moves(r, a)
      BY <1>1, <1>2, <1>5, <2>2, <2>3 DEF Moves
    <2> QED
      BY <1>1, <1>2, <1>5, <2>1, <2>2, <2>4 DEF sid
  <1>6. CASE Authorized(r, f, t.plugin)
    <2>1. Sound(t) /\ t.zlux = q.sess.zlux /\ ~t.plugin.auth
      <3> DEFINE p == Plugin(FALSE, 0)
      <3>1. p \in Plugins /\ p.auth = FALSE
        BY DEF Plugin, Plugins
      <3>2. t = Attach(q.sess, p)
        OBVIOUS
      <3> HIDE DEF p, t
      <3>3. /\ t \in [zlux : Nat, plugin : Plugins] /\ t.zlux = q.sess.zlux
            /\ t.plugin.auth = FALSE
        BY <1>3, <3>1, <3>2 DEF Attach, Plugins
      <3> QED
        BY <3>3 DEF Sound
    <2> HIDE DEF t
    <2>2. /\ Fields \subseteq DOMAIN f /\ Stays(q, f) /\ f.sess = t /\ f.pc = q.pc
          /\ f.newToken = q.newToken /\ f.revived = q.revived
      BY <1>3 DEF Fields, Stays, Carried
    <2> HIDE DEF f
    <2>3. Typed(f, Given) /\ Carried(q, f) /\ f.op = "service" /\ f.newToken = f.token
      BY <1>2, <2>1, <2>2 DEF Typed, Stays, Carried
    <2>4. /\ refused' = refused
          /\ \E x : /\ Stays(f, x) /\ x.sess = f.sess /\ x.newToken = f.newToken
                    /\ \/ /\ Holds(r, x) /\ x.pc = "serve" /\ f.sess.plugin.auth
                          /\ x.revived = (f.over /\ f.sid \in refused)
                       \/ /\ Answers(r, x) /\ x.code = 401 /\ ~f.sess.plugin.auth
                          /\ x.revived = f.revived
      BY <1>1, <1>2, <1>6, <2>2, <2>3, AuthorizedOutcome
    <2>5. PICK x : /\ Stays(f, x) /\ x.sess = f.sess /\ x.newToken = f.newToken
                   /\ Answers(r, x) /\ x.code = 401 /\ x.revived = f.revived
      BY <2>1, <2>2, <2>4
    <2>6. Stays(q, x) /\ x.sess = t /\ x.newToken = q.newToken /\ x.revived = q.revived
      BY <2>2, <2>5 DEF Stays, Carried
    <2> QED
      BY <1>1, <1>2, <2>1, <2>4, <2>5, <2>6
  <1> QED
    BY <1>1, <1>5, <1>6

LEMMA AuthorizeOutcome ==
  ASSUME ShapeInv, NEW r \in Requests, authorize(r)
  PROVE  /\ ends' = ends /\ refused' = refused /\ req[r].pc = "restored"
         /\ \E a : /\ Stays(req[r], a) /\ a.sess = req[r].sess /\ a.newToken = req[r].newToken
                   /\ \/ Holds(r, a) /\ a.pc = "serve" /\ ~a.revived
                      \/ /\ Answers(r, a) /\ a.code = 401 /\ ~a.sess.plugin.auth
                         /\ a.revived = req[r].revived
PROOF
  <1> DEFINE q == req[r]
  <1>1. /\ UNCHANGED Around /\ ends' = ends /\ q.pc = "restored"
        /\ Authorized(r, q, q.sess.plugin)
    BY DEF authorize, Around
  <1>2. /\ Typed(q, Given) /\ q.op = "service" /\ ~q.over /\ q.newToken = q.token
        /\ q.pc \in Holding /\ Carried(q, q) /\ q.over \in BOOLEAN
    BY <1>1 DEF ShapeInv, Stage, StageAt, Holding, Carried, Typed
  <1>3. /\ refused' = refused
        /\ \E a : /\ Stays(q, a) /\ a.sess = q.sess /\ a.newToken = q.newToken
                  /\ \/ /\ Holds(r, a) /\ a.pc = "serve" /\ q.sess.plugin.auth
                        /\ a.revived = (q.over /\ q.sid \in refused)
                     \/ /\ Answers(r, a) /\ a.code = 401 /\ ~q.sess.plugin.auth
                        /\ a.revived = q.revived
    BY <1>1, <1>2, AuthorizedOutcome
  <1> HIDE DEF q
  <1>4. PICK a : /\ Stays(q, a) /\ a.sess = q.sess /\ a.newToken = q.newToken
                 /\ \/ /\ Holds(r, a) /\ a.pc = "serve" /\ q.sess.plugin.auth
                       /\ a.revived = (q.over /\ q.sid \in refused)
                    \/ /\ Answers(r, a) /\ a.code = 401 /\ ~q.sess.plugin.auth
                       /\ a.revived = q.revived
    BY <1>3
  <1> QED
    BY <1>1, <1>2, <1>3, <1>4 DEF q

LEMMA ServeOutcome ==
  ASSUME ShapeInv, NEW r \in Requests, serve(r)
  PROVE  /\ ends' = ends /\ req[r].pc = "serve"
         /\ \E a : /\ Stays(req[r], a) /\ Answers(r, a) /\ a.code \in {200, 403} /\ a.sess = req[r].sess
                   /\ a.newToken = req[r].newToken /\ a.revived = req[r].revived
                   /\ refused' = IF conf.ha /\ a.sess.zlux = Never THEN refused \ {a.sid} ELSE refused
PROOF
  <1> DEFINE q == req[r]
  <1>1. /\ UNCHANGED Around /\ ends' = ends /\ q.pc = "serve"
        /\ Finish(r, q, 200) \/ Finish(r, q, 403)
        /\ refused' = IF conf.ha /\ q.sess.zlux = Never THEN refused \ {q.sid} ELSE refused
    BY DEF serve, Around
  <1>2. Typed(q, Given') /\ q.pc \in Holding /\ Carried(q, q)
    BY <1>1 DEF ShapeInv, Given, Holding, Carried
  <1>3. ASSUME NEW code \in {200, 403}, Finish(r, q, code)
        PROVE  \E a : /\ Stays(q, a) /\ Answers(r, a) /\ a.code \in {200, 403} /\ a.sess = q.sess
                      /\ a.newToken = q.newToken /\ a.revived = q.revived
    <2>1. PICK a : /\ Answers(r, a) /\ Stays(q, a) /\ a.sess = q.sess /\ a.code = code
                   /\ a.newToken = q.newToken /\ a.revived = q.revived
      BY <1>1, <1>2, <1>3, FinishAnswers
    <2> QED
      BY <1>3, <2>1
  <1>4. PICK a : /\ Stays(q, a) /\ Answers(r, a) /\ a.code \in {200, 403} /\ a.sess = q.sess
                 /\ a.newToken = q.newToken /\ a.revived = q.revived
    BY <1>1, <1>3
  <1>5. a.sid = q.sid
    BY <1>4 DEF Stays
  <1> HIDE DEF q
  <1>6. refused' = IF conf.ha /\ a.sess.zlux = Never THEN refused \ {a.sid} ELSE refused
    BY <1>1, <1>4, <1>5
  <1> QED
    BY <1>1, <1>4, <1>6 DEF q

-----------------------------------------------------------------------------
(* The shape is kept *)

LEMMA SavedSound ==
  ASSUME ShapeInv, NEW q, Sound(q.sess)
  PROVE  /\ DOMAIN Saved(q) \subseteq Stored \cup {q.sid}
         /\ \A s \in DOMAIN Saved(q) : Sound(Saved(q)[s])
  BY DEF ShapeInv, Saved, Stored

\* A request moves.
LEMMA MoveKeepsShape ==
  ASSUME ShapeInv, NEW r \in Requests, NEW a, Moves(r, a), a.pc \in Holding \cup {"answered"},
         EndsType', Given <= Given', \A s \in DOMAIN sessions' : Sound(sessions'[s])
  PROVE  ShapeInv'
PROOF
  <1>1. /\ DOMAIN req' = Requests
        /\ \A x \in Requests : req'[x] = IF x = r THEN a ELSE req[x]
    BY DEF Moves, ShapeInv
  <1>2. conf' = conf /\ now' = now /\ browser' = browser
    BY DEF Moves, Around
  <1> DEFINE g == Given
             h == Given'
  <1>3. g \in Nat /\ h \in Nat /\ g <= h
    BY DEF ShapeInv, EndsType
  <1>4. Typed(a, h) /\ Stage(a) /\ a.mixed = req[r].mixed /\ a.op = req[r].op
    BY DEF Moves, Carried
  <1>5. \A x \in Requests : Typed(req[x], g) /\ Stage(req[x])
    BY DEF ShapeInv
  <1>6. browser.token \in 0 .. g
    BY DEF ShapeInv
  <1> HIDE DEF g, h
  <1>7. \A x \in Requests : Typed(req'[x], h) /\ Stage(req'[x])
    BY <1>1, <1>3, <1>4, <1>5, MoreTokens
  <1>8. browser'.token \in 0 .. h
    BY <1>2, <1>3, <1>6
  <1>9. usingSso' = usingSso
    BY <1>2 DEF usingSso
  <1>10. \A x \in Requests : Typed(req[x], Given)'
    BY <1>7, <1>9 DEF Typed, Sound, h
  <1>11. \A x \in Requests : Stage(req[x])'
    BY <1>2, <1>7, <1>9 DEF Stage, StageAt, Never, Fresh, NoPlugin
  <1>12. \A s \in Stored' : Sound(sessions[s])'
    BY <1>9 DEF Sound, Stored
  <1>13. MixedInv'
    <2>1. InFlight' = InFlight
      <3>1. r \in InFlight /\ a.pc \notin {"unsent", "done"}
        BY DEF Moves, InFlight, Holding
      <3> QED
        BY <1>1, <3>1 DEF InFlight
    <2>2. \A x \in InFlight : req'[x].mixed = req[x].mixed /\ req'[x].op = req[x].op
      BY <1>1, <1>4 DEF InFlight
    <2> QED
      BY <2>1, <2>2 DEF MixedInv, ShapeInv, Changing
  <1>14. ConfType'
    BY <1>2 DEF ConfType, ShapeInv
  <1> QED
    BY <1>1, <1>2, <1>8, <1>10, <1>11, <1>12, <1>13, <1>14 DEF ShapeInv, h

\* An answer.
LEMMA AnswerKeepsShape ==
  ASSUME ShapeInv, NEW r \in Requests, NEW a, Answers(r, a), EndsType', Given <= Given'
  PROVE  ShapeInv'
PROOF
  <1>1. Sound(a.sess) /\ Moves(r, a) /\ a.pc = "answered" /\ sessions' = Saved(a)
    BY DEF Answers, Moves, Typed
  <1> QED
    BY <1>1, SavedSound, MoveKeepsShape

\* A wait.
LEMMA HoldKeepsShape ==
  ASSUME ShapeInv, NEW r \in Requests, NEW a, Holds(r, a)
  PROVE  ShapeInv'
PROOF
  <1>1. Moves(r, a) /\ a.pc \in Holding /\ sessions' = sessions /\ ends' = ends
    BY DEF Holds
  <1>2. EndsType' /\ Given <= Given'
    BY <1>1 DEF ShapeInv, EndsType, Given
  <1>3. \A s \in DOMAIN sessions' : Sound(sessions'[s])
    BY <1>1 DEF ShapeInv, Stored
  <1> QED
    BY <1>1, <1>2, <1>3, MoveKeepsShape

LEMMA SameEnds ==
  ASSUME ShapeInv, ends' = ends
  PROVE  EndsType' /\ Given <= Given'
  BY DEF ShapeInv, EndsType, Given

\* A request that has not been sent, or is done with.
LEMMA EmptyTyped ==
  ASSUME NEW given \in Nat, NEW pc \in {"unsent", "done"}
  PROVE  /\ Typed(NoRequest(pc), given) /\ Stage(NoRequest(pc)) /\ NoRequest(pc).pc = pc
         /\ ~NoRequest(pc).revived
PROOF
  <1> DEFINE q == NoRequest(pc)
  <1>1. /\ Fields \subseteq DOMAIN q /\ q.pc = pc /\ q.token = 0 /\ q.newToken = 0
        /\ q.sess = Fresh /\ q.at = 0 /\ q.was = FALSE /\ q.mixed = FALSE /\ q.over = FALSE
        /\ q.revived = FALSE
    BY DEF NoRequest, Fields
  <1> HIDE DEF q
  <1>a. /\ q.was \in BOOLEAN /\ q.mixed \in BOOLEAN /\ q.over \in BOOLEAN /\ q.revived \in BOOLEAN
    BY DEF NoRequest, q
  <1>2. 0 \in 0 .. given /\ Sound(q.sess) /\ q.at \in Nat
    BY <1>1, FreshSound
  <1>3. Typed(q, given)
    BY <1>1, <1>a, <1>2 DEF Typed
  <1>4. q.pc \notin {"sent"} \cup Holding
    BY <1>1 DEF Holding
  <1>5. Stage(q)
    BY <1>4 DEF Stage, StageAt, Holding
  <1> QED
    BY <1>1, <1>3, <1>5 DEF q

\* What the sender knows of a new request.
Asked(op, mixed) ==
  [NoRequest("sent") EXCEPT !.op = op, !.cookie = browser.cookie, !.token = browser.token,
                            !.newToken = browser.token, !.mixed = mixed, !.expect = expect]
LEMMA SentTyped ==
  ASSUME ShapeInv, NEW op \in {"login", "refresh", "logout", "status", "service"},
         NEW mixed \in BOOLEAN
  PROVE  LET q == Asked(op, mixed) IN
         /\ Typed(q, Given) /\ Stage(q) /\ q.pc = "sent" /\ q.op = op /\ q.mixed = mixed
         /\ q.cookie = browser.cookie /\ q.token = browser.token /\ q.expect = expect
         /\ ~q.revived
PROOF
  <1> DEFINE n == NoRequest("sent")
             q == [n EXCEPT !.op = op, !.cookie = browser.cookie,
                     !.token = browser.token, !.newToken = browser.token,
                     !.mixed = mixed, !.expect = expect]
  <1>1. /\ Fields \subseteq DOMAIN n /\ n.pc = "sent" /\ n.sid = 0 /\ n.setCookie = FALSE
        /\ n.sess = Fresh /\ n.at = 0 /\ n.was = FALSE /\ n.over = FALSE /\ n.revived = FALSE
    BY DEF NoRequest, Fields
  <1>b. /\ n.was \in BOOLEAN /\ n.over \in BOOLEAN /\ n.revived \in BOOLEAN
    BY DEF NoRequest
  <1> HIDE DEF n
  <1>c. /\ q.was \in BOOLEAN /\ q.mixed \in BOOLEAN /\ q.over \in BOOLEAN /\ q.revived \in BOOLEAN
    BY <1>1, <1>b DEF Fields
  <1>2. /\ Fields \subseteq DOMAIN q /\ q.pc = "sent" /\ q.op = op /\ q.mixed = mixed
        /\ q.cookie = browser.cookie /\ q.token = browser.token /\ q.newToken = browser.token
        /\ q.expect = expect /\ q.sid = 0 /\ q.setCookie = FALSE
        /\ q.sess = Fresh /\ q.at = 0 /\ q.was = FALSE /\ q.over = FALSE /\ q.revived = FALSE
    BY <1>1 DEF Fields
  <1>3. browser.token \in 0 .. Given /\ Sound(Fresh)
    BY FreshSound DEF ShapeInv
  <1> HIDE DEF q
  <1>4. Sound(q.sess) /\ q.at \in Nat
    BY <1>2, <1>3
  <1>5. Typed(q, Given)
    BY <1>2, <1>3, <1>4, <1>c DEF Typed
  <1>6. /\ q.op \in {"login", "refresh", "logout", "status", "service"} /\ q.sess = Fresh
        /\ q.sid = 0 /\ ~q.was /\ ~q.over /\ ~q.revived /\ ~q.setCookie /\ q.newToken = q.token
    BY <1>2
  <1>7. Stage(q)
    BY <1>2, <1>6 DEF Stage, StageAt
  <1> QED
    BY <1>2, <1>5, <1>7 DEF q, n, Asked

\* What Send makes of the others.
LEMMA MarkedFacts ==
  ASSUME NEW q, Typed(q, Given), Stage(q)
  PROVE  LET m == [q EXCEPT !.mixed = TRUE] IN
         /\ Typed(m, Given) /\ Stage(m) /\ m.mixed = TRUE
         /\ \A field \in Fields \ {"mixed"} : m[field] = q[field]
PROOF
  <1> DEFINE m == [q EXCEPT !.mixed = TRUE]
  <1>1. Fields \subseteq DOMAIN q
    BY DEF Typed
  <1>2. /\ Fields \subseteq DOMAIN m /\ m.mixed = TRUE
        /\ \A field \in Fields \ {"mixed"} : m[field] = q[field]
    BY <1>1 DEF Fields
  <1> HIDE DEF m
  <1>3. /\ m.op = q.op /\ m.pc = q.pc /\ m.token = q.token /\ m.sid = q.sid /\ m.sess = q.sess
        /\ m.was = q.was /\ m.newToken = q.newToken /\ m.setCookie = q.setCookie
        /\ m.at = q.at /\ m.over = q.over /\ m.revived = q.revived
    BY <1>2 DEF Fields
  <1>4. Typed(m, Given) /\ Stage(m)
    BY <1>2, <1>3 DEF Typed, Stage, StageAt
  <1> QED
    BY <1>2, <1>4 DEF m

\* A new request, and what it makes of those under way.
Marked(r, op) == \E x \in InFlight : Changing(op) \/ Changing(req[x].op) \/ req[x].mixed
LEMMA SendOutcome ==
  ASSUME ShapeInv, NEW r \in Requests,
         NEW op \in {"login", "refresh", "logout", "status", "service"}, Send(r, op)
  PROVE  \E q :
           /\ req[r].pc = "unsent" /\ UNCHANGED <<conf, now, ends, sessions, browser, expect, refused>>
           /\ Typed(q, Given) /\ Stage(q) /\ q.pc = "sent" /\ q.op = op /\ q.mixed = Marked(r, op)
           /\ q.cookie = browser.cookie /\ q.token = browser.token /\ q.expect = expect
           /\ ~q.revived /\ DOMAIN req' = Requests /\ req'[r] = q
           /\ \A x \in Requests \ {r} :
                /\ Typed(req'[x], Given) /\ Stage(req'[x])
                /\ req'[x].mixed = (req[x].mixed \/ (x \in InFlight /\ Marked(r, op)))
                /\ \A field \in Fields \ {"mixed"} : req'[x][field] = req[x][field]
PROOF
  <1> DEFINE mixed == Marked(r, op)
             q == Asked(op, mixed)
  <1>1. /\ req[r].pc = "unsent"
        /\ UNCHANGED <<conf, now, ends, sessions, browser, expect, refused>>
        /\ req' = [x \in Requests |->
                     IF x = r THEN q
                     ELSE IF x \in InFlight /\ mixed THEN [req[x] EXCEPT !.mixed = TRUE]
                     ELSE req[x]]
    BY DEF Send, Marked, Asked
  <1>2. mixed \in BOOLEAN
    BY DEF Marked
  <1> HIDE DEF mixed
  <1>3. /\ Typed(q, Given) /\ Stage(q) /\ q.pc = "sent" /\ q.op = op /\ q.mixed = mixed
        /\ q.cookie = browser.cookie /\ q.token = browser.token /\ q.expect = expect
        /\ ~q.revived
    BY <1>2, SentTyped
  <1> HIDE DEF q
  <1>4. DOMAIN req' = Requests /\ req'[r] = q
    BY <1>1
  <1>5. ASSUME NEW x \in Requests \ {r}
        PROVE  /\ Typed(req'[x], Given) /\ Stage(req'[x])
               /\ req'[x].mixed = (req[x].mixed \/ (x \in InFlight /\ mixed))
               /\ \A field \in Fields \ {"mixed"} : req'[x][field] = req[x][field]
    <2>1. Typed(req[x], Given) /\ Stage(req[x])
      BY DEF ShapeInv
    <2>2. req[x].mixed \in BOOLEAN
      BY <2>1 DEF Typed
    <2>3. CASE x \in InFlight /\ mixed
      <3>1. req'[x] = [req[x] EXCEPT !.mixed = TRUE]
        BY <1>1, <2>3
      <3> QED
        BY <2>1, <2>2, <2>3, <3>1, MarkedFacts
    <2>4. CASE ~(x \in InFlight /\ mixed)
      <3>1. req'[x] = req[x]
        BY <1>1, <2>4
      <3> QED
        BY <2>1, <2>2, <2>4, <3>1
    <2> QED
      BY <2>3, <2>4
  <1> QED
    BY <1>1, <1>3, <1>4, <1>5 DEF mixed

LEMMA SendKeepsShape ==
  ASSUME ShapeInv, NEW r \in Requests,
         NEW op \in {"login", "refresh", "logout", "status", "service"}, Send(r, op)
  PROVE  ShapeInv'
PROOF
  <1>1. PICK q :
           /\ req[r].pc = "unsent" /\ UNCHANGED <<conf, now, ends, sessions, browser, expect, refused>>
           /\ Typed(q, Given) /\ Stage(q) /\ q.pc = "sent" /\ q.op = op /\ q.mixed = Marked(r, op)
           /\ DOMAIN req' = Requests /\ req'[r] = q
           /\ \A x \in Requests \ {r} :
                /\ Typed(req'[x], Given) /\ Stage(req'[x])
                /\ req'[x].mixed = (req[x].mixed \/ (x \in InFlight /\ Marked(r, op)))
                /\ \A field \in Fields \ {"mixed"} : req'[x][field] = req[x][field]
    BY SendOutcome
  <1>2. \A x \in Requests : Typed(req'[x], Given) /\ Stage(req'[x])
    BY <1>1
  <1>3. \A x \in Requests \ {r} : req'[x].pc = req[x].pc /\ req'[x].op = req[x].op
    BY <1>1 DEF Fields
  <1>4. \A x \in Requests : req[x].mixed \in BOOLEAN
    BY DEF ShapeInv, Typed
  <1>5. r \notin InFlight /\ InFlight' = InFlight \cup {r}
    BY <1>1, <1>3 DEF InFlight
  <1>6. usingSso' = usingSso /\ Given' = Given
    BY <1>1 DEF usingSso, Given
  <1>7. \A x \in Requests : Typed(req[x], Given)'
    BY <1>2, <1>6 DEF Typed, Sound
  <1>8. \A x \in Requests : Stage(req[x])'
    BY <1>1, <1>2, <1>6 DEF Stage, StageAt, Never, Fresh, NoPlugin
  <1>9. \A s \in Stored' : Sound(sessions[s])'
    BY <1>1, <1>6 DEF Sound, Stored, ShapeInv
  <1>10. \A x, y \in InFlight' : req'[x].mixed = req'[y].mixed
    <2> DEFINE m == Marked(r, op)
    <2>1. CASE m
      <3>1. \A x \in InFlight' : req'[x].mixed = TRUE
        <4> TAKE x \in InFlight'
        <4>1. CASE x = r
          BY <1>1, <2>1, <4>1
        <4>2. CASE x # r
          <5>1. x \in InFlight /\ x \in Requests
            BY <1>5, <4>2 DEF InFlight
          <5> QED
            BY <1>1, <2>1, <4>2, <5>1
        <4> QED
          BY <4>1, <4>2
      <3> QED
        BY <3>1
    <2>2. CASE ~m
      <3>1. \A x \in InFlight' : req'[x].mixed = FALSE
        <4> TAKE x \in InFlight'
        <4>1. CASE x = r
          BY <1>1, <2>2, <4>1 DEF Marked
        <4>2. CASE x # r
          <5>1. x \in InFlight /\ x \in Requests
            BY <1>5, <4>2 DEF InFlight
          <5>2. ~req[x].mixed
            BY <2>2, <5>1 DEF Marked
          <5> QED
            BY <1>1, <1>4, <2>2, <4>2, <5>1, <5>2
        <4> QED
          BY <4>1, <4>2
      <3> QED
        BY <3>1
    <2> QED
      BY <2>1, <2>2
  <1>11. ASSUME NEW x \in InFlight', NEW y \in InFlight', Changing(req'[x].op), ~req'[x].mixed
         PROVE  x = y
    <2>1. ~req'[y].mixed
      BY <1>10, <1>11
    <2>2. x \in Requests /\ y \in Requests
      BY <1>5 DEF InFlight
    <2>3. CASE x = r
      <3>1. ~Marked(r, op) /\ Changing(op)
        BY <1>1, <1>11, <2>3
      <3>2. InFlight = {}
        BY <3>1 DEF Marked
      <3> QED
        BY <1>5, <2>3, <3>2
    <2>4. CASE x # r
      <3>1. x \in InFlight /\ Changing(req[x].op)
        BY <1>3, <1>5, <1>11, <2>2, <2>4
      <3>2. Marked(r, op)
        BY <3>1 DEF Marked
      <3>3. req'[x].mixed
        BY <1>1, <2>2, <2>4, <3>1, <3>2
      <3> QED
        BY <1>11, <3>3
    <2> QED
      BY <2>3, <2>4
  <1>12. MixedInv'
    BY <1>10, <1>11 DEF MixedInv, Changing
  <1> QED
    BY <1>1, <1>6, <1>7, <1>8, <1>9, <1>12 DEF ShapeInv, ConfType, EndsType

LEMMA ReceiveKeepsShape ==
  ASSUME ShapeInv, NEW r \in Requests, receive(r)
  PROVE  ShapeInv'
PROOF
  <1>1. /\ req[r].pc = "answered" /\ req' = [req EXCEPT ![r] = NoRequest("done")]
        /\ UNCHANGED <<conf, now, ends, sessions>>
        /\ browser'.token = IF req[r].newToken # req[r].token THEN req[r].newToken ELSE browser.token
    BY DEF receive
  <1>2. Given \in Nat
    BY DEF ShapeInv, EndsType
  <1>3. Typed(NoRequest("done"), Given) /\ Stage(NoRequest("done")) /\ NoRequest("done").pc = "done"
    BY <1>2, EmptyTyped
  <1>4. /\ DOMAIN req' = Requests
        /\ \A x \in Requests : req'[x] = IF x = r THEN NoRequest("done") ELSE req[x]
    BY <1>1 DEF ShapeInv
  <1>5. \A x \in Requests : Typed(req'[x], Given) /\ Stage(req'[x])
    BY <1>3, <1>4 DEF ShapeInv
  <1>6. usingSso' = usingSso /\ Given' = Given
    BY <1>1 DEF usingSso, Given
  <1>7. \A x \in Requests : Typed(req[x], Given)'
    BY <1>5, <1>6 DEF Typed, Sound
  <1>8. \A x \in Requests : Stage(req[x])'
    BY <1>1, <1>5, <1>6 DEF Stage, StageAt, Never, Fresh, NoPlugin
  <1>9. \A s \in Stored' : Sound(sessions[s])'
    BY <1>1, <1>6 DEF Sound, Stored, ShapeInv
  <1>10. InFlight' \subseteq InFlight /\ \A x \in InFlight' : req'[x] = req[x]
    BY <1>3, <1>4 DEF InFlight
  <1>11. MixedInv'
    BY <1>10 DEF MixedInv, ShapeInv, Changing
  <1>12. browser'.token \in 0 .. Given'
    BY <1>1, <1>6 DEF ShapeInv, Typed
  <1> QED
    BY <1>1, <1>4, <1>6, <1>7, <1>8, <1>9, <1>11, <1>12 DEF ShapeInv, ConfType, EndsType

LEMMA InitEnds == Init => EndsType /\ Given <= 1 /\ (ends = <<>> => Given = 0)
PROOF
  <1> SUFFICES ASSUME Init PROVE EndsType /\ Given <= 1 /\ (ends = <<>> => Given = 0)
    OBVIOUS
  <1>1. ends = <<>> \/ ends = <<2>>
    BY DEF Init
  <1>2. CASE ends = <<>>
    <2>1. DOMAIN ends = 1 .. 0
      BY <1>2
    <2>2. Given = 0
      BY <2>1, FS_Interval DEF Given
    <2> QED
      BY <2>1, <2>2 DEF EndsType
  <1>3. CASE ends = <<2>>
    <2>1. DOMAIN ends = {1} /\ 1 .. 1 = {1} /\ ends[1] = 2
      BY <1>3
    <2>a. ends # <<>>
      BY <1>3
    <2>2. Given = 1
      BY <2>1, FS_Singleton DEF Given
    <2> QED
      BY <2>1, <2>2, <2>a DEF EndsType
  <1> QED
    BY <1>1, <1>2, <1>3

LEMMA InitShape == Init => ShapeInv
PROOF
  <1> SUFFICES ASSUME Init PROVE ShapeInv
    OBVIOUS
  <1>1. PICK d \in Deployments, t \in Timeouts :
          conf = [apiml |-> d.apiml, zss |-> d.zss, ha |-> d.ha, timeout |-> t]
    BY DEF Init
  <1>2. ConfType
    <2>1. /\ d.apiml \in BOOLEAN /\ d.zss \in BOOLEAN /\ d.ha \in BOOLEAN /\ (d.apiml \/ d.zss)
          /\ t \in (Nat \ {0}) \cup {NoExpire}
      BY <1>1, WebAuthAssumption DEF NoExpire
    <2> QED
      BY <1>1, <2>1 DEF ConfType
  <1>4. EndsType
    BY InitEnds
  <1>5. Given \in Nat
    BY <1>4 DEF EndsType
  <1>6. /\ req = [r \in Requests |-> NoRequest("unsent")] /\ Stored = {} /\ now = 1
        /\ browser.token = Given
    BY DEF Init, Stored, Given
  <1>7. \A r \in Requests : Typed(req[r], Given) /\ Stage(req[r]) /\ req[r].pc = "unsent"
    BY <1>5, <1>6, EmptyTyped
  <1>8. InFlight = {}
    BY <1>7 DEF InFlight
  <1>9. MixedInv
    BY <1>8 DEF MixedInv
  <1>10. 1 <= MaxTime + 1
    BY WebAuthAssumption
  <1> QED
    BY <1>2, <1>4, <1>5, <1>6, <1>7, <1>9, <1>10 DEF ShapeInv

LEMMA NextShape == ShapeInv /\ [Next]_vars => ShapeInv'
PROOF
  <1> SUFFICES ASSUME ShapeInv, [Next]_vars PROVE ShapeInv'
    OBVIOUS
  <1>1. ASSUME NEW r \in Requests,
               NEW op \in {"login", "refresh", "logout", "status", "service"}, Send(r, op)
        PROVE  ShapeInv'
    BY <1>1, SendKeepsShape
  <1>2. ASSUME NEW r \in Requests, authBegin(r) PROVE ShapeInv'
    <2>1. ends' = ends /\ \E a : Concludes(r, a) \/ Holds(r, a)
      BY <1>2, AuthBeginOutcome
    <2> QED
      BY <2>1, SameEnds, AnswerKeepsShape, HoldKeepsShape DEF Concludes
  <1>3. ASSUME NEW r \in Requests,
               authenticate(r) \/ zssRefresh(r) \/ authenticateViaCookie(r)
        PROVE  ShapeInv'
    BY <1>3, AnswerOutcome, AnswerKeepsShape DEF Concludes, Breaks
  <1>4. ASSUME NEW r \in Requests, logoutBegin(r) PROVE ShapeInv'
    BY <1>4, LogoutBeginOutcome, HoldKeepsShape
  <1>5. ASSUME NEW r \in Requests, logoutEnd(r) PROVE ShapeInv'
    BY <1>5, LogoutEndOutcome, SameEnds, AnswerKeepsShape
  <1>6. ASSUME NEW r \in Requests, status(r) PROVE ShapeInv'
    BY <1>6, StatusOutcome, SameEnds, AnswerKeepsShape
  <1>7. ASSUME NEW r \in Requests, middleware(r) PROVE ShapeInv'
    <2>1. ends' = ends /\ \E a : Answers(r, a) \/ Holds(r, a)
      BY <1>7, MiddlewareOutcome
    <2> QED
      BY <2>1, SameEnds, AnswerKeepsShape, HoldKeepsShape
  <1>8. ASSUME NEW r \in Requests, restore(r) PROVE ShapeInv'
    <2>1. /\ ends' = ends
          /\ \E a : \/ /\ Moves(r, a) /\ a.pc = "restored"
                       /\ sessions' = [s \in Stored \ {req[r].sid} |-> sessions[s]]
                    \/ Answers(r, a)
      BY <1>8, RestoreOutcome
    <2>2. PICK a : \/ /\ Moves(r, a) /\ a.pc = "restored"
                      /\ sessions' = [s \in Stored \ {req[r].sid} |-> sessions[s]]
                   \/ Answers(r, a)
      BY <2>1
    <2>3. CASE Answers(r, a)
      BY <2>1, <2>3, SameEnds, AnswerKeepsShape
    <2>4. CASE /\ Moves(r, a) /\ a.pc = "restored"
               /\ sessions' = [s \in Stored \ {req[r].sid} |-> sessions[s]]
      <3>1. \A s \in DOMAIN sessions' : Sound(sessions'[s])
        BY <2>4 DEF ShapeInv, Stored
      <3>2. a.pc \in Holding
        BY <2>4 DEF Holding
      <3> QED
        BY <2>1, <2>4, <3>1, <3>2, SameEnds, MoveKeepsShape
    <2> QED
      BY <2>2, <2>3, <2>4
  <1>9. ASSUME NEW r \in Requests, authorize(r) PROVE ShapeInv'
    <2>1. ends' = ends /\ \E a : Answers(r, a) \/ Holds(r, a)
      BY <1>9, AuthorizeOutcome
    <2> QED
      BY <2>1, SameEnds, AnswerKeepsShape, HoldKeepsShape
  <1>10. ASSUME NEW r \in Requests, serve(r) PROVE ShapeInv'
    BY <1>10, ServeOutcome, SameEnds, AnswerKeepsShape
  <1>11. ASSUME NEW r \in Requests, receive(r) PROVE ShapeInv'
    BY <1>11, ReceiveKeepsShape
  <1>12. CASE Tick \/ UNCHANGED vars
    <2>1. UNCHANGED <<conf, ends, sessions, browser, req>>
      BY <1>12 DEF Tick, vars
    <2>2. now' \in Nat /\ 1 <= now' /\ now' <= MaxTime + 1
      BY <1>12, WebAuthAssumption DEF Tick, vars, ShapeInv
    <2>3. /\ usingSso' = usingSso /\ Given' = Given /\ Stored' = Stored /\ InFlight' = InFlight
      BY <2>1 DEF usingSso, Given, Stored, InFlight
    <2>4. \A x \in Requests : Typed(req[x], Given)' /\ Stage(req[x])'
      BY <2>1, <2>3 DEF ShapeInv, Typed, Sound, Stage, StageAt, Never, Fresh, NoPlugin
    <2>5. \A s \in Stored' : Sound(sessions[s])'
      BY <2>1, <2>3 DEF ShapeInv, Sound
    <2>6. MixedInv' /\ ConfType' /\ EndsType'
      BY <2>1, <2>3 DEF ShapeInv, MixedInv, Changing, ConfType, EndsType
    <2> QED
      BY <2>1, <2>2, <2>3, <2>4, <2>5, <2>6 DEF ShapeInv
  <1> QED
    BY <1>1, <1>2, <1>3, <1>4, <1>5, <1>6, <1>7, <1>8, <1>9, <1>10, <1>11, <1>12 DEF Next

LEMMA ShapeInvariant == Spec => []ShapeInv
  BY InitShape, NextShape, PTL DEF Spec

-----------------------------------------------------------------------------
(* Sessions refused as expired *)

\* A session that middleware does not serve.
Dead(s) == s.zlux = 0 \/ s.zlux < now \/ ~s.plugin.auth

\* No expiration time, or that of a session that was restored: such a copy need
\* not agree with the others.
Odd(t) == t = 0 \/ (conf.ha /\ t = Never)
Agree(t, u) == t = u \/ Odd(t) \/ Odd(u)

Serving(x) == req[x].pc = "serve"
ExpInv ==
  /\ conf.timeout = NoExpire => refused = {}
  /\ \A s \in refused \cap Stored : Dead(sessions[s])
  /\ \A x \in Requests : Serving(x) /\ req[x].sid \in refused =>
       Dead(req[x].sess) \/ Odd(req[x].sess.zlux)
  /\ \A x \in Requests : Serving(x) /\ ~req[x].mixed /\ req[x].sid \in Stored =>
       Agree(req[x].sess.zlux, sessions[req[x].sid].zlux)
  /\ \A x, y \in Requests :
       Serving(x) /\ Serving(y) /\ ~req[x].mixed /\ ~req[y].mixed /\ req[x].sid = req[y].sid =>
         Agree(req[x].sess.zlux, req[y].sess.zlux)
  /\ \A x \in Requests : ~req[x].revived

\* A request that changes the session is the only one, or the others are mixed.
LEMMA Alone ==
  ASSUME ShapeInv, NEW r \in InFlight, NEW x \in InFlight, x # r, Changing(req[r].op)
  PROVE  req[x].mixed
PROOF
  <1>1. req[x].mixed = req[r].mixed /\ (~req[r].mixed => x = r)
    BY DEF ShapeInv, MixedInv
  <1> QED
    BY <1>1

LEMMA DeadFacts ==
  ASSUME NEW s, NEW b, NEW t, NEW u
  PROVE  /\ Copied(s, b) /\ Dead(b) => Dead(s)
         /\ Agree(t, u) <=> Agree(u, t)
         /\ Agree(t, t) /\ Agree(t, 0) /\ (Odd(u) => Agree(t, u))
  BY DEF Copied, Dead, Agree, Odd

\* The invariant of the next state, in terms of what the step leaves alone.
ExpParts(refusedN, sessionsN, reqN) ==
  /\ conf.timeout = NoExpire => refusedN = {}
  /\ \A s \in refusedN \cap DOMAIN sessionsN : Dead(sessionsN[s])
  /\ \A x \in Requests : reqN[x].pc = "serve" /\ reqN[x].sid \in refusedN =>
       Dead(reqN[x].sess) \/ Odd(reqN[x].sess.zlux)
  /\ \A x \in Requests : reqN[x].pc = "serve" /\ ~reqN[x].mixed /\ reqN[x].sid \in DOMAIN sessionsN =>
       Agree(reqN[x].sess.zlux, sessionsN[reqN[x].sid].zlux)
  /\ \A x, y \in Requests :
       reqN[x].pc = "serve" /\ reqN[y].pc = "serve" /\ ~reqN[x].mixed /\ ~reqN[y].mixed
       /\ reqN[x].sid = reqN[y].sid => Agree(reqN[x].sess.zlux, reqN[y].sess.zlux)
  /\ \A x \in Requests : ~reqN[x].revived

LEMMA ExpNow == ExpInv <=> ExpParts(refused, sessions, req)
  BY DEF ExpInv, ExpParts, Serving, Stored

LEMMA ExpNext ==
  ASSUME UNCHANGED <<conf, now>>
  PROVE  ExpInv' <=> ExpParts(refused', sessions', req')
  BY DEF ExpInv, ExpParts, Serving, Stored, Dead, Odd, Agree, Never

LEMMA AnswerKeepsExp ==
  ASSUME ShapeInv, ExpInv, NEW r \in Requests, NEW a, Answers(r, a), ~a.revived,
         refused' \subseteq refused \cup {a.sid},
         a.sid \in refused' => conf.timeout # NoExpire /\ Dead(a.sess),
         a.sid \in refused' => a.sid \in refused \/ Saves(a),
         \A x \in Requests \ {r} : Serving(x) /\ req[x].sid = a.sid /\ a.sid \in refused' =>
           Dead(req[x].sess) \/ Odd(req[x].sess.zlux),
         \A x \in Requests \ {r} : Serving(x) /\ ~req[x].mixed /\ req[x].sid = a.sid =>
           Agree(req[x].sess.zlux, a.sess.zlux)
  PROVE  ExpInv'
PROOF
  <1>1. /\ req' = [req EXCEPT ![r] = a] /\ UNCHANGED <<conf, now>> /\ a.pc = "answered"
        /\ sessions' = Saved(a)
    BY DEF Answers, Moves, Around
  <1>2. DOMAIN req = Requests
    BY DEF ShapeInv
  <1>3. \A x \in Requests : req'[x] = IF x = r THEN a ELSE req[x]
    BY <1>1, <1>2
  <1>4. /\ DOMAIN sessions' \subseteq Stored \cup {a.sid}
        /\ \A s \in DOMAIN sessions' : \/ s \in Stored /\ sessions'[s] = sessions[s]
                                       \/ s = a.sid /\ sessions'[s] = a.sess
        /\ Saves(a) => sessions'[a.sid] = a.sess
    BY <1>1 DEF Saved, Stored
  <1>5. ExpParts(refused, sessions, req)
    BY ExpNow
  <1>6. conf.timeout = NoExpire => refused' = {}
    BY <1>5 DEF ExpParts
  <1>7. ASSUME NEW s \in refused' \cap DOMAIN sessions'
        PROVE  Dead(sessions'[s])
    <2>1. CASE s = a.sid /\ sessions'[s] = a.sess
      BY <1>7, <2>1
    <2>2. CASE s \in Stored /\ sessions'[s] = sessions[s]
      <3>1. CASE s \in refused
        BY <1>5, <2>2, <3>1 DEF ExpParts, Stored
      <3>2. CASE s \notin refused
        BY <1>4, <1>7, <3>2
      <3> QED
        BY <3>1, <3>2
    <2> QED
      BY <1>4, <1>7, <2>1, <2>2
  <1>8. ASSUME NEW x \in Requests, req'[x].pc = "serve"
        PROVE  x # r /\ req'[x] = req[x] /\ Serving(x)
    BY <1>1, <1>3, <1>8 DEF Serving
  <1>9. ASSUME NEW x \in Requests, req'[x].pc = "serve", req'[x].sid \in refused'
        PROVE  Dead(req'[x].sess) \/ Odd(req'[x].sess.zlux)
    <2>1. x # r /\ req'[x] = req[x] /\ Serving(x)
      BY <1>8, <1>9
    <2>2. CASE req[x].sid \in refused
      BY <1>5, <2>1, <2>2 DEF ExpParts, Serving
    <2>3. CASE req[x].sid \notin refused
      BY <1>9, <2>1, <2>3
    <2> QED
      BY <2>2, <2>3
  <1>10. ASSUME NEW x \in Requests, req'[x].pc = "serve", ~req'[x].mixed,
                req'[x].sid \in DOMAIN sessions'
         PROVE  Agree(req'[x].sess.zlux, sessions'[req'[x].sid].zlux)
    <2>1. x # r /\ req'[x] = req[x] /\ Serving(x)
      BY <1>8, <1>10
    <2>2. CASE req[x].sid = a.sid /\ sessions'[req[x].sid] = a.sess
      BY <1>10, <2>1, <2>2
    <2>3. CASE req[x].sid \in Stored /\ sessions'[req[x].sid] = sessions[req[x].sid]
      BY <1>5, <1>10, <2>1, <2>3 DEF ExpParts, Serving, Stored
    <2> QED
      BY <1>4, <1>10, <2>1, <2>2, <2>3
  <1>11. ASSUME NEW x \in Requests, NEW y \in Requests, req'[x].pc = "serve", req'[y].pc = "serve",
                ~req'[x].mixed, ~req'[y].mixed, req'[x].sid = req'[y].sid
         PROVE  Agree(req'[x].sess.zlux, req'[y].sess.zlux)
    <2>1. req'[x] = req[x] /\ req'[y] = req[y] /\ Serving(x) /\ Serving(y)
      BY <1>8, <1>11
    <2> QED
      BY <1>5, <1>11, <2>1 DEF ExpParts, Serving
  <1>12. \A x \in Requests : ~req'[x].revived
    BY <1>3, <1>5 DEF ExpParts
  <1>13. ExpParts(refused', sessions', req')
    BY <1>6, <1>7, <1>9, <1>10, <1>11, <1>12 DEF ExpParts
  <1> QED
    BY <1>1, <1>13, ExpNext

\* A wait, or the restoration of a session, which takes the stored one away.
LEMMA MoveKeepsExp ==
  ASSUME ShapeInv, ExpInv, NEW r \in Requests, NEW a, Moves(r, a), ~a.revived, refused' = refused,
         DOMAIN sessions' \subseteq Stored, \A s \in DOMAIN sessions' : sessions'[s] = sessions[s],
         a.pc = "serve" =>
           /\ a.sid \in refused => Dead(a.sess) \/ Odd(a.sess.zlux)
           /\ ~a.mixed /\ a.sid \in Stored => Agree(a.sess.zlux, sessions[a.sid].zlux)
           /\ \A x \in Requests \ {r} : Serving(x) /\ ~req[x].mixed /\ req[x].sid = a.sid =>
                Agree(req[x].sess.zlux, a.sess.zlux)
  PROVE  ExpInv'
PROOF
  <1>1. req' = [req EXCEPT ![r] = a] /\ UNCHANGED <<conf, now>> /\ DOMAIN req = Requests
    BY DEF Moves, Around, ShapeInv
  <1>2. \A x \in Requests : req'[x] = IF x = r THEN a ELSE req[x]
    BY <1>1
  <1>3. ExpParts(refused, sessions, req)
    BY ExpNow
  <1>4. /\ conf.timeout = NoExpire => refused' = {}
        /\ \A s \in refused' \cap DOMAIN sessions' : Dead(sessions'[s])
        /\ \A x \in Requests : ~req'[x].revived
    BY <1>2, <1>3 DEF ExpParts, Stored
  <1>5. ASSUME NEW x \in Requests, req'[x].pc = "serve", req'[x].sid \in refused'
        PROVE  Dead(req'[x].sess) \/ Odd(req'[x].sess.zlux)
    <2>1. CASE x = r
      BY <1>2, <1>5, <2>1
    <2>2. CASE x # r
      BY <1>2, <1>3, <1>5, <2>2 DEF ExpParts
    <2> QED
      BY <2>1, <2>2
  <1>6. ASSUME NEW x \in Requests, req'[x].pc = "serve", ~req'[x].mixed,
               req'[x].sid \in DOMAIN sessions'
        PROVE  Agree(req'[x].sess.zlux, sessions'[req'[x].sid].zlux)
    <2>1. CASE x = r
      BY <1>2, <1>6, <2>1
    <2>2. CASE x # r
      BY <1>2, <1>3, <1>6, <2>2 DEF ExpParts, Stored
    <2> QED
      BY <2>1, <2>2
  <1>7. ASSUME NEW x \in Requests, NEW y \in Requests, req'[x].pc = "serve", req'[y].pc = "serve",
               ~req'[x].mixed, ~req'[y].mixed, req'[x].sid = req'[y].sid
        PROVE  Agree(req'[x].sess.zlux, req'[y].sess.zlux)
    <2>1. CASE x = r /\ y = r
      BY <2>1 DEF Agree
    <2>2. CASE x = r /\ y # r
      BY <1>2, <1>7, <2>2, DeadFacts DEF Serving
    <2>3. CASE x # r /\ y = r
      BY <1>2, <1>7, <2>3 DEF Serving
    <2>4. CASE x # r /\ y # r
      BY <1>2, <1>3, <1>7, <2>4 DEF ExpParts
    <2> QED
      BY <2>1, <2>2, <2>3, <2>4
  <1>8. ExpParts(refused', sessions', req')
    BY <1>4, <1>5, <1>6, <1>7 DEF ExpParts
  <1> QED
    BY <1>1, <1>8, ExpNext

\* Nothing else is refused.
LEMMA EarlierAnswer ==
  ASSUME ShapeInv, ExpInv, NEW r \in Requests, NEW a, Answers(r, a), a.revived = req[r].revived,
         refused' \subseteq refused, a.sid \in refused' => Dead(a.sess),
         \A x \in Requests \ {r} : Serving(x) /\ ~req[x].mixed /\ req[x].sid = a.sid =>
           Agree(req[x].sess.zlux, a.sess.zlux)
  PROVE  ExpInv'
PROOF
  <1>1. a.sid \in refused' => conf.timeout # NoExpire /\ a.sid \in refused
    BY DEF ExpInv
  <1>2. ~a.revived
    BY DEF ExpInv
  <1>3. \A x \in Requests \ {r} : Serving(x) /\ req[x].sid = a.sid /\ a.sid \in refused' =>
          Dead(req[x].sess) \/ Odd(req[x].sess.zlux)
    BY <1>1 DEF ExpInv
  <1> QED
    BY <1>1, <1>2, <1>3, AnswerKeepsExp

\* The end of a login, a refresh or a logout.
LEMMA ChangedKeepsExp ==
  ASSUME ShapeInv, ExpInv, NEW r \in Requests, NEW a, Answers(r, a), a.revived = req[r].revived,
         refused' \subseteq refused, a.sid \in refused' => Dead(a.sess), Changing(a.op)
  PROVE  ExpInv'
PROOF
  <1>1. r \in InFlight /\ Changing(req[r].op)
    BY DEF Answers, Moves, Carried, InFlight, Holding
  <1>2. ASSUME NEW x \in Requests \ {r}, Serving(x)
        PROVE  req[x].mixed
    <2>1. x \in InFlight
      BY <1>2 DEF Serving, InFlight
    <2> QED
      BY <1>1, <2>1, Alone
  <1> QED
    BY <1>2, EarlierAnswer

LEMMA ConcludesKeepsExp ==
  ASSUME ShapeInv, ExpInv, NEW r \in Requests, NEW a, Concludes(r, a)
  PROVE  ExpInv'
PROOF
  <1>1. /\ Answers(r, a) /\ a.revived = req[r].revived /\ Changing(a.op) /\ refused' \subseteq refused
        /\ a.sid \in refused' => Dead(a.sess)
    BY DEF Concludes, Changing, Dead
  <1> QED
    BY <1>1, ChangedKeepsExp

\* The session a request has opened, and the copies others serve from.
LEMMA OpenedFacts ==
  ASSUME ShapeInv, ExpInv, NEW r \in Requests, NEW a, Opened(req[r], a)
  PROVE  /\ a.sid \in refused => Dead(Base(req[r]))
         /\ \A x \in Requests \ {r} : Serving(x) /\ ~req[x].mixed /\ req[x].sid = a.sid =>
              Agree(req[x].sess.zlux, Base(req[r]).zlux)
         /\ Base(req[r]) # Fresh => /\ req[r].cookie \in Stored /\ a.sid = req[r].cookie
                                    /\ a.cookie = a.sid
                                    /\ Base(req[r]) = sessions[a.sid]
PROOF
  <1>1. CASE req[r].cookie \in Stored
    <2>1. a.sid = req[r].cookie /\ Base(req[r]) = sessions[a.sid] /\ a.cookie = a.sid
      BY <1>1 DEF Opened, BaseSid, Base, Carried
    <2> QED
      BY <1>1, <2>1 DEF ExpInv
  <1>2. CASE req[r].cookie \notin Stored
    <2>1. Base(req[r]) = Fresh /\ Fresh.zlux = 0
      BY <1>2 DEF Base, Fresh
    <2> QED
      BY <2>1 DEF Dead, Agree, Odd
  <1> QED
    BY <1>1, <1>2

LEMMA StatusKeepsExp ==
  ASSUME ShapeInv, ExpInv, NEW r \in Requests, status(r)
  PROVE  ExpInv'
PROOF
  <1>1. PICK a : /\ Opened(req[r], a) /\ Answers(r, a) /\ Copied(a.sess, Base(req[r]))
                 /\ a.revived = req[r].revived /\ refused' = refused
    BY StatusOutcome
  <1>2. a.sid \in refused => Dead(a.sess)
    BY <1>1, OpenedFacts, DeadFacts
  <1>3. a.sess.zlux = Base(req[r]).zlux
    BY <1>1 DEF Copied
  <1>4. \A x \in Requests \ {r} : Serving(x) /\ ~req[x].mixed /\ req[x].sid = a.sid =>
           Agree(req[x].sess.zlux, a.sess.zlux)
    BY <1>1, <1>3, OpenedFacts
  <1> QED
    BY <1>1, <1>2, <1>4, EarlierAnswer

\* What middleware decides: a session it serves is not one it has refused, and
\* the copies under way agree with the one it refuses.
LEMMA MiddlewareKeepsExp ==
  ASSUME ShapeInv, ExpInv, NEW r \in Requests, middleware(r)
  PROVE  ExpInv'
PROOF
  <1> DEFINE b == Base(req[r])
  <1>1. PICK a :
          /\ Opened(req[r], a)
          /\ \/ /\ Holds(r, a) /\ a.pc = "restore"
                /\ a.revived = req[r].revived /\ refused' = refused
             \/ /\ Answers(r, a) /\ TimedOut(b) /\ a.revived = req[r].revived
                /\ a.sess.zlux = 0 /\ a.sess.plugin = b.plugin
                /\ refused' = IF b.zlux # 0 /\ ~a.mixed THEN refused \cup {a.sid} ELSE refused
             \/ /\ Holds(r, a) /\ a.pc = "serve" /\ a.sess = b /\ b.plugin.auth /\ ~TimedOut(b)
                /\ a.revived = (a.over /\ a.sid \in refused) /\ refused' = refused
             \/ /\ Answers(r, a) /\ a.sess = b /\ ~b.plugin.auth
                /\ a.revived = req[r].revived /\ refused' = refused
    BY MiddlewareOutcome
  <1>2. /\ a.sid \in refused => Dead(b)
        /\ \A x \in Requests \ {r} : Serving(x) /\ ~req[x].mixed /\ req[x].sid = a.sid =>
             Agree(req[x].sess.zlux, b.zlux)
        /\ b # Fresh => /\ req[r].cookie \in Stored /\ a.sid = req[r].cookie
                        /\ a.cookie = a.sid /\ b = sessions[a.sid]
    BY <1>1, OpenedFacts
  <1>3. ~req[r].revived /\ (refused # {} => conf.timeout # NoExpire)
    BY DEF ExpInv
  <1>4. /\ Sound(b) /\ now \in Nat /\ now <= MaxTime + 1 /\ MaxTime \in Nat
    BY BaseSound, WebAuthAssumption DEF ShapeInv
  <1>5. \A s \in Stored : sessions[s] = sessions[s]
    OBVIOUS
  <1> HIDE DEF b
  <1>6. ASSUME Holds(r, a), ~a.revived, refused' = refused,
               a.pc = "serve" =>
                 /\ a.sid \in refused => Dead(a.sess) \/ Odd(a.sess.zlux)
                 /\ ~a.mixed /\ a.sid \in Stored => Agree(a.sess.zlux, sessions[a.sid].zlux)
                 /\ \A x \in Requests \ {r} : Serving(x) /\ ~req[x].mixed /\ req[x].sid = a.sid =>
                      Agree(req[x].sess.zlux, a.sess.zlux)
        PROVE  ExpInv'
    <2>1. Moves(r, a) /\ DOMAIN sessions' \subseteq Stored
          /\ \A s \in DOMAIN sessions' : sessions'[s] = sessions[s]
      BY <1>6 DEF Holds, Stored
    <2> QED
      BY <1>6, <2>1, MoveKeepsExp
  <1>7. CASE Holds(r, a) /\ a.pc = "restore" /\ a.revived = req[r].revived /\ refused' = refused
    BY <1>3, <1>6, <1>7
  <1>8. CASE /\ Answers(r, a) /\ a.sess = b /\ ~b.plugin.auth
             /\ a.revived = req[r].revived /\ refused' = refused
    <2>1. Dead(a.sess)
      BY <1>8 DEF Dead
    <2> QED
      BY <1>2, <1>8, <2>1, EarlierAnswer
  <1>9. CASE /\ Holds(r, a) /\ a.pc = "serve" /\ a.sess = b /\ b.plugin.auth /\ ~TimedOut(b)
             /\ a.revived = (a.over /\ a.sid \in refused) /\ refused' = refused
    <2>1. b # Fresh
      BY <1>9 DEF Fresh, NoPlugin
    <2>2. a.sid \notin refused
      <3>1. SUFFICES ASSUME a.sid \in refused PROVE FALSE
        OBVIOUS
      <3>2. conf.timeout # NoExpire /\ Dead(b)
        BY <1>2, <1>3, <3>1
      <3> QED
        BY <1>9, <3>2 DEF Dead, TimedOut
    <2>3. ~a.revived
      BY <1>9, <2>2
    <2>4. Agree(a.sess.zlux, sessions[a.sid].zlux)
      BY <1>2, <1>9, <2>1 DEF Agree
    <2> QED
      BY <1>2, <1>6, <1>9, <2>2, <2>3, <2>4
  <1>10. CASE /\ Answers(r, a) /\ TimedOut(b) /\ a.revived = req[r].revived
              /\ a.sess.zlux = 0 /\ a.sess.plugin = b.plugin
              /\ refused' = IF b.zlux # 0 /\ ~a.mixed THEN refused \cup {a.sid} ELSE refused
    <2>1. conf.timeout # NoExpire /\ (b.zlux # 0 => b.zlux < now)
      BY <1>10 DEF TimedOut
    <2>2. Dead(a.sess)
      BY <1>10 DEF Dead
    <2>3. \A x : Agree(x, a.sess.zlux)
      BY <1>10 DEF Agree, Odd
    <2>4. CASE refused' = refused
      BY <1>10, <2>2, <2>3, <2>4, EarlierAnswer
    <2>5. CASE b.zlux # 0 /\ ~a.mixed /\ refused' = refused \cup {a.sid}
      <3>1. b # Fresh /\ a.cookie = a.sid /\ b = sessions[a.sid] /\ a.sid \in Stored
        BY <1>2, <2>5 DEF Fresh
      <3>2. Saves(a)
        BY <3>1 DEF Saves
      <3>3. ASSUME NEW x \in Requests \ {r}, Serving(x), req[x].sid = a.sid
            PROVE  Dead(req[x].sess) \/ Odd(req[x].sess.zlux)
        <4>1. r \in InFlight /\ x \in InFlight /\ req[r].mixed = a.mixed
          BY <1>10, <3>3 DEF Answers, Moves, Carried, Serving, InFlight, Holding
        <4>2. ~req[x].mixed
          BY <2>5, <4>1 DEF ShapeInv, MixedInv
        <4>3. Agree(req[x].sess.zlux, b.zlux)
          BY <1>2, <3>3, <4>2
        <4>4. b.zlux # Never
          BY <1>4, <2>1, <2>5 DEF Never, Sound
        <4>5. ~Odd(b.zlux)
          BY <2>5, <4>4 DEF Odd
        <4> QED
          BY <2>1, <2>5, <4>3, <4>5 DEF Agree, Dead
      <3> QED
        BY <1>3, <1>10, <2>1, <2>2, <2>3, <2>5, <3>2, <3>3, AnswerKeepsExp
    <2> QED
      BY <1>10, <2>4, <2>5
  <1> QED
    BY <1>1, <1>7, <1>8, <1>9, <1>10

LEMMA RestoreKeepsExp ==
  ASSUME ShapeInv, ExpInv, NEW r \in Requests, restore(r)
  PROVE  ExpInv'
PROOF
  <1>1. /\ refused' = refused
        /\ \E a : /\ a.revived = req[r].revived
                  /\ \/ /\ Moves(r, a) /\ a.pc = "restored"
                        /\ sessions' = [s \in Stored \ {req[r].sid} |-> sessions[s]]
                     \/ /\ Answers(r, a) /\ a.sess.zlux = req[r].sess.zlux /\ ~a.sess.plugin.auth
    BY RestoreOutcome
  <1>2. PICK a : /\ a.revived = req[r].revived
                 /\ \/ /\ Moves(r, a) /\ a.pc = "restored"
                       /\ sessions' = [s \in Stored \ {req[r].sid} |-> sessions[s]]
                    \/ /\ Answers(r, a) /\ a.sess.zlux = req[r].sess.zlux /\ ~a.sess.plugin.auth
    BY <1>1
  <1>3. ~a.revived
    BY <1>2 DEF ExpInv
  <1>4. CASE /\ Moves(r, a) /\ a.pc = "restored"
             /\ sessions' = [s \in Stored \ {req[r].sid} |-> sessions[s]]
    <2>1. DOMAIN sessions' \subseteq Stored /\ \A s \in DOMAIN sessions' : sessions'[s] = sessions[s]
      BY <1>4
    <2> QED
      BY <1>1, <1>3, <1>4, <2>1, MoveKeepsExp
  <1>5. CASE Answers(r, a) /\ a.sess.zlux = req[r].sess.zlux /\ ~a.sess.plugin.auth
    <2>1. req[r].sess = Fresh
      <3>1. req[r].pc = "restore"
        BY DEF restore
      <3> QED
        BY <3>1 DEF ShapeInv, Stage, StageAt
    <2>2. a.sess.zlux = 0
      BY <1>5, <2>1 DEF Fresh
    <2>3. Dead(a.sess) /\ \A x : Agree(x, a.sess.zlux)
      BY <2>2 DEF Dead, Agree, Odd
    <2> QED
      BY <1>1, <1>2, <1>5, <2>3, EarlierAnswer
  <1> QED
    BY <1>2, <1>4, <1>5

LEMMA AuthorizeKeepsExp ==
  ASSUME ShapeInv, ExpInv, NEW r \in Requests, authorize(r)
  PROVE  ExpInv'
PROOF
  <1>1. /\ refused' = refused /\ req[r].pc = "restored"
        /\ \E a : /\ a.sess = req[r].sess
                  /\ \/ Holds(r, a) /\ a.pc = "serve" /\ ~a.revived
                     \/ Answers(r, a) /\ ~a.sess.plugin.auth /\ a.revived = req[r].revived
    BY AuthorizeOutcome
  <1>2. PICK a : /\ a.sess = req[r].sess
                 /\ \/ Holds(r, a) /\ a.pc = "serve" /\ ~a.revived
                    \/ Answers(r, a) /\ ~a.sess.plugin.auth /\ a.revived = req[r].revived
    BY <1>1
  <1>3. conf.ha /\ a.sess.zlux = Never
    BY <1>1, <1>2 DEF ShapeInv, Stage, StageAt
  <1>4. Odd(a.sess.zlux) /\ \A x : Agree(x, a.sess.zlux) /\ Agree(a.sess.zlux, x)
    BY <1>3 DEF Odd, Agree
  <1>5. CASE Holds(r, a) /\ a.pc = "serve" /\ ~a.revived
    <2>1. Moves(r, a) /\ DOMAIN sessions' \subseteq Stored
          /\ \A s \in DOMAIN sessions' : sessions'[s] = sessions[s]
      BY <1>5 DEF Holds, Stored
    <2> QED
      BY <1>1, <1>4, <1>5, <2>1, MoveKeepsExp
  <1>6. CASE Answers(r, a) /\ ~a.sess.plugin.auth /\ a.revived = req[r].revived
    <2>1. Dead(a.sess)
      BY <1>6 DEF Dead
    <2> QED
      BY <1>1, <1>4, <1>6, <2>1, EarlierAnswer
  <1> QED
    BY <1>2, <1>5, <1>6

LEMMA ServeKeepsExp ==
  ASSUME ShapeInv, ExpInv, NEW r \in Requests, serve(r)
  PROVE  ExpInv'
PROOF
  <1>1. /\ req[r].pc = "serve"
        /\ \E a : /\ Stays(req[r], a) /\ Answers(r, a) /\ a.sess = req[r].sess
                  /\ a.revived = req[r].revived
                  /\ refused' = IF conf.ha /\ a.sess.zlux = Never THEN refused \ {a.sid} ELSE refused
    BY ServeOutcome
  <1>2. PICK a : /\ Stays(req[r], a) /\ Answers(r, a) /\ a.sess = req[r].sess
                 /\ a.revived = req[r].revived
                 /\ refused' = IF conf.ha /\ a.sess.zlux = Never THEN refused \ {a.sid} ELSE refused
    BY <1>1
  <1>3. a.sid = req[r].sid /\ a.mixed = req[r].mixed
    BY <1>2 DEF Stays, Carried
  <1>4. ASSUME a.sid \in refused'
        PROVE  Dead(a.sess)
    <2>1. ~(conf.ha /\ a.sess.zlux = Never) /\ a.sid \in refused
      BY <1>2, <1>4
    <2>2. Dead(a.sess) \/ Odd(a.sess.zlux)
      BY <1>1, <1>2, <1>3, <2>1 DEF ExpInv, Serving
    <2> QED
      BY <2>1, <2>2 DEF Dead, Odd
  <1>5. ASSUME NEW x \in Requests \ {r}, Serving(x), ~req[x].mixed, req[x].sid = a.sid
        PROVE  Agree(req[x].sess.zlux, a.sess.zlux)
    <2>1. Serving(r) /\ r \in InFlight /\ x \in InFlight
      BY <1>1, <1>5 DEF Serving, InFlight
    <2>2. ~req[r].mixed
      BY <1>5, <2>1 DEF ShapeInv, MixedInv
    <2> QED
      BY <1>2, <1>3, <1>5, <2>1, <2>2 DEF ExpInv
  <1> QED
    BY <1>2, <1>4, <1>5, EarlierAnswer

\* Requests whose places, identifiers and copies stay.
LEMMA OthersKeepExp ==
  ASSUME ExpInv, UNCHANGED <<conf, now, sessions, refused>>,
         \A x \in Requests :
           /\ req'[x].pc = "serve" =>
                /\ req[x].pc = "serve" /\ req'[x].sid = req[x].sid /\ req'[x].sess = req[x].sess
                /\ req[x].mixed => req'[x].mixed
           /\ ~req'[x].revived
  PROVE  ExpInv'
PROOF
  <1>1. ExpParts(refused, sessions, req)
    BY ExpNow
  <1>2. ExpParts(refused', sessions', req')
    BY <1>1 DEF ExpParts
  <1> QED
    BY <1>2, ExpNext

LEMMA SendKeepsExp ==
  ASSUME ShapeInv, ExpInv, NEW r \in Requests,
         NEW op \in {"login", "refresh", "logout", "status", "service"}, Send(r, op)
  PROVE  ExpInv'
PROOF
  <1>1. PICK q :
          /\ UNCHANGED <<conf, now, ends, sessions, browser, expect, refused>>
          /\ q.pc = "sent" /\ ~q.revived /\ req'[r] = q
          /\ \A x \in Requests \ {r} :
               /\ req'[x].mixed = (req[x].mixed \/ (x \in InFlight /\ Marked(r, op)))
               /\ \A field \in Fields \ {"mixed"} : req'[x][field] = req[x][field]
    BY SendOutcome
  <1>2. ASSUME NEW x \in Requests
        PROVE  /\ req'[x].pc = "serve" =>
                    /\ req[x].pc = "serve" /\ req'[x].sid = req[x].sid /\ req'[x].sess = req[x].sess
                    /\ req[x].mixed => req'[x].mixed
               /\ ~req'[x].revived
    <2>1. CASE x = r
      BY <1>1, <2>1
    <2>2. CASE x # r
      <3>1. /\ req'[x].pc = req[x].pc /\ req'[x].sid = req[x].sid /\ req'[x].sess = req[x].sess
            /\ req'[x].revived = req[x].revived
        BY <1>1, <2>2 DEF Fields
      <3> QED
        BY <1>1, <2>2, <3>1 DEF ExpInv
    <2> QED
      BY <2>1, <2>2
  <1> QED
    BY <1>1, <1>2, OthersKeepExp

LEMMA ReceiveKeepsExp ==
  ASSUME ShapeInv, ExpInv, NEW r \in Requests, receive(r)
  PROVE  ExpInv'
PROOF
  <1>1. UNCHANGED <<conf, now, sessions, refused>> /\ req' = [req EXCEPT ![r] = NoRequest("done")]
    BY DEF receive
  <1>2. /\ NoRequest("done").pc = "done" /\ ~NoRequest("done").revived
        /\ \A x \in Requests : req'[x] = IF x = r THEN NoRequest("done") ELSE req[x]
    BY <1>1, EmptyTyped DEF ShapeInv
  <1>3. \A x \in Requests :
          /\ req'[x].pc = "serve" =>
               /\ req[x].pc = "serve" /\ req'[x].sid = req[x].sid /\ req'[x].sess = req[x].sess
               /\ req[x].mixed => req'[x].mixed
          /\ ~req'[x].revived
    BY <1>2 DEF ExpInv
  <1> QED
    BY <1>1, <1>3, OthersKeepExp

LEMMA TickKeepsExp ==
  ASSUME ShapeInv, ExpInv, UNCHANGED <<conf, sessions, req, refused>>, now' \in Nat, now <= now'
  PROVE  ExpInv'
PROOF
  <1>1. \A s : Sound(s) /\ Dead(s) => s.zlux = 0 \/ s.zlux < now' \/ ~s.plugin.auth
    BY DEF Dead, Sound, ShapeInv
  <1>2. \A s \in refused' \cap Stored' : Dead(sessions[s])'
    BY <1>1 DEF ExpInv, ShapeInv, Dead, Stored
  <1>3. \A t : (t = 0 \/ (conf'.ha /\ t = Never')) <=> Odd(t)
    BY DEF Odd, Never
  <1>4. \A x \in Requests : Sound(req[x].sess)
    BY DEF ShapeInv, Typed
  <1>5. \A x \in Requests : Serving(x)' /\ req'[x].sid \in refused' =>
          Dead(req[x].sess)' \/ Odd(req[x].sess.zlux)'
    BY <1>1, <1>3, <1>4 DEF ExpInv, Serving, Dead, Odd
  <1>6. \A x \in Requests : Serving(x)' /\ ~req'[x].mixed /\ req'[x].sid \in Stored' =>
          Agree(req[x].sess.zlux, sessions[req[x].sid].zlux)'
    BY <1>3 DEF ExpInv, Serving, Stored, Agree, Odd
  <1>7. \A x, y \in Requests :
          Serving(x)' /\ Serving(y)' /\ ~req'[x].mixed /\ ~req'[y].mixed
          /\ req'[x].sid = req'[y].sid => Agree(req[x].sess.zlux, req[y].sess.zlux)'
    BY <1>3 DEF ExpInv, Serving, Agree, Odd
  <1> QED
    BY <1>2, <1>5, <1>6, <1>7 DEF ExpInv

LEMMA InitExp == Init => ExpInv
PROOF
  <1> SUFFICES ASSUME Init PROVE ExpInv
    OBVIOUS
  <1>1. refused = {} /\ \A x \in Requests : req[x] = NoRequest("unsent")
    BY DEF Init
  <1>2. NoRequest("unsent").pc = "unsent" /\ ~NoRequest("unsent").revived
    BY EmptyTyped
  <1> QED
    BY <1>1, <1>2 DEF ExpInv, Serving

LEMMA NextExp == ShapeInv /\ ExpInv /\ [Next]_vars => ExpInv'
PROOF
  <1> SUFFICES ASSUME ShapeInv, ExpInv, [Next]_vars PROVE ExpInv'
    OBVIOUS
  <1>1. ASSUME NEW r \in Requests,
               NEW op \in {"login", "refresh", "logout", "status", "service"}, Send(r, op)
        PROVE  ExpInv'
    BY <1>1, SendKeepsExp
  <1>2. ASSUME NEW r \in Requests, authBegin(r) PROVE ExpInv'
    <2>1. PICK a : /\ Opened(req[r], a) /\ a.revived = req[r].revived
                   /\ Concludes(r, a) \/ (Holds(r, a) /\ refused' = refused /\ a.op # "service")
      <3>1. PICK a : /\ Opened(req[r], a) /\ a.revived = req[r].revived
                     /\ a.op \in {"login", "refresh"}
                     /\ \/ Concludes(r, a)
                        \/ Holds(r, a) /\ refused' = refused
        BY <1>2, AuthBeginOutcome
      <3> QED
        BY <3>1
    <2>2. CASE Concludes(r, a)
      BY <2>2, ConcludesKeepsExp
    <2>3. CASE Holds(r, a) /\ refused' = refused /\ a.op # "service"
      <3>1. Moves(r, a) /\ a.pc # "serve" /\ ~a.revived
        BY <2>1, <2>3 DEF Holds, Moves, Stage, StageAt, ExpInv
      <3>2. DOMAIN sessions' \subseteq Stored /\ \A s \in DOMAIN sessions' : sessions'[s] = sessions[s]
        BY <2>3 DEF Holds, Stored
      <3> QED
        BY <2>3, <3>1, <3>2, MoveKeepsExp
    <2> QED
      BY <2>1, <2>2, <2>3
  <1>3. ASSUME NEW r \in Requests,
               authenticate(r) \/ zssRefresh(r) \/ authenticateViaCookie(r)
        PROVE  ExpInv'
    <2>1. PICK a : Concludes(r, a) \/ Breaks(r, a)
      BY <1>3, AnswerOutcome
    <2>2. CASE Breaks(r, a)
      <3>1. /\ Answers(r, a) /\ a.revived = req[r].revived /\ Changing(a.op)
            /\ refused' \subseteq refused /\ Dead(a.sess)
        BY <2>2 DEF Breaks, Changing, Dead
      <3> QED
        BY <3>1, ChangedKeepsExp
    <2> QED
      BY <2>1, <2>2, ConcludesKeepsExp
  <1>4. ASSUME NEW r \in Requests, logoutBegin(r) PROVE ExpInv'
    <2>1. PICK a : Holds(r, a) /\ a.op = "logout" /\ a.revived = req[r].revived /\ refused' = refused
      BY <1>4, LogoutBeginOutcome
    <2>2. Moves(r, a) /\ a.pc # "serve" /\ ~a.revived
      BY <2>1 DEF Holds, Moves, Stage, StageAt, ExpInv
    <2>3. DOMAIN sessions' \subseteq Stored /\ \A s \in DOMAIN sessions' : sessions'[s] = sessions[s]
      BY <2>1 DEF Holds, Stored
    <2> QED
      BY <2>1, <2>2, <2>3, MoveKeepsExp
  <1>5. ASSUME NEW r \in Requests, logoutEnd(r) PROVE ExpInv'
    <2>1. PICK a : /\ Answers(r, a) /\ a.op = "logout" /\ ~a.sess.plugin.auth
                   /\ a.revived = req[r].revived /\ refused' = refused
      BY <1>5, LogoutEndOutcome
    <2>2. Changing(a.op) /\ Dead(a.sess)
      BY <2>1 DEF Changing, Dead
    <2> QED
      BY <2>1, <2>2, ChangedKeepsExp
  <1>6. ASSUME NEW r \in Requests, status(r) PROVE ExpInv'
    BY <1>6, StatusKeepsExp
  <1>7. ASSUME NEW r \in Requests, middleware(r) PROVE ExpInv'
    BY <1>7, MiddlewareKeepsExp
  <1>8. ASSUME NEW r \in Requests, restore(r) PROVE ExpInv'
    BY <1>8, RestoreKeepsExp
  <1>9. ASSUME NEW r \in Requests, authorize(r) PROVE ExpInv'
    BY <1>9, AuthorizeKeepsExp
  <1>10. ASSUME NEW r \in Requests, serve(r) PROVE ExpInv'
    BY <1>10, ServeKeepsExp
  <1>11. ASSUME NEW r \in Requests, receive(r) PROVE ExpInv'
    BY <1>11, ReceiveKeepsExp
  <1>12. CASE Tick \/ UNCHANGED vars
    <2>1. UNCHANGED <<conf, sessions, req, refused>> /\ now' \in Nat /\ now <= now'
      BY <1>12 DEF Tick, vars, ShapeInv
    <2> QED
      BY <2>1, TickKeepsExp
  <1> QED
    BY <1>1, <1>2, <1>3, <1>4, <1>5, <1>6, <1>7, <1>8, <1>9, <1>10, <1>11, <1>12 DEF Next

\* A session refused as expired is not served again before a login or a refresh
\* renews it (middleware, _authenticateOrRefresh, restorePluginHaSession): what is
\* stored of it stays past its time or without a state, and so do the copies of
\* it that requests still hold.
THEOREM ExpiredIsRefused == Spec => []ExpiredForGood
PROOF
  <1>1. ExpInv => ExpiredForGood
    BY DEF ExpInv, ExpiredForGood
  <1> QED
    BY <1>1, InitExp, NextExp, ShapeInvariant, PTL DEF Spec

-----------------------------------------------------------------------------
(* Identifiers and tokens do not run out *)

Ended == {x \in Requests : req[x].pc \in {"answered", "done"}}
Begun == {x \in Requests : req[x].pc \notin {"unsent", "sent"}}
Used == {s \in Sids \ Tokens : s \in Stored \/ \E x \in Requests : req[x].sid = s}

\* Every answer brings at most one token, and every request that loads its session
\* takes at most one new identifier.
IdInv ==
  /\ Given <= 1 + Cardinality(Ended)
  /\ Cardinality(Used) <= Cardinality(Begun)
  /\ Stored \subseteq Sids /\ refused \subseteq Sids /\ browser.cookie \in Sids \cup {0}
  /\ \A x \in Requests : /\ req[x].cookie \in Sids \cup {0} /\ req[x].sid \in Sids \cup {0}
                         /\ req[x].pc \in Holding \cup {"answered"} => req[x].sid \in Sids
                         /\ req[x].pc = "sent" => req[x].sid = 0

LEMMA RequestCount ==
  ASSUME NEW S \in SUBSET Requests
  PROVE  /\ IsFiniteSet(S) /\ Cardinality(S) \in Nat /\ Cardinality(Requests) \in Nat
         /\ Cardinality(S) <= Cardinality(Requests)
         /\ \A x \in Requests \ S : Cardinality(S) + 1 <= Cardinality(Requests)
         /\ \A x \in Requests : /\ x \in S => S \cup {x} = S
                                /\ x \notin S => Cardinality(S \cup {x}) = Cardinality(S) + 1
PROOF
  <1>1. IsFiniteSet(Requests)
    BY WebAuthAssumption
  <1>2. \A T \in SUBSET Requests : /\ IsFiniteSet(T) /\ Cardinality(T) \in Nat
                                   /\ Cardinality(T) <= Cardinality(Requests)
    BY <1>1, FS_Subset, FS_CardinalityType
  <1>3. \A x \in Requests : x \notin S => Cardinality(S \cup {x}) = Cardinality(S) + 1
    BY <1>2, FS_AddElement
  <1>4. ASSUME NEW x \in Requests \ S
        PROVE  Cardinality(S) + 1 <= Cardinality(Requests)
    BY <1>2, <1>3
  <1>5. Cardinality(Requests) \in Nat
    BY <1>1, FS_CardinalityType
  <1> QED
    BY <1>2, <1>3, <1>4, <1>5

LEMMA IdRanges ==
  /\ Tokens \subseteq Sids /\ 0 \notin Sids /\ IsFiniteSet(Sids \ Tokens)
  /\ Cardinality(Sids \ Tokens) = Cardinality(Requests)
  /\ IsFiniteSet(Used) /\ Cardinality(Used) \in Nat
PROOF
  <1> DEFINE n == Cardinality(Requests)
  <1>1. n \in Nat
    BY RequestCount
  <1> HIDE DEF n
  <1>2. Tokens = 1 .. n + 1 /\ Sids = 1 .. 2 * n + 1
    BY DEF Tokens, Sids, n
  <1>3. Sids \ Tokens = n + 2 .. 2 * n + 1 /\ Tokens \subseteq Sids /\ 0 \notin Sids
    BY <1>1, <1>2
  <1>4. n + 2 \in Int /\ 2 * n + 1 \in Int
    BY <1>1
  <1>5. /\ IsFiniteSet(n + 2 .. 2 * n + 1)
        /\ Cardinality(n + 2 .. 2 * n + 1) =
             IF n + 2 > 2 * n + 1 THEN 0 ELSE (2 * n + 1) - (n + 2) + 1
    BY <1>4, FS_Interval
  <1>6. (IF n + 2 > 2 * n + 1 THEN 0 ELSE (2 * n + 1) - (n + 2) + 1) = n
    BY <1>1
  <1>7. Used \subseteq Sids \ Tokens
    BY DEF Used
  <1>8. IsFiniteSet(Used) /\ Cardinality(Used) \in Nat
    BY <1>3, <1>5, <1>7, FS_Subset, FS_CardinalityType
  <1> QED
    BY <1>3, <1>5, <1>6, <1>8 DEF n

LEMMA Smallest ==
  ASSUME NEW T, T \subseteq Nat, T # {}
  PROVE  \E m \in T : \A t \in T : m <= t
PROOF
  <1> DEFINE R == OpToRel(<, Nat)
  <1>1. IsWellFoundedOn(R, Nat)
    BY NatLessThanWellFounded, Zenon
  <1>2. \A x, y \in Nat : x < y => <<x, y>> \in R
    BY DEF OpToRel
  <1> HIDE DEF R
  <1>3. PICK m \in T : \A y \in T : ~(<<y, m>> \in R)
    BY <1>1, WFMin
  <1>4. \A t \in T : ~(t < m)
    BY <1>2, <1>3
  <1> QED
    BY <1>3, <1>4

\* A token has a number in their range.
LEMMA TokenRange ==
  ASSUME ShapeInv, IdInv, NEW r \in Requests, req[r].token # 0
  PROVE  req[r].token \in Tokens
PROOF
  <1>1. Given <= 1 + Cardinality(Ended) /\ Ended \subseteq Requests
    BY DEF IdInv, Ended
  <1>2. Given <= Cardinality(Requests) + 1 /\ Given \in Nat /\ req[r].token \in 0 .. Given
    BY <1>1, RequestCount DEF ShapeInv, EndsType, Typed
  <1> QED
    BY <1>2, RequestCount DEF Tokens

\* There is a new identifier for every request that needs one.
LEMMA OpenSid ==
  ASSUME ShapeInv, IdInv, NEW r \in Requests, req[r].pc = "sent"
  PROVE  BaseSid(req[r]) \in Sids
PROOF
  <1>1. r \notin Begun /\ Begun \subseteq Requests
    BY DEF Begun
  <1>2. Cardinality(Begun) + 1 <= Cardinality(Requests) /\ Cardinality(Begun) \in Nat
    BY <1>1, RequestCount
  <1>3. Cardinality(Used) < Cardinality(Sids \ Tokens)
    BY <1>2, IdRanges, RequestCount DEF IdInv
  <1>4. Used # Sids \ Tokens
    BY <1>3, IdRanges
  <1>5. NewSids = (Sids \ Tokens) \ Used
    BY DEF NewSids, Used
  <1>6. NewSids # {} /\ NewSids \subseteq Nat
    BY <1>4, <1>5 DEF Used, Sids
  <1>7. PICK m \in NewSids : \A t \in NewSids : m <= t
    BY <1>6, Smallest
  <1>8. NewSid \in NewSids
    BY <1>7 DEF NewSid
  <1>9. req[r].token # 0 => req[r].token \in Tokens
    BY TokenRange
  <1> QED
    BY <1>5, <1>8, <1>9, IdRanges DEF BaseSid, GeneratedSid, IdInv

\* A request moves on.
LEMMA MoveKeepsIds ==
  ASSUME ShapeInv, IdInv, NEW r \in Requests, NEW a, Moves(r, a), a.pc \in Holding \cup {"answered"},
         a.sid \in Sids, req[r].pc = "sent" \/ a.sid \in Tokens \/ a.sid = req[r].sid,
         refused' \subseteq refused \cup {a.sid}, DOMAIN sessions' \subseteq Stored \cup {a.sid},
         Given' = Given \/ (Given' = Given + 1 /\ a.pc = "answered")
  PROVE  IdInv'
PROOF
  <1>1. /\ req' = [req EXCEPT ![r] = a] /\ UNCHANGED browser /\ DOMAIN req = Requests
        /\ req[r].pc \in Holding \cup {"sent"} /\ a.cookie = req[r].cookie
        /\ Given \in Nat
    BY DEF Moves, Around, Carried, ShapeInv, EndsType
  <1>2. \A x \in Requests : req'[x] = IF x = r THEN a ELSE req[x]
    BY <1>1
  <1>3. Given' <= 1 + Cardinality(Ended')
    <2>1. r \notin Ended /\ Ended \subseteq Requests
      BY <1>1 DEF Ended, Holding
    <2>2. Ended' = IF a.pc = "answered" THEN Ended \cup {r} ELSE Ended
      BY <1>2, <2>1 DEF Ended, Holding
    <2>3. Cardinality(Ended \cup {r}) = Cardinality(Ended) + 1 /\ Cardinality(Ended) \in Nat
      BY <2>1, RequestCount
    <2> QED
      BY <1>1, <2>2, <2>3 DEF IdInv
  <1>4. Cardinality(Used') <= Cardinality(Begun')
    <2>1. Begun \subseteq Requests /\ Begun' = Begun \cup {r}
      BY <1>1, <1>2 DEF Begun, Holding
    <2>2. Sids' = Sids /\ Tokens' = Tokens
      BY DEF Sids, Tokens
    <2>3. IsFiniteSet(Used) /\ Cardinality(Used) \in Nat /\ Cardinality(Begun) \in Nat
      BY <2>1, IdRanges, RequestCount
    <2>4. CASE req[r].pc = "sent"
      <3>1. r \notin Begun
        BY <2>4 DEF Begun
      <3>2. Cardinality(Begun') = Cardinality(Begun) + 1
        BY <2>1, <3>1, RequestCount
      <3>3. Used' \subseteq Used \cup {a.sid}
        BY <1>2, <2>2 DEF Used, Stored
      <3>4. /\ IsFiniteSet(Used \cup {a.sid})
            /\ Cardinality(Used \cup {a.sid}) <= Cardinality(Used) + 1
            /\ Cardinality(Used \cup {a.sid}) \in Nat
        <4>1. /\ IsFiniteSet(Used \cup {a.sid})
              /\ Cardinality(Used \cup {a.sid}) =
                   IF a.sid \in Used THEN Cardinality(Used) ELSE Cardinality(Used) + 1
          BY <2>3, FS_AddElement
        <4> QED
          BY <2>3, <4>1
      <3>5. Cardinality(Used') <= Cardinality(Used \cup {a.sid}) /\ Cardinality(Used') \in Nat
        BY <3>3, <3>4, FS_Subset, FS_CardinalityType
      <3> QED
        BY <2>3, <3>2, <3>4, <3>5 DEF IdInv
    <2>5. CASE req[r].pc # "sent"
      <3>1. Begun' = Begun
        BY <1>1, <2>1, <2>5 DEF Begun, Holding
      <3>2. Used' \subseteq Used
        BY <1>2, <2>2, <2>5 DEF Used, Stored
      <3>3. Cardinality(Used') <= Cardinality(Used) /\ Cardinality(Used') \in Nat
        BY <2>3, <3>2, FS_Subset, FS_CardinalityType
      <3> QED
        BY <2>3, <3>1, <3>3 DEF IdInv
    <2> QED
      BY <2>4, <2>5
  <1>5. Stored' \subseteq Sids /\ refused' \subseteq Sids /\ browser'.cookie \in Sids \cup {0}
    BY <1>1 DEF IdInv, Stored
  <1>6. a.pc # "sent"
    BY DEF Holding
  <1>7. \A x \in Requests : /\ req'[x].cookie \in Sids \cup {0} /\ req'[x].sid \in Sids \cup {0}
                            /\ req'[x].pc \in Holding \cup {"answered"} => req'[x].sid \in Sids
                            /\ req'[x].pc = "sent" => req'[x].sid = 0
    BY <1>1, <1>2, <1>6 DEF IdInv
  <1>8. Sids' = Sids
    BY DEF Sids
  <1> QED
    BY <1>3, <1>4, <1>5, <1>7, <1>8 DEF IdInv, Holding

LEMMA OpenKeepsIds ==
  ASSUME ShapeInv, IdInv, NEW r \in Requests, NEW a, Opened(req[r], a), Answers(r, a) \/ Holds(r, a),
         ends' = ends, refused' \subseteq refused \cup {a.sid}
  PROVE  IdInv'
PROOF
  <1>1. a.sid \in Sids /\ req[r].pc = "sent"
    BY OpenSid DEF Opened
  <1>2. Moves(r, a) /\ a.pc \in Holding \cup {"answered"} /\ DOMAIN sessions' \subseteq Stored \cup {a.sid}
    BY DEF Answers, Holds, Saved, Stored
  <1>3. Given' = Given
    BY DEF Given
  <1> QED
    BY <1>1, <1>2, <1>3, MoveKeepsIds

LEMMA StayKeepsIds ==
  ASSUME ShapeInv, IdInv, NEW r \in Requests, NEW a, Stays(req[r], a), Answers(r, a) \/ Holds(r, a),
         req[r].pc # "sent", Given' = Given \/ (Given' = Given + 1 /\ Answers(r, a)),
         refused' \subseteq refused \cup {a.sid}
  PROVE  IdInv'
PROOF
  <1>1. Moves(r, a) /\ a.pc \in Holding \cup {"answered"} /\ DOMAIN sessions' \subseteq Stored \cup {a.sid}
    BY DEF Answers, Holds, Saved, Stored
  <1>2. a.sid = req[r].sid /\ req[r].pc \in Holding
    BY <1>1 DEF Stays, Moves
  <1>3. a.sid \in Sids
    BY <1>2 DEF IdInv
  <1>4. Answers(r, a) => a.pc = "answered"
    BY DEF Answers
  <1> QED
    BY <1>1, <1>2, <1>3, <1>4, MoveKeepsIds

\* An answer of ZSS or the gateway brings a token or none.
LEMMA AnswerTokens ==
  ASSUME ShapeInv, NEW r \in Requests, authenticate(r) \/ zssRefresh(r) \/ authenticateViaCookie(r)
  PROVE  Given' = Given \/ Given' = Given + 1
PROOF
  <1>1. ends' = ends \/ \E life \in Lives : NewToken(life)
    BY DEF authenticate, zssRefresh, authenticateViaCookie
  <1>2. EndsType /\ now \in Nat /\ Lives \subseteq Nat \cup {NoExpire}
    BY WebAuthAssumption DEF ShapeInv, NoExpire
  <1>3. CASE ends' = ends
    BY <1>3 DEF Given
  <1>4. CASE \E life \in Lives : NewToken(life)
    BY <1>2, <1>4, NewTokenFacts
  <1> QED
    BY <1>1, <1>3, <1>4

LEMMA RestoreKeepsIds ==
  ASSUME ShapeInv, IdInv, NEW r \in Requests, restore(r)
  PROVE  IdInv'
PROOF
  <1>1. /\ ends' = ends /\ refused' = refused /\ req[r].pc = "restore"
        /\ \E a : \/ /\ Moves(r, a) /\ a.pc = "restored" /\ req[r].token # 0
                     /\ a.sid = GeneratedSid(req[r].token)
                     /\ sessions' = [s \in Stored \ {req[r].sid} |-> sessions[s]]
                  \/ Stays(req[r], a) /\ Answers(r, a)
    BY RestoreOutcome DEF restore
  <1>2. PICK a : \/ /\ Moves(r, a) /\ a.pc = "restored" /\ req[r].token # 0
                    /\ a.sid = GeneratedSid(req[r].token)
                    /\ sessions' = [s \in Stored \ {req[r].sid} |-> sessions[s]]
                 \/ Stays(req[r], a) /\ Answers(r, a)
    BY <1>1
  <1>3. Given' = Given
    BY <1>1 DEF Given
  <1>4. CASE /\ Moves(r, a) /\ a.pc = "restored" /\ req[r].token # 0
             /\ a.sid = GeneratedSid(req[r].token)
             /\ sessions' = [s \in Stored \ {req[r].sid} |-> sessions[s]]
    <2>1. conf.ha /\ a.sid = req[r].token
      BY <1>1, <1>4 DEF ShapeInv, Stage, StageAt, GeneratedSid
    <2>2. a.sid \in Tokens
      BY <1>4, <2>1, TokenRange
    <2>3. a.sid \in Sids
      BY <2>2, IdRanges
    <2>4. a.pc \in Holding /\ DOMAIN sessions' \subseteq Stored \cup {a.sid}
      BY <1>4 DEF Holding
    <2> QED
      BY <1>1, <1>3, <1>4, <2>2, <2>3, <2>4, MoveKeepsIds
  <1>5. CASE Stays(req[r], a) /\ Answers(r, a)
    BY <1>1, <1>3, <1>5, StayKeepsIds
  <1> QED
    BY <1>2, <1>4, <1>5

LEMMA SendKeepsIds ==
  ASSUME ShapeInv, IdInv, NEW r \in Requests,
         NEW op \in {"login", "refresh", "logout", "status", "service"}, Send(r, op)
  PROVE  IdInv'
PROOF
  <1>1. PICK q :
          /\ req[r].pc = "unsent"
          /\ UNCHANGED <<conf, now, ends, sessions, browser, expect, refused>>
          /\ Stage(q) /\ q.pc = "sent" /\ q.cookie = browser.cookie /\ req'[r] = q
          /\ \A x \in Requests \ {r} :
               \A field \in Fields \ {"mixed"} : req'[x][field] = req[x][field]
    BY SendOutcome
  <1>2. \A x \in Requests \ {r} :
          req'[x].pc = req[x].pc /\ req'[x].sid = req[x].sid /\ req'[x].cookie = req[x].cookie
    BY <1>1 DEF Fields
  <1>3. q.sid = 0
    BY <1>1 DEF Stage, StageAt
  <1>4. Ended' = Ended /\ Begun' = Begun
    BY <1>1, <1>2 DEF Ended, Begun
  <1>5. Sids' = Sids /\ Tokens' = Tokens /\ Given' = Given /\ Stored' = Stored
    BY <1>1 DEF Sids, Tokens, Given, Stored
  <1>6. Used' \subseteq Used
    BY <1>1, <1>2, <1>3, <1>5, IdRanges DEF Used
  <1>7. Cardinality(Used') <= Cardinality(Used) /\ Cardinality(Used') \in Nat
    BY <1>6, IdRanges, FS_Subset, FS_CardinalityType
  <1>8. Cardinality(Used') <= Cardinality(Begun')
    <2>1. Begun \subseteq Requests
      BY DEF Begun
    <2>2. Cardinality(Begun) \in Nat
      BY <2>1, RequestCount
    <2> QED
      BY <1>4, <1>7, <2>2, IdRanges DEF IdInv
  <1>9. \A x \in Requests : /\ req'[x].cookie \in Sids \cup {0} /\ req'[x].sid \in Sids \cup {0}
                            /\ req'[x].pc \in Holding \cup {"answered"} => req'[x].sid \in Sids
                            /\ req'[x].pc = "sent" => req'[x].sid = 0
    <2> TAKE x \in Requests
    <2>1. CASE x = r
      BY <1>1, <1>3, <2>1 DEF IdInv, Holding
    <2>2. CASE x # r
      BY <1>2, <2>2 DEF IdInv
    <2> QED
      BY <2>1, <2>2
  <1>10. Given' <= 1 + Cardinality(Ended')
    BY <1>4, <1>5 DEF IdInv
  <1> QED
    BY <1>1, <1>5, <1>8, <1>9, <1>10 DEF IdInv, Holding

LEMMA ReceiveKeepsIds ==
  ASSUME ShapeInv, IdInv, NEW r \in Requests, receive(r)
  PROVE  IdInv'
PROOF
  <1>1. /\ UNCHANGED <<conf, ends, sessions, refused>> /\ req' = [req EXCEPT ![r] = NoRequest("done")]
        /\ req[r].pc = "answered"
        /\ browser'.cookie \in {0, req[r].sid, browser.cookie}
    BY DEF receive
  <1>2. NoRequest("done").pc = "done" /\ NoRequest("done").sid = 0 /\ NoRequest("done").cookie = 0
    BY DEF NoRequest
  <1>3. \A x \in Requests : req'[x] = IF x = r THEN NoRequest("done") ELSE req[x]
    BY <1>1 DEF ShapeInv
  <1>4. Ended' = Ended /\ Begun' = Begun
    BY <1>1, <1>2, <1>3 DEF Ended, Begun
  <1>5. Sids' = Sids /\ Tokens' = Tokens /\ Given' = Given /\ Stored' = Stored
    BY <1>1 DEF Sids, Tokens, Given, Stored
  <1>6. Used' \subseteq Used
    BY <1>2, <1>3, <1>5, IdRanges DEF Used
  <1>7. Cardinality(Used') <= Cardinality(Used) /\ Cardinality(Used') \in Nat
    BY <1>6, IdRanges, FS_Subset, FS_CardinalityType
  <1>8. Cardinality(Used') <= Cardinality(Begun')
    <2>1. Begun \subseteq Requests
      BY DEF Begun
    <2>2. Cardinality(Begun) \in Nat
      BY <2>1, RequestCount
    <2> QED
      BY <1>4, <1>7, <2>2, IdRanges DEF IdInv
  <1>9. \A x \in Requests : /\ req'[x].cookie \in Sids \cup {0} /\ req'[x].sid \in Sids \cup {0}
                            /\ req'[x].pc \in Holding \cup {"answered"} => req'[x].sid \in Sids
                            /\ req'[x].pc = "sent" => req'[x].sid = 0
    BY <1>2, <1>3 DEF IdInv, Holding
  <1>10. Given' <= 1 + Cardinality(Ended')
    BY <1>4, <1>5 DEF IdInv
  <1>11. browser'.cookie \in Sids \cup {0}
    BY <1>1 DEF IdInv
  <1> QED
    BY <1>1, <1>5, <1>8, <1>9, <1>10, <1>11 DEF IdInv, Holding

LEMMA InitIds == Init => IdInv
PROOF
  <1> SUFFICES ASSUME Init PROVE IdInv
    OBVIOUS
  <1>1. /\ refused = {} /\ Stored = {} /\ browser.cookie = 0
        /\ \A x \in Requests : req[x] = NoRequest("unsent")
    BY DEF Init, Stored
  <1>2. NoRequest("unsent").pc = "unsent" /\ NoRequest("unsent").sid = 0 /\ NoRequest("unsent").cookie = 0
    BY DEF NoRequest
  <1>3. Ended = {} /\ Begun = {} /\ Used = {}
    BY <1>1, <1>2, IdRanges DEF Ended, Begun, Used
  <1>4. Cardinality({}) = 0
    BY FS_EmptySet
  <1>5. Given <= 1 + Cardinality(Ended)
    BY <1>3, <1>4, InitEnds DEF EndsType
  <1> QED
    BY <1>1, <1>2, <1>3, <1>4, <1>5 DEF IdInv, Holding

LEMMA NextIds == ShapeInv /\ IdInv /\ [Next]_vars => IdInv'
PROOF
  <1> SUFFICES ASSUME ShapeInv, IdInv, [Next]_vars PROVE IdInv'
    OBVIOUS
  <1>1. ASSUME NEW r \in Requests,
               NEW op \in {"login", "refresh", "logout", "status", "service"}, Send(r, op)
        PROVE  IdInv'
    BY <1>1, SendKeepsIds
  <1>2. ASSUME NEW r \in Requests, authBegin(r) PROVE IdInv'
    <2>1. /\ ends' = ends
          /\ \E a : /\ Opened(req[r], a)
                    /\ \/ Concludes(r, a)
                       \/ Holds(r, a) /\ refused' = refused
      BY <1>2, AuthBeginOutcome
    <2>2. \E a : /\ Opened(req[r], a) /\ (Answers(r, a) \/ Holds(r, a))
                 /\ refused' \subseteq refused \cup {a.sid}
      BY <2>1 DEF Concludes
    <2> QED
      BY <2>1, <2>2, OpenKeepsIds
  <1>3. ASSUME NEW r \in Requests,
               authenticate(r) \/ zssRefresh(r) \/ authenticateViaCookie(r)
        PROVE  IdInv'
    <2>1. PICK a : Stays(req[r], a) /\ (Concludes(r, a) \/ Breaks(r, a))
      BY <1>3, AnswerOutcome
    <2>2. Answers(r, a) /\ refused' \subseteq refused \cup {a.sid}
      BY <2>1 DEF Concludes, Breaks
    <2>3. req[r].pc # "sent"
      BY <1>3 DEF authenticate, zssRefresh, authenticateViaCookie
    <2> QED
      BY <1>3, <2>1, <2>2, <2>3, AnswerTokens, StayKeepsIds
  <1>4. ASSUME NEW r \in Requests, logoutBegin(r) PROVE IdInv'
    <2>1. \E a : Opened(req[r], a) /\ Holds(r, a) /\ refused' = refused
      BY <1>4, LogoutBeginOutcome
    <2> QED
      BY <2>1, OpenKeepsIds DEF Holds
  <1>5. ASSUME NEW r \in Requests, logoutEnd(r) PROVE IdInv'
    <2>1. PICK a : Stays(req[r], a) /\ Answers(r, a) /\ ends' = ends /\ refused' = refused
      BY <1>5, LogoutEndOutcome
    <2>2. Given' = Given
      BY <2>1 DEF Given
    <2>3. req[r].pc # "sent"
      BY <1>5 DEF logoutEnd
    <2> QED
      BY <2>1, <2>2, <2>3, StayKeepsIds
  <1>6. ASSUME NEW r \in Requests, status(r) PROVE IdInv'
    <2>1. PICK a : Opened(req[r], a) /\ Answers(r, a) /\ ends' = ends /\ refused' = refused
      BY <1>6, StatusOutcome
    <2> QED
      BY <2>1, OpenKeepsIds
  <1>7. ASSUME NEW r \in Requests, middleware(r) PROVE IdInv'
    <2>1. /\ ends' = ends
          /\ \E a : /\ Opened(req[r], a) /\ (Answers(r, a) \/ Holds(r, a))
                    /\ refused' \subseteq refused \cup {a.sid}
      BY <1>7, MiddlewareOutcome
    <2> QED
      BY <2>1, OpenKeepsIds
  <1>8. ASSUME NEW r \in Requests, restore(r) PROVE IdInv'
    BY <1>8, RestoreKeepsIds
  <1>9. ASSUME NEW r \in Requests, authorize(r) PROVE IdInv'
    <2>1. /\ ends' = ends /\ refused' = refused /\ req[r].pc = "restored"
          /\ \E a : Stays(req[r], a) /\ (Answers(r, a) \/ Holds(r, a))
      BY <1>9, AuthorizeOutcome
    <2>2. Given' = Given
      BY <2>1 DEF Given
    <2> QED
      BY <2>1, <2>2, StayKeepsIds
  <1>10. ASSUME NEW r \in Requests, serve(r) PROVE IdInv'
    <2>1. /\ ends' = ends /\ req[r].pc = "serve"
          /\ \E a : Stays(req[r], a) /\ Answers(r, a) /\ refused' \subseteq refused \cup {a.sid}
      BY <1>10, ServeOutcome
    <2>2. Given' = Given
      BY <2>1 DEF Given
    <2> QED
      BY <2>1, <2>2, StayKeepsIds
  <1>11. ASSUME NEW r \in Requests, receive(r) PROVE IdInv'
    BY <1>11, ReceiveKeepsIds
  <1>12. CASE Tick \/ UNCHANGED vars
    BY <1>12 DEF Tick, vars, IdInv, Given, Ended, Begun, Used, Stored, Sids, Tokens, Holding
  <1> QED
    BY <1>1, <1>2, <1>3, <1>4, <1>5, <1>6, <1>7, <1>8, <1>9, <1>10, <1>11, <1>12 DEF Next

LEMMA IdInvariant == Spec => []IdInv
PROOF
  <1> QED
    BY InitIds, NextIds, ShapeInvariant, PTL DEF Spec

\* Sessions have their fields, identifiers and tokens never run out, and only a
\* session with a state of the authenticator is authenticated (webauth.js, ssoAuth.js).
THEOREM TypeCorrect == Spec => []TypeOK
PROOF
  <1>1. ShapeInv /\ IdInv => TypeOK
    <2> SUFFICES ASSUME ShapeInv, IdInv PROVE TypeOK
      OBVIOUS
    <2>1. Given <= 1 + Cardinality(Ended) /\ Ended \subseteq Requests /\ DOMAIN ends = 1 .. Given
      BY DEF IdInv, Ended, ShapeInv, EndsType
    <2>2. Given <= Cardinality(Requests) + 1 /\ Given \in Nat /\ Cardinality(Requests) \in Nat
      BY <2>1, RequestCount DEF ShapeInv, EndsType
    <2>3. DOMAIN ends \subseteq Tokens
      BY <2>1, <2>2 DEF Tokens
    <2>4. browser.token \in DOMAIN ends \cup {0}
      BY <2>1, <2>2 DEF ShapeInv
    <2>5. ASSUME NEW s \in Stored
          PROVE  /\ sessions[s].zlux \in Nat
                 /\ sessions[s].plugin.auth \in BOOLEAN /\ sessions[s].plugin.ends \in Nat
                 /\ sessions[s].plugin.auth => sessions[s].plugin.kept = "yes"
      <3>1. Sound(sessions[s])
        BY DEF ShapeInv
      <3> QED
        BY <3>1, SoundParts DEF Sound
    <2> QED
      BY <2>3, <2>4, <2>5 DEF TypeOK, IdInv
  <1> QED
    BY <1>1, IdInvariant, ShapeInvariant, PTL

-----------------------------------------------------------------------------
(* What the user of the browser may rely on *)

Flying(q) == q.pc \notin {"unsent", "done"}
Good(s, until) == s.plugin.auth /\ s.zlux = until /\ s.plugin.ends = until
NoUser(stored, c) == c \in DOMAIN stored => ~stored[c].plugin.auth

\* A request of a user who is logged in, and of one who is logged out.
InOK(q, cookie, until) ==
  /\ q.cookie = cookie
  /\ q.pc \in Holding => q.sid = cookie /\ Good(q.sess, until)
  /\ q.pc = "answered" => ~q.setCookie
OutOK(q, stored) ==
  /\ q.token = 0 /\ q.newToken = 0 /\ NoUser(stored, q.cookie)
  /\ q.pc \in Holding \cup {"answered"} => ~q.sess.plugin.auth
  /\ q.pc = "answered" /\ q.setCookie => NoUser(stored, q.sid)
  /\ q.pc = "answered" /\ q.op = "service" => q.code = 401

\* A service request that arrived in time.
ServedOK(q, e) ==
  q.op = "service" /\ e.state = "in" /\ q.at < e.until /\ q.pc \in Holding \cup {"answered"} =>
    q.pc = "serve" \/ (q.pc = "answered" /\ q.code \in {200, 403})

\* A login, refresh or logout that nothing overlaps: the browser waits for it.
Succeeds(q) ==
  /\ q.pc = "answered" /\ q.op \in {"login", "refresh"} /\ q.code = 200
  /\ q.op = "login" \/ q.was
ChangeOK(q, stored, b) ==
  /\ q.cookie = b.cookie /\ q.token = b.token
  /\ Succeeds(q) =>
       /\ q.sid \in DOMAIN stored /\ stored[q.sid] = q.sess
       /\ Good(q.sess, q.sess.zlux) /\ (q.setCookie \/ q.sid = q.cookie)
  /\ q.pc = "answered" /\ q.op = "logout" /\ q.code = 200 => q.newToken = 0

Calm(rq) == \A x \in Requests : Flying(rq[x]) => ~rq[x].mixed /\ ~Changing(rq[x].op)
Kept(rq, stored, b, e, t) ==
  /\ e.until \in Nat
  /\ \A x \in Requests : Flying(rq[x]) /\ ~rq[x].mixed => rq[x].expect = e /\ ServedOK(rq[x], e)
  /\ \A x \in Requests : Flying(rq[x]) /\ rq[x].mixed /\ e.state # "any" =>
       \E y \in Requests : Flying(rq[y]) /\ Changing(rq[y].op)
  /\ Calm(rq) /\ e.state = "in" /\ t < e.until =>
       /\ b.cookie \in DOMAIN stored /\ Good(stored[b.cookie], e.until)
       /\ \A x \in Requests : Flying(rq[x]) => InOK(rq[x], b.cookie, e.until)
  /\ Calm(rq) /\ e.state = "out" =>
       /\ b.token = 0 /\ NoUser(stored, b.cookie)
       /\ \A x \in Requests : Flying(rq[x]) => OutOK(rq[x], stored)
  /\ \A x \in Requests : Flying(rq[x]) /\ ~rq[x].mixed /\ Changing(rq[x].op) =>
       ChangeOK(rq[x], stored, b)
KeepInv == Kept(req, sessions, browser, expect, now)

\* The user is logged in for now, or logged out, and nothing changes that.
In == Calm(req) /\ expect.state = "in" /\ now < expect.until
Out == Calm(req) /\ expect.state = "out"

LEMMA FlyingIs == \A x \in Requests : x \in InFlight <=> Flying(req[x])
  BY DEF InFlight, Flying

LEMMA CalmUnmixed ==
  ASSUME ShapeInv, NEW r \in Requests, Flying(req[r]), ~req[r].mixed, ~Changing(req[r].op)
  PROVE  Calm(req)
PROOF
  <1>1. r \in InFlight
    BY FlyingIs
  <1>2. ASSUME NEW x \in Requests, Flying(req[x])
        PROVE  ~req[x].mixed /\ ~Changing(req[x].op)
    <2>1. x \in InFlight
      BY <1>2, FlyingIs
    <2> QED
      BY <1>1, <2>1 DEF ShapeInv, MixedInv
  <1> QED
    BY <1>2 DEF Calm

\* A request moves on.
LEMMA MoveKeeps ==
  ASSUME ShapeInv, KeepInv, NEW r \in Requests, NEW a, Moves(r, a),
         a.pc \in Holding \cup {"answered"},
         In => /\ browser.cookie \in DOMAIN sessions'
               /\ Good(sessions'[browser.cookie], expect.until)
               /\ InOK(a, browser.cookie, expect.until),
         Out => /\ OutOK(a, sessions')
                /\ \A s \in DOMAIN sessions' : \/ s \in Stored /\ sessions'[s] = sessions[s]
                                               \/ ~sessions'[s].plugin.auth,
         ~a.mixed => ServedOK(a, expect),
         ~a.mixed /\ Changing(a.op) => ChangeOK(a, sessions', browser)
  PROVE  KeepInv'
PROOF
  <1>1. /\ req' = [req EXCEPT ![r] = a] /\ UNCHANGED <<now, browser, expect>> /\ DOMAIN req = Requests
        /\ Flying(req[r]) /\ Flying(a) /\ Carried(req[r], a)
    BY DEF Moves, Around, ShapeInv, Flying, Holding
  <1>2. \A x \in Requests : req'[x] = IF x = r THEN a ELSE req[x]
    BY <1>1
  <1>3. \A x \in Requests : /\ Flying(req'[x]) <=> Flying(req[x])
                            /\ req'[x].mixed = req[x].mixed /\ req'[x].op = req[x].op
                            /\ req'[x].expect = req[x].expect /\ req'[x].token = req[x].token
    BY <1>1, <1>2 DEF Carried
  <1>4. Calm(req') <=> Calm(req)
    BY <1>3 DEF Calm
  <1>5. Kept(req, sessions, browser, expect, now)
    BY DEF KeepInv
  <1>6. ASSUME NEW x \in Requests, Flying(req'[x]), ~req'[x].mixed
        PROVE  req'[x].expect = expect /\ ServedOK(req'[x], expect)
    BY <1>2, <1>3, <1>5, <1>6 DEF Kept
  <1>7. ASSUME NEW x \in Requests, Flying(req'[x]), req'[x].mixed, expect.state # "any"
        PROVE  \E y \in Requests : Flying(req'[y]) /\ Changing(req'[y].op)
    BY <1>3, <1>5, <1>7 DEF Kept
  <1>8. ASSUME In
        PROVE  /\ browser.cookie \in DOMAIN sessions'
               /\ Good(sessions'[browser.cookie], expect.until)
               /\ \A x \in Requests : Flying(req'[x]) => InOK(req'[x], browser.cookie, expect.until)
    BY <1>2, <1>3, <1>5, <1>8 DEF Kept, In
  <1>9. ASSUME Out
        PROVE  /\ browser.token = 0 /\ NoUser(sessions', browser.cookie)
               /\ \A x \in Requests : Flying(req'[x]) => OutOK(req'[x], sessions')
    <2>1. \A c : NoUser(sessions, c) => NoUser(sessions', c)
      BY <1>9 DEF NoUser, Stored
    <2>2. ASSUME NEW x \in Requests, Flying(req'[x])
          PROVE  OutOK(req'[x], sessions')
      <3>1. CASE x = r
        BY <1>2, <1>9, <3>1
      <3>2. CASE x # r
        <4>1. OutOK(req[x], sessions) /\ req'[x] = req[x]
          BY <1>2, <1>5, <1>9, <2>2, <3>2 DEF Kept, Out
        <4> QED
          BY <2>1, <4>1 DEF OutOK
      <3> QED
        BY <3>1, <3>2
    <2> QED
      BY <1>5, <1>9, <2>1, <2>2 DEF Kept, Out
  <1>10. ASSUME NEW x \in Requests, Flying(req'[x]), ~req'[x].mixed, Changing(req'[x].op)
         PROVE  ChangeOK(req'[x], sessions', browser)
    <2>1. x \in InFlight /\ r \in InFlight /\ Changing(req[x].op) /\ ~req[x].mixed
      BY <1>1, <1>3, <1>10, FlyingIs
    <2>2. x = r
      BY <2>1 DEF ShapeInv, MixedInv
    <2> QED
      BY <1>2, <1>10, <2>2
  <1>11. Kept(req', sessions', browser, expect, now)
    BY <1>4, <1>5, <1>6, <1>7, <1>8, <1>9, <1>10 DEF Kept, In, Out
  <1> QED
    BY <1>1, <1>11 DEF KeepInv

\* A login, refresh or logout moves on.
LEMMA ChangingMoveKeeps ==
  ASSUME ShapeInv, KeepInv, NEW r \in Requests, NEW a, Moves(r, a),
         a.pc \in Holding \cup {"answered"}, Changing(a.op),
         Succeeds(a) =>
           /\ a.sid \in DOMAIN sessions' /\ sessions'[a.sid] = a.sess
           /\ Good(a.sess, a.sess.zlux) /\ (a.setCookie \/ a.sid = a.cookie),
         a.pc = "answered" /\ a.op = "logout" /\ a.code = 200 => a.newToken = 0
  PROVE  KeepInv'
PROOF
  <1>1. Flying(req[r]) /\ Carried(req[r], a) /\ a.op = req[r].op
    BY DEF Moves, Flying, Holding, Carried
  <1>2. ~In /\ ~Out
    BY <1>1 DEF In, Out, Calm
  <1>3. ServedOK(a, expect)
    BY DEF ServedOK, Changing
  <1>4. ~a.mixed => ChangeOK(a, sessions', browser)
    <2>1. ~req[r].mixed => ChangeOK(req[r], sessions, browser)
      BY <1>1 DEF KeepInv, Kept
    <2> QED
      BY <1>1, <2>1 DEF ChangeOK, Carried
  <1> QED
    BY <1>2, <1>3, <1>4, MoveKeeps

LEMMA ConcludesKeeps ==
  ASSUME ShapeInv, KeepInv, NEW r \in Requests, NEW a, Concludes(r, a)
  PROVE  KeepInv'
PROOF
  <1>1. /\ Moves(r, a) /\ a.pc = "answered" /\ sessions' = Saved(a) /\ Changing(a.op)
        /\ a.setCookie = (Saves(a) /\ a.sid # a.cookie) /\ a.op # "logout"
    BY DEF Concludes, Answers, Changing
  <1>2. ASSUME Succeeds(a)
        PROVE  /\ a.sid \in DOMAIN sessions' /\ sessions'[a.sid] = a.sess
               /\ Good(a.sess, a.sess.zlux) /\ (a.setCookie \/ a.sid = a.cookie)
    <2>1. a.sess.plugin.auth /\ a.sess.plugin.ends = a.sess.zlux
      BY <1>2 DEF Succeeds, Concludes
    <2>2. a.sess # Fresh
      BY <2>1 DEF Fresh, NoPlugin
    <2>3. Saves(a)
      BY <2>2 DEF Saves
    <2> QED
      BY <1>1, <2>1, <2>3 DEF Saved, Good
  <1> QED
    BY <1>1, <1>2, ChangingMoveKeeps

LEMMA BreaksKeeps ==
  ASSUME ShapeInv, KeepInv, NEW r \in Requests, NEW a, Breaks(r, a)
  PROVE  KeepInv'
PROOF
  <1>1. Moves(r, a) /\ a.pc = "answered" /\ Changing(a.op) /\ a.code = 500 /\ a.op = "refresh"
    BY DEF Breaks, Answers, Changing
  <1>2. ~Succeeds(a)
    BY <1>1 DEF Succeeds
  <1> QED
    BY <1>1, <1>2, ChangingMoveKeeps

LEMMA ChangingHoldKeeps ==
  ASSUME ShapeInv, KeepInv, NEW r \in Requests, NEW a, Holds(r, a), Changing(a.op)
  PROVE  KeepInv'
PROOF
  <1>1. Moves(r, a) /\ a.pc \in Holding
    BY DEF Holds
  <1>2. a.pc # "answered"
    BY <1>1 DEF Holding
  <1> QED
    BY <1>1, <1>2, ChangingMoveKeeps DEF Succeeds

LEMMA LogoutEndKeeps ==
  ASSUME ShapeInv, KeepInv, NEW r \in Requests, logoutEnd(r)
  PROVE  KeepInv'
PROOF
  <1>1. PICK a : Answers(r, a) /\ a.op = "logout" /\ (a.code = 200 => a.newToken = 0)
    BY LogoutEndOutcome
  <1>2. Moves(r, a) /\ a.pc = "answered" /\ Changing(a.op) /\ ~Succeeds(a)
    BY <1>1 DEF Answers, Changing, Succeeds
  <1> QED
    BY <1>1, <1>2, ChangingMoveKeeps

\* What a request finds on arrival.
LEMMA OpenedKept ==
  ASSUME ShapeInv, KeepInv, NEW r \in Requests, NEW a, Opened(req[r], a)
  PROVE  /\ In => /\ browser.cookie \in Stored /\ a.cookie = browser.cookie /\ a.sid = browser.cookie
                  /\ Base(req[r]) = sessions[browser.cookie] /\ Good(Base(req[r]), expect.until)
         /\ Out => /\ a.token = 0 /\ req[r].newToken = 0 /\ ~Base(req[r]).plugin.auth
                   /\ NoUser(sessions, a.cookie)
PROOF
  <1>1. /\ Flying(req[r]) /\ a.cookie = req[r].cookie /\ a.token = req[r].token
        /\ a.sid = BaseSid(req[r])
    BY DEF Opened, Flying, Carried
  <1>2. ASSUME In
        PROVE  /\ browser.cookie \in Stored /\ a.cookie = browser.cookie /\ a.sid = browser.cookie
               /\ Base(req[r]) = sessions[browser.cookie] /\ Good(Base(req[r]), expect.until)
    <2>1. /\ browser.cookie \in Stored /\ Good(sessions[browser.cookie], expect.until)
          /\ req[r].cookie = browser.cookie
      BY <1>1, <1>2 DEF In, KeepInv, Kept, InOK, Stored
    <2> QED
      BY <1>1, <2>1 DEF Base, BaseSid
  <1>3. ASSUME Out
        PROVE  /\ a.token = 0 /\ req[r].newToken = 0 /\ ~Base(req[r]).plugin.auth
               /\ NoUser(sessions, a.cookie)
    <2>1. OutOK(req[r], sessions)
      BY <1>1, <1>3 DEF Out, KeepInv, Kept
    <2>2. ~Base(req[r]).plugin.auth
      <3>1. Fresh.plugin.auth = FALSE
        BY DEF Fresh, NoPlugin
      <3> QED
        BY <2>1, <3>1 DEF OutOK, NoUser, Base, Stored
    <2> QED
      BY <1>1, <2>1, <2>2 DEF OutOK
  <1> QED
    BY <1>2, <1>3

\* An answer that changes neither the session of a user nor that there is none.
LEMMA AnswerKeepsUser ==
  ASSUME ShapeInv, KeepInv, NEW r \in Requests, NEW a, Answers(r, a), ~Changing(a.op),
         In => a.cookie = browser.cookie /\ a.sid = browser.cookie /\ Good(a.sess, expect.until),
         Out => /\ a.token = 0 /\ a.newToken = 0 /\ ~a.sess.plugin.auth
                /\ NoUser(sessions, a.cookie) /\ (a.op = "service" => a.code = 401),
         ~a.mixed => ServedOK(a, expect)
  PROVE  KeepInv'
PROOF
  <1>1. /\ Moves(r, a) /\ a.pc = "answered" /\ sessions' = Saved(a)
        /\ a.setCookie = (Saves(a) /\ a.sid # a.cookie)
    BY DEF Answers
  <1>2. a.pc \notin Holding
    BY <1>1 DEF Holding
  <1>3. \A s \in DOMAIN sessions' : \/ s \in Stored /\ sessions'[s] = sessions[s]
                                    \/ s = a.sid /\ sessions'[s] = a.sess
    BY <1>1 DEF Saved, Stored
  <1>4. Saves(a) => a.sid \in DOMAIN sessions' /\ sessions'[a.sid] = a.sess
    BY <1>1 DEF Saved
  <1>5. ASSUME In
        PROVE  /\ browser.cookie \in DOMAIN sessions'
               /\ Good(sessions'[browser.cookie], expect.until)
               /\ InOK(a, browser.cookie, expect.until)
    <2>1. a.cookie = browser.cookie /\ a.sid = browser.cookie /\ Good(a.sess, expect.until)
      BY <1>5
    <2>2. Saves(a)
      BY <2>1 DEF Saves
    <2> QED
      BY <1>1, <1>2, <1>4, <2>1, <2>2 DEF InOK
  <1>6. ASSUME Out
        PROVE  /\ OutOK(a, sessions')
               /\ \A s \in DOMAIN sessions' : \/ s \in Stored /\ sessions'[s] = sessions[s]
                                              \/ ~sessions'[s].plugin.auth
    <2>1. \A s \in DOMAIN sessions' : \/ s \in Stored /\ sessions'[s] = sessions[s]
                                      \/ ~sessions'[s].plugin.auth
      BY <1>3, <1>6
    <2>2. NoUser(sessions', a.cookie)
      BY <1>6, <2>1 DEF NoUser, Stored
    <2>3. a.setCookie => NoUser(sessions', a.sid)
      BY <1>1, <1>4, <1>6 DEF NoUser
    <2> QED
      BY <1>6, <2>1, <2>2, <2>3 DEF OutOK
  <1> QED
    BY <1>1, <1>5, <1>6, MoveKeeps

\* A wait of a service request.
LEMMA HoldKeeps ==
  ASSUME ShapeInv, KeepInv, NEW r \in Requests, NEW a, Holds(r, a), ~Changing(a.op),
         In => a.cookie = browser.cookie /\ a.sid = browser.cookie /\ Good(a.sess, expect.until),
         Out => /\ a.token = 0 /\ a.newToken = 0 /\ ~a.sess.plugin.auth
                /\ NoUser(sessions, a.cookie),
         ~a.mixed => ServedOK(a, expect)
  PROVE  KeepInv'
PROOF
  <1>1. Moves(r, a) /\ a.pc \in Holding /\ sessions' = sessions
    BY DEF Holds
  <1>2. a.pc # "answered"
    BY <1>1 DEF Holding
  <1>3. ASSUME In
        PROVE  /\ browser.cookie \in DOMAIN sessions'
               /\ Good(sessions'[browser.cookie], expect.until)
               /\ InOK(a, browser.cookie, expect.until)
    <2>1. browser.cookie \in DOMAIN sessions /\ Good(sessions[browser.cookie], expect.until)
      BY <1>3 DEF In, KeepInv, Kept
    <2> QED
      BY <1>1, <1>2, <1>3, <2>1 DEF InOK
  <1>4. ASSUME Out
        PROVE  /\ OutOK(a, sessions')
               /\ \A s \in DOMAIN sessions' : \/ s \in Stored /\ sessions'[s] = sessions[s]
                                              \/ ~sessions'[s].plugin.auth
    BY <1>1, <1>2, <1>4 DEF OutOK, Stored
  <1> QED
    BY <1>1, <1>3, <1>4, MoveKeeps

LEMMA StatusKeepsUser ==
  ASSUME ShapeInv, KeepInv, NEW r \in Requests, status(r)
  PROVE  KeepInv'
PROOF
  <1>1. PICK a : /\ Opened(req[r], a) /\ Answers(r, a) /\ a.op = "status"
                 /\ Copied(a.sess, Base(req[r])) /\ a.newToken = req[r].newToken
    BY StatusOutcome
  <1>2. ~Changing(a.op) /\ ServedOK(a, expect)
    BY <1>1 DEF Changing, ServedOK
  <1>3. ASSUME In
        PROVE  a.cookie = browser.cookie /\ a.sid = browser.cookie /\ Good(a.sess, expect.until)
    <2>1. a.cookie = browser.cookie /\ a.sid = browser.cookie /\ Good(Base(req[r]), expect.until)
      BY <1>1, <1>3, OpenedKept
    <2>2. Sound(Base(req[r])) /\ now \in Nat
      BY BaseSound DEF ShapeInv
    <2>3. ~(Base(req[r]).plugin.ends <= now)
      BY <1>3, <2>1, <2>2, SoundParts DEF In, Good
    <2>4. a.sess = Base(req[r])
      BY <1>1, <2>1, <2>3 DEF Copied, Good
    <2> QED
      BY <2>1, <2>4
  <1>4. ASSUME Out
        PROVE  a.token = 0 /\ a.newToken = 0 /\ ~a.sess.plugin.auth /\ NoUser(sessions, a.cookie)
    BY <1>1, <1>4, OpenedKept DEF Copied
  <1> QED
    BY <1>1, <1>2, <1>3, <1>4, AnswerKeepsUser

\* A user who is logged in is let through, before the session ends.
LEMMA MiddlewareKeepsUser ==
  ASSUME ShapeInv, KeepInv, NEW r \in Requests, middleware(r)
  PROVE  KeepInv'
PROOF
  <1> DEFINE b == Base(req[r])
  <1>1. PICK a :
          /\ Opened(req[r], a) /\ a.op = "service" /\ a.newToken = req[r].newToken
          /\ \/ Holds(r, a) /\ a.pc = "restore" /\ b = Fresh /\ a.sess = b
             \/ Answers(r, a) /\ a.code = 401 /\ TimedOut(b) /\ a.sess.plugin = b.plugin
             \/ Holds(r, a) /\ a.pc = "serve" /\ a.sess = b /\ b.plugin.auth
             \/ Answers(r, a) /\ a.code = 401 /\ a.sess = b /\ ~b.plugin.auth
    BY MiddlewareOutcome
  <1>2. ~Changing(a.op) /\ Flying(req[r]) /\ a.op = req[r].op /\ a.mixed = req[r].mixed /\ a.at = now
    BY <1>1 DEF Opened, Carried, Changing, Flying
  <1>3. Sound(b) /\ now \in Nat /\ 1 <= now
    BY BaseSound DEF ShapeInv
  <1>4. In => /\ a.cookie = browser.cookie /\ a.sid = browser.cookie /\ Good(b, expect.until)
    BY <1>1, OpenedKept
  <1>5. Out => a.token = 0 /\ a.newToken = 0 /\ ~b.plugin.auth /\ NoUser(sessions, a.cookie)
    BY <1>1, OpenedKept
  <1> HIDE DEF b
  <1>6. In => b # Fresh /\ b.plugin.auth /\ ~TimedOut(b)
    <2> SUFFICES ASSUME In PROVE b # Fresh /\ b.plugin.auth /\ ~TimedOut(b)
      OBVIOUS
    <2>1. b.plugin.auth /\ b.zlux = expect.until /\ now < expect.until /\ b.zlux \in Nat
      BY <1>3, <1>4, SoundParts DEF In, Good
    <2>2. b.zlux # 0 /\ ~(b.zlux < now)
      BY <1>3, <2>1
    <2> QED
      BY <2>1, <2>2 DEF TimedOut, Fresh
  <1>7. ~a.mixed /\ expect.state = "in" /\ a.at < expect.until => In
    BY <1>2, CalmUnmixed DEF In
  <1>8. ASSUME a.pc = "serve" \/ ~In
        PROVE  ~a.mixed => ServedOK(a, expect)
    BY <1>7, <1>8 DEF ServedOK
  <1>9. CASE Holds(r, a) /\ a.pc = "restore" /\ b = Fresh /\ a.sess = b
    BY <1>2, <1>5, <1>6, <1>8, <1>9, HoldKeeps
  <1>10. CASE Answers(r, a) /\ a.code = 401 /\ TimedOut(b) /\ a.sess.plugin = b.plugin
    BY <1>2, <1>5, <1>6, <1>8, <1>10, AnswerKeepsUser
  <1>11. CASE Holds(r, a) /\ a.pc = "serve" /\ a.sess = b /\ b.plugin.auth
    BY <1>2, <1>4, <1>5, <1>8, <1>11, HoldKeeps
  <1>12. CASE Answers(r, a) /\ a.code = 401 /\ a.sess = b /\ ~b.plugin.auth
    BY <1>2, <1>5, <1>6, <1>8, <1>12, AnswerKeepsUser
  <1> QED
    BY <1>1, <1>9, <1>10, <1>11, <1>12 DEF b

\* What a service request holds.
LEMMA HeldKept ==
  ASSUME ShapeInv, KeepInv, NEW r \in Requests, req[r].pc \in Holding, req[r].op = "service"
  PROVE  /\ In => /\ req[r].cookie = browser.cookie /\ req[r].sid = browser.cookie
                  /\ Good(req[r].sess, expect.until)
         /\ Out => OutOK(req[r], sessions) /\ ~req[r].sess.plugin.auth
         /\ ~req[r].mixed /\ req[r].pc # "serve" => ~(expect.state = "in" /\ req[r].at < expect.until)
PROOF
  <1>1. Flying(req[r]) /\ req[r].pc # "answered"
    BY DEF Flying, Holding
  <1>2. In => InOK(req[r], browser.cookie, expect.until)
    BY <1>1 DEF KeepInv, Kept, In
  <1>3. Out => OutOK(req[r], sessions)
    BY <1>1 DEF KeepInv, Kept, Out
  <1>4. ~req[r].mixed => ServedOK(req[r], expect)
    BY <1>1 DEF KeepInv, Kept
  <1> QED
    BY <1>1, <1>2, <1>3, <1>4 DEF InOK, OutOK, ServedOK

LEMMA RestoreKeepsUser ==
  ASSUME ShapeInv, KeepInv, NEW r \in Requests, restore(r)
  PROVE  KeepInv'
PROOF
  <1>1. /\ req[r].op = "service"
        /\ \E a : /\ a.newToken = req[r].newToken
                  /\ \/ /\ Moves(r, a) /\ a.pc = "restored" /\ req[r].token # 0 /\ a.at = req[r].at
                     \/ /\ Stays(req[r], a) /\ Answers(r, a) /\ a.code = 401 /\ ~a.sess.plugin.auth
    BY RestoreOutcome
  <1>2. PICK a : /\ a.newToken = req[r].newToken
                 /\ \/ /\ Moves(r, a) /\ a.pc = "restored" /\ req[r].token # 0 /\ a.at = req[r].at
                    \/ /\ Stays(req[r], a) /\ Answers(r, a) /\ a.code = 401 /\ ~a.sess.plugin.auth
    BY <1>1
  <1>3. req[r].pc = "restore" /\ req[r].pc \in Holding
    BY DEF restore, Holding
  <1>4. req[r].sess = Fresh
    BY <1>3 DEF ShapeInv, Stage, StageAt
  <1>5. /\ In => Good(req[r].sess, expect.until)
        /\ Out => OutOK(req[r], sessions)
        /\ ~req[r].mixed => ~(expect.state = "in" /\ req[r].at < expect.until)
    BY <1>1, <1>3, HeldKept
  <1>6. ~In
    BY <1>4, <1>5 DEF Good, Fresh, NoPlugin
  <1>7. Out => req[r].token = 0 /\ req[r].newToken = 0 /\ NoUser(sessions, req[r].cookie)
    BY <1>5 DEF OutOK
  <1>8. Carried(req[r], a) /\ a.at = req[r].at
    BY <1>2 DEF Moves, Stays
  <1>9. /\ a.op = "service" /\ a.mixed = req[r].mixed /\ a.token = req[r].token
        /\ a.cookie = req[r].cookie /\ ~Changing(a.op)
    BY <1>1, <1>8 DEF Carried, Changing
  <1>10. ~a.mixed => ServedOK(a, expect)
    BY <1>5, <1>8, <1>9 DEF ServedOK
  <1>11. CASE Moves(r, a) /\ a.pc = "restored" /\ req[r].token # 0
    <2>1. ~Out /\ a.pc \in Holding
      BY <1>7, <1>11 DEF Holding
    <2> QED
      BY <1>6, <1>9, <1>10, <1>11, <2>1, MoveKeeps
  <1>12. CASE Answers(r, a) /\ a.code = 401 /\ ~a.sess.plugin.auth
    BY <1>2, <1>6, <1>7, <1>9, <1>10, <1>12, AnswerKeepsUser
  <1> QED
    BY <1>2, <1>11, <1>12

LEMMA AuthorizeKeepsUser ==
  ASSUME ShapeInv, KeepInv, NEW r \in Requests, authorize(r)
  PROVE  KeepInv'
PROOF
  <1>1. /\ req[r].pc = "restored"
        /\ \E a : /\ Stays(req[r], a) /\ a.sess = req[r].sess /\ a.newToken = req[r].newToken
                  /\ \/ Holds(r, a) /\ a.pc = "serve"
                     \/ Answers(r, a) /\ a.code = 401 /\ ~a.sess.plugin.auth
    BY AuthorizeOutcome
  <1>2. PICK a : /\ Stays(req[r], a) /\ a.sess = req[r].sess /\ a.newToken = req[r].newToken
                 /\ \/ Holds(r, a) /\ a.pc = "serve"
                    \/ Answers(r, a) /\ a.code = 401 /\ ~a.sess.plugin.auth
    BY <1>1
  <1>3. req[r].op = "service" /\ req[r].pc \in Holding
    BY <1>1 DEF ShapeInv, Stage, StageAt, Holding
  <1>4. /\ In => /\ req[r].cookie = browser.cookie /\ req[r].sid = browser.cookie
                 /\ Good(req[r].sess, expect.until)
        /\ Out => OutOK(req[r], sessions) /\ ~req[r].sess.plugin.auth
        /\ ~req[r].mixed => ~(expect.state = "in" /\ req[r].at < expect.until)
    BY <1>1, <1>3, HeldKept
  <1>5. /\ a.op = "service" /\ a.mixed = req[r].mixed /\ a.token = req[r].token /\ a.sid = req[r].sid
        /\ a.cookie = req[r].cookie /\ a.at = req[r].at /\ ~Changing(a.op)
    BY <1>2, <1>3 DEF Stays, Carried, Changing
  <1>6. ~a.mixed => ServedOK(a, expect)
    BY <1>4, <1>5 DEF ServedOK
  <1>7. /\ In => a.cookie = browser.cookie /\ a.sid = browser.cookie /\ Good(a.sess, expect.until)
        /\ Out => /\ a.token = 0 /\ a.newToken = 0 /\ ~a.sess.plugin.auth /\ NoUser(sessions, a.cookie)
    BY <1>2, <1>4, <1>5 DEF OutOK
  <1>8. CASE Holds(r, a) /\ a.pc = "serve"
    BY <1>5, <1>6, <1>7, <1>8, HoldKeeps
  <1>9. CASE Answers(r, a) /\ a.code = 401 /\ ~a.sess.plugin.auth
    BY <1>5, <1>6, <1>7, <1>9, AnswerKeepsUser
  <1> QED
    BY <1>2, <1>8, <1>9

LEMMA ServeKeepsUser ==
  ASSUME ShapeInv, KeepInv, NEW r \in Requests, serve(r)
  PROVE  KeepInv'
PROOF
  <1>1. /\ req[r].pc = "serve"
        /\ \E a : /\ Stays(req[r], a) /\ Answers(r, a) /\ a.code \in {200, 403} /\ a.sess = req[r].sess
                  /\ a.newToken = req[r].newToken
    BY ServeOutcome
  <1>2. PICK a : /\ Stays(req[r], a) /\ Answers(r, a) /\ a.code \in {200, 403} /\ a.sess = req[r].sess
                 /\ a.newToken = req[r].newToken
    BY <1>1
  <1>3. req[r].op = "service" /\ req[r].pc \in Holding /\ req[r].sess.plugin.auth
    BY <1>1 DEF ShapeInv, Stage, StageAt, Holding
  <1>4. /\ In => /\ req[r].cookie = browser.cookie /\ req[r].sid = browser.cookie
                 /\ Good(req[r].sess, expect.until)
        /\ ~Out
    BY <1>3, HeldKept
  <1>5. /\ a.op = "service" /\ a.sid = req[r].sid /\ a.cookie = req[r].cookie /\ ~Changing(a.op)
        /\ a.pc = "answered"
    BY <1>2, <1>3 DEF Stays, Carried, Changing, Answers
  <1>6. ServedOK(a, expect)
    BY <1>2, <1>5 DEF ServedOK
  <1> QED
    BY <1>2, <1>4, <1>5, <1>6, AnswerKeepsUser

LEMMA SendKeepsUser ==
  ASSUME ShapeInv, KeepInv, NEW r \in Requests,
         NEW op \in {"login", "refresh", "logout", "status", "service"}, Send(r, op)
  PROVE  KeepInv'
PROOF
  <1>1. PICK q :
          /\ req[r].pc = "unsent" /\ UNCHANGED <<conf, now, ends, sessions, browser, expect, refused>>
          /\ Stage(q) /\ q.pc = "sent" /\ q.op = op /\ q.mixed = Marked(r, op)
          /\ q.cookie = browser.cookie /\ q.token = browser.token /\ q.expect = expect
          /\ req'[r] = q
          /\ \A x \in Requests \ {r} :
               /\ req'[x].mixed = (req[x].mixed \/ (x \in InFlight /\ Marked(r, op)))
               /\ \A field \in Fields \ {"mixed"} : req'[x][field] = req[x][field]
    BY SendOutcome
  <1>2. ASSUME NEW x \in Requests \ {r}
        PROVE  /\ req'[x].op = req[x].op /\ req'[x].pc = req[x].pc /\ req'[x].cookie = req[x].cookie
               /\ req'[x].token = req[x].token /\ req'[x].sid = req[x].sid
               /\ req'[x].sess = req[x].sess /\ req'[x].was = req[x].was
               /\ req'[x].code = req[x].code /\ req'[x].newToken = req[x].newToken
               /\ req'[x].setCookie = req[x].setCookie /\ req'[x].expect = req[x].expect
               /\ req'[x].at = req[x].at
    BY <1>1 DEF Fields
  <1>3. q.newToken = q.token /\ Flying(q) /\ q.pc \notin Holding \cup {"answered"}
    BY <1>1 DEF Stage, StageAt, Flying, Holding
  <1>4. \A x \in Requests \ {r} : /\ Flying(req'[x]) <=> Flying(req[x])
                                  /\ req[x].mixed => req'[x].mixed
                                  /\ ~req'[x].mixed => ~req[x].mixed
    BY <1>1, <1>2 DEF Flying
  <1>5. ~Flying(req[r])
    BY <1>1 DEF Flying
  <1>6. Kept(req, sessions, browser, expect, now)
    BY DEF KeepInv
  <1>7. Calm(req') => Calm(req)
    <2> SUFFICES ASSUME Calm(req'), NEW x \in Requests, Flying(req[x])
                 PROVE  ~req[x].mixed /\ ~Changing(req[x].op)
      BY DEF Calm
    <2>1. x # r
      BY <1>5
    <2> QED
      BY <1>2, <1>4, <2>1 DEF Calm
  <1>8. ASSUME NEW x \in Requests, Flying(req'[x]), ~req'[x].mixed
        PROVE  req'[x].expect = expect /\ ServedOK(req'[x], expect)
    <2>1. CASE x = r
      BY <1>1, <1>3, <2>1 DEF ServedOK
    <2>2. CASE x # r
      <3>1. req[x].expect = expect /\ ServedOK(req[x], expect)
        BY <1>4, <1>6, <1>8, <2>2 DEF Kept
      <3> QED
        BY <1>2, <2>2, <3>1 DEF ServedOK
    <2> QED
      BY <2>1, <2>2
  <1>9. ASSUME NEW x \in Requests, Flying(req'[x]), req'[x].mixed, expect.state # "any"
        PROVE  \E y \in Requests : Flying(req'[y]) /\ Changing(req'[y].op)
    <2>1. CASE Marked(r, op)
      <3>1. PICK z \in InFlight : Changing(op) \/ Changing(req[z].op) \/ req[z].mixed
        BY <2>1 DEF Marked
      <3>2. z \in Requests /\ z # r /\ Flying(req[z])
        BY <1>5, <3>1 DEF InFlight, Flying
      <3>3. CASE Changing(op)
        BY <1>1, <1>3, <3>3
      <3>4. CASE Changing(req[z].op)
        BY <1>2, <1>4, <3>2, <3>4
      <3>5. CASE req[z].mixed
        <4>1. PICK y \in Requests : Flying(req[y]) /\ Changing(req[y].op)
          BY <1>6, <1>9, <3>2, <3>5 DEF Kept
        <4>2. y # r
          BY <1>5, <4>1
        <4> QED
          BY <1>2, <1>4, <4>1, <4>2
      <3> QED
        BY <3>1, <3>3, <3>4, <3>5
    <2>2. CASE ~Marked(r, op)
      <3>1. x # r
        BY <1>1, <1>9, <2>2
      <3>2. Flying(req[x]) /\ req[x].mixed
        BY <1>1, <1>4, <1>9, <2>2, <3>1
      <3>3. x \in InFlight
        BY <3>2, FlyingIs
      <3> QED
        BY <2>2, <3>2, <3>3 DEF Marked
    <2> QED
      BY <2>1, <2>2
  <1>10. ASSUME Calm(req'), expect.state = "in", now < expect.until
         PROVE  /\ browser.cookie \in DOMAIN sessions /\ Good(sessions[browser.cookie], expect.until)
                /\ \A x \in Requests : Flying(req'[x]) => InOK(req'[x], browser.cookie, expect.until)
    <2>1. /\ browser.cookie \in DOMAIN sessions /\ Good(sessions[browser.cookie], expect.until)
          /\ \A x \in Requests : Flying(req[x]) => InOK(req[x], browser.cookie, expect.until)
      BY <1>6, <1>7, <1>10 DEF Kept
    <2>2. ASSUME NEW x \in Requests, Flying(req'[x])
          PROVE  InOK(req'[x], browser.cookie, expect.until)
      <3>1. CASE x = r
        BY <1>1, <1>3, <3>1 DEF InOK
      <3>2. CASE x # r
        BY <1>2, <1>4, <2>1, <2>2, <3>2 DEF InOK
      <3> QED
        BY <3>1, <3>2
    <2> QED
      BY <2>1, <2>2
  <1>11. ASSUME Calm(req'), expect.state = "out"
         PROVE  /\ browser.token = 0 /\ NoUser(sessions, browser.cookie)
                /\ \A x \in Requests : Flying(req'[x]) => OutOK(req'[x], sessions)
    <2>1. /\ browser.token = 0 /\ NoUser(sessions, browser.cookie)
          /\ \A x \in Requests : Flying(req[x]) => OutOK(req[x], sessions)
      BY <1>6, <1>7, <1>11 DEF Kept
    <2>2. ASSUME NEW x \in Requests, Flying(req'[x])
          PROVE  OutOK(req'[x], sessions)
      <3>1. CASE x = r
        BY <1>1, <1>3, <2>1, <3>1 DEF OutOK
      <3>2. CASE x # r
        BY <1>2, <1>4, <2>1, <2>2, <3>2 DEF OutOK
      <3> QED
        BY <3>1, <3>2
    <2> QED
      BY <2>1, <2>2
  <1>12. ASSUME NEW x \in Requests, Flying(req'[x]), ~req'[x].mixed, Changing(req'[x].op)
         PROVE  ChangeOK(req'[x], sessions, browser)
    <2>1. CASE x = r
      BY <1>1, <1>3, <2>1 DEF ChangeOK, Succeeds
    <2>2. CASE x # r
      <3>1. ChangeOK(req[x], sessions, browser)
        BY <1>2, <1>4, <1>6, <1>12, <2>2 DEF Kept
      <3> QED
        BY <1>2, <2>2, <3>1 DEF ChangeOK, Succeeds
    <2> QED
      BY <2>1, <2>2
  <1>13. Kept(req', sessions, browser, expect, now)
    BY <1>6, <1>8, <1>9, <1>10, <1>11, <1>12 DEF Kept
  <1> QED
    BY <1>1, <1>13 DEF KeepInv

\* The browser takes the answer: what its user may rely on is so from then on.
LEMMA ReceiveKeepsUser ==
  ASSUME ShapeInv, IdInv, KeepInv, NEW r \in Requests, receive(r)
  PROVE  KeepInv'
PROOF
  <1> DEFINE q == req[r]
             e == Expected(q)
             c == IF q.op = "logout" THEN 0 ELSE IF q.setCookie THEN q.sid ELSE browser.cookie
             t == IF q.newToken # q.token THEN q.newToken ELSE browser.token
  <1>1. /\ q.pc = "answered" /\ UNCHANGED <<now, sessions>> /\ expect' = e
        /\ browser'.cookie = c /\ browser'.token = t
        /\ req' = [req EXCEPT ![r] = NoRequest("done")]
    BY DEF receive
  <1>2. NoRequest("done").pc = "done"
    BY DEF NoRequest
  <1>3. \A x \in Requests : req'[x] = IF x = r THEN NoRequest("done") ELSE req[x]
    BY <1>1 DEF ShapeInv
  <1>4. \A x \in Requests : Flying(req'[x]) => x # r /\ req'[x] = req[x]
    BY <1>2, <1>3 DEF Flying
  <1>5. Flying(q) /\ Kept(req, sessions, browser, expect, now)
    BY <1>1 DEF Flying, KeepInv
  <1>6. r \in InFlight
    BY <1>5, FlyingIs
  <1>7. \A x \in Requests : Flying(req[x]) => req[x].mixed = q.mixed
    BY <1>6, FlyingIs DEF ShapeInv, MixedInv
  <1>8. q.mixed \in BOOLEAN /\ q.sess.zlux \in Nat
    BY SoundParts DEF ShapeInv, Typed, Sound
  <1>a. e.until \in Nat
    BY <1>5, <1>8 DEF Expected, Kept
  <1> HIDE DEF e, c, t
  <1>9. CASE Changing(q.op) /\ ~q.mixed
    <2>1. \A x \in Requests : ~Flying(req'[x])
      <3> SUFFICES ASSUME NEW x \in Requests, Flying(req'[x]) PROVE FALSE
        OBVIOUS
      <3>1. x # r /\ x \in InFlight
        BY <1>4, FlyingIs
      <3> QED
        BY <1>6, <1>9, <3>1 DEF ShapeInv, MixedInv
    <2>2. ChangeOK(q, sessions, browser)
      BY <1>5, <1>9 DEF Kept
    <2>3. ASSUME e.state = "in"
          PROVE  c \in DOMAIN sessions /\ Good(sessions[c], e.until)
      <3>1. Succeeds(q) /\ e.until = q.sess.zlux /\ q.op # "logout"
        BY <1>1, <1>9, <2>3 DEF e, Expected, Succeeds, Changing
      <3>2. c = q.sid
        BY <2>2, <3>1 DEF ChangeOK, c
      <3> QED
        BY <2>2, <3>1, <3>2 DEF ChangeOK
    <2>4. ASSUME e.state = "out"
          PROVE  t = 0 /\ NoUser(sessions, c)
      <3>1. q.op = "logout" /\ q.code = 200
        BY <1>9, <2>4 DEF e, Expected, Changing
      <3>2. c = 0 /\ t = 0
        BY <1>1, <2>2, <3>1 DEF ChangeOK, c, t
      <3>3. 0 \notin Stored
        BY IdRanges DEF IdInv
      <3> QED
        BY <3>2, <3>3 DEF NoUser, Stored
    <2>5. Kept(req', sessions, browser', e, now)
      BY <1>1, <1>a, <2>1, <2>3, <2>4 DEF Kept
    <2> QED
      BY <1>1, <2>5 DEF KeepInv
  <1>10. CASE Changing(q.op) /\ q.mixed
    <2>1. e.state = "any"
      BY <1>10 DEF e, Expected
    <2>2. \A x \in Requests : Flying(req'[x]) => req'[x].mixed
      BY <1>4, <1>7, <1>10
    <2>3. Kept(req', sessions, browser', e, now)
      BY <1>a, <2>1, <2>2 DEF Kept
    <2> QED
      BY <1>1, <2>3 DEF KeepInv
  <1>11. CASE ~Changing(q.op)
    <2>1. e = expect /\ q.op # "logout"
      BY <1>11 DEF e, Expected, Changing
    <2>2. ASSUME NEW x \in Requests, Flying(req'[x]), req'[x].mixed, expect.state # "any"
          PROVE  \E y \in Requests : Flying(req'[y]) /\ Changing(req'[y].op)
      <3>1. PICK y \in Requests : Flying(req[y]) /\ Changing(req[y].op)
        BY <1>4, <1>5, <2>2 DEF Kept
      <3>2. y # r
        BY <1>11, <3>1
      <3> QED
        BY <1>3, <3>1, <3>2
    <2>3. ASSUME Calm(req'), expect.state # "any"
          PROVE  Calm(req)
      <3>1. ~q.mixed
        <4> SUFFICES ASSUME q.mixed PROVE FALSE
          BY <1>8
        <4>1. PICK y \in Requests : Flying(req[y]) /\ Changing(req[y].op)
          BY <1>5, <2>3 DEF Kept
        <4>2. y # r
          BY <1>11, <4>1
        <4> QED
          BY <1>3, <2>3, <4>1, <4>2 DEF Calm
      <3> QED
        BY <1>5, <1>11, <3>1, CalmUnmixed
    <2>4. ASSUME Calm(req'), expect.state = "in", now < expect.until
          PROVE  /\ c \in DOMAIN sessions /\ Good(sessions[c], expect.until)
                 /\ \A x \in Requests : Flying(req'[x]) => InOK(req'[x], c, expect.until)
      <3>1. /\ browser.cookie \in DOMAIN sessions /\ Good(sessions[browser.cookie], expect.until)
            /\ \A x \in Requests : Flying(req[x]) => InOK(req[x], browser.cookie, expect.until)
        BY <1>5, <2>3, <2>4 DEF Kept
      <3>2. c = browser.cookie
        BY <1>1, <1>5, <2>1, <3>1 DEF InOK, c
      <3> QED
        BY <1>4, <3>1, <3>2
    <2>5. ASSUME Calm(req'), expect.state = "out"
          PROVE  /\ t = 0 /\ NoUser(sessions, c)
                 /\ \A x \in Requests : Flying(req'[x]) => OutOK(req'[x], sessions)
      <3>1. /\ browser.token = 0 /\ NoUser(sessions, browser.cookie)
            /\ \A x \in Requests : Flying(req[x]) => OutOK(req[x], sessions)
        BY <1>5, <2>3, <2>5 DEF Kept
      <3>2. OutOK(q, sessions)
        BY <1>5, <3>1
      <3>3. t = 0 /\ NoUser(sessions, c)
        BY <1>1, <2>1, <3>1, <3>2 DEF OutOK, c, t
      <3> QED
        BY <1>4, <3>1, <3>3
    <2>6. ASSUME NEW x \in Requests, Flying(req'[x]), ~req'[x].mixed, Changing(req'[x].op)
          PROVE  ChangeOK(req'[x], sessions, browser')
      <3>1. x # r /\ x \in InFlight /\ Changing(req[x].op) /\ ~req[x].mixed
        BY <1>4, <2>6, FlyingIs
      <3> QED
        BY <1>6, <3>1 DEF ShapeInv, MixedInv
    <2>7. ASSUME NEW x \in Requests, Flying(req'[x]), ~req'[x].mixed
          PROVE  req'[x].expect = expect /\ ServedOK(req'[x], expect)
      BY <1>4, <1>5, <2>7 DEF Kept
    <2>8. Kept(req', sessions, browser', expect, now)
      BY <1>1, <1>5, <2>2, <2>4, <2>5, <2>6, <2>7 DEF Kept
    <2> QED
      BY <1>1, <2>1, <2>8 DEF KeepInv
  <1> QED
    BY <1>8, <1>9, <1>10, <1>11

LEMMA InitKept == Init => KeepInv
PROOF
  <1> SUFFICES ASSUME Init PROVE KeepInv
    OBVIOUS
  <1>1. /\ sessions = [s \in {} |-> Fresh] /\ browser.token = Given
        /\ expect.state = (IF ends = <<>> THEN "out" ELSE "any") /\ expect.until = 0
        /\ \A x \in Requests : req[x] = NoRequest("unsent")
    BY DEF Init, Given
  <1>2. NoRequest("unsent").pc = "unsent"
    BY DEF NoRequest
  <1>3. \A x \in Requests : ~Flying(req[x])
    BY <1>1, <1>2 DEF Flying
  <1>4. expect.state = "out" => browser.token = 0
    BY <1>1, InitEnds
  <1>5. \A c : NoUser(sessions, c)
    BY <1>1 DEF NoUser
  <1>6. expect.state # "in"
    BY <1>1
  <1>7. Kept(req, sessions, browser, expect, now)
    BY <1>1, <1>3, <1>4, <1>5, <1>6 DEF Kept
  <1> QED
    BY <1>7 DEF KeepInv

LEMMA NextKept == ShapeInv /\ IdInv /\ KeepInv /\ [Next]_vars => KeepInv'
PROOF
  <1> SUFFICES ASSUME ShapeInv, IdInv, KeepInv, [Next]_vars PROVE KeepInv'
    OBVIOUS
  <1>1. ASSUME NEW r \in Requests,
               NEW op \in {"login", "refresh", "logout", "status", "service"}, Send(r, op)
        PROVE  KeepInv'
    BY <1>1, SendKeepsUser
  <1>2. ASSUME NEW r \in Requests, authBegin(r) PROVE KeepInv'
    <2>1. PICK a : a.op \in {"login", "refresh"} /\ (Concludes(r, a) \/ Holds(r, a))
      BY <1>2, AuthBeginOutcome
    <2>2. Changing(a.op)
      BY <2>1 DEF Changing
    <2> QED
      BY <2>1, <2>2, ConcludesKeeps, ChangingHoldKeeps
  <1>3. ASSUME NEW r \in Requests,
               authenticate(r) \/ zssRefresh(r) \/ authenticateViaCookie(r)
        PROVE  KeepInv'
    <2>1. \E a : Concludes(r, a) \/ Breaks(r, a)
      BY <1>3, AnswerOutcome
    <2> QED
      BY <2>1, ConcludesKeeps, BreaksKeeps
  <1>4. ASSUME NEW r \in Requests, logoutBegin(r) PROVE KeepInv'
    <2>1. PICK a : Holds(r, a) /\ a.op = "logout"
      BY <1>4, LogoutBeginOutcome
    <2>2. Changing(a.op)
      BY <2>1 DEF Changing
    <2> QED
      BY <2>1, <2>2, ChangingHoldKeeps
  <1>5. ASSUME NEW r \in Requests, logoutEnd(r) PROVE KeepInv'
    BY <1>5, LogoutEndKeeps
  <1>6. ASSUME NEW r \in Requests, status(r) PROVE KeepInv'
    BY <1>6, StatusKeepsUser
  <1>7. ASSUME NEW r \in Requests, middleware(r) PROVE KeepInv'
    BY <1>7, MiddlewareKeepsUser
  <1>8. ASSUME NEW r \in Requests, restore(r) PROVE KeepInv'
    BY <1>8, RestoreKeepsUser
  <1>9. ASSUME NEW r \in Requests, authorize(r) PROVE KeepInv'
    BY <1>9, AuthorizeKeepsUser
  <1>10. ASSUME NEW r \in Requests, serve(r) PROVE KeepInv'
    BY <1>10, ServeKeepsUser
  <1>11. ASSUME NEW r \in Requests, receive(r) PROVE KeepInv'
    BY <1>11, ReceiveKeepsUser
  <1>12. CASE Tick \/ UNCHANGED vars
    <2>1. UNCHANGED <<req, sessions, browser, expect>> /\ (now' = now \/ now' = now + 1) /\ now \in Nat
      BY <1>12 DEF Tick, vars, ShapeInv
    <2>2. Kept(req, sessions, browser, expect, now)
      BY DEF KeepInv
    <2>3. ASSUME Calm(req), expect.state = "in", now' < expect.until
          PROVE  now < expect.until
      BY <2>1, <2>2, <2>3 DEF Kept
    <2>4. Kept(req, sessions, browser, expect, now')
      BY <2>2, <2>3 DEF Kept
    <2> QED
      BY <2>1, <2>4 DEF KeepInv
  <1> QED
    BY <1>1, <1>2, <1>3, <1>4, <1>5, <1>6, <1>7, <1>8, <1>9, <1>10, <1>11, <1>12 DEF Next

\* A user whose login was answered is served until the time the session was
\* given, and one whose logout succeeded is refused until the next login, as long
\* as no login, refresh or logout of the browser overlapped another request
\* (webauth.js, ssoAuth.js).
THEOREM UserIsKept == Spec => []SessionKept
PROOF
  <1>1. ShapeInv /\ KeepInv => SessionKept
    <2> SUFFICES ASSUME ShapeInv, KeepInv, NEW r \in Requests,
                        req[r].pc = "answered", req[r].op = "service", ~req[r].mixed
                 PROVE  /\ req[r].expect.state = "in" /\ req[r].at < req[r].expect.until =>
                             req[r].code \in {200, 403}
                        /\ req[r].expect.state = "out" => req[r].code = 401
      BY DEF SessionKept
    <2>1. Flying(req[r]) /\ ~Changing(req[r].op)
      BY DEF Flying, Changing
    <2>2. req[r].expect = expect /\ ServedOK(req[r], expect)
      BY <2>1 DEF KeepInv, Kept
    <2>3. Calm(req)
      BY <2>1, CalmUnmixed
    <2>4. expect.state = "out" => OutOK(req[r], sessions)
      BY <2>1, <2>3 DEF KeepInv, Kept
    <2> QED
      BY <2>2, <2>4 DEF ServedOK, OutOK
  <1>2. Spec => []KeepInv
    BY InitKept, NextKept, ShapeInvariant, IdInvariant, PTL DEF Spec
  <1> QED
    BY <1>1, <1>2, ShapeInvariant, PTL
=============================================================================
