------------------------------ MODULE WebAuth ------------------------------
(***************************************************************************)
(* Login, refresh, status, logout and the authorization of service         *)
(* requests (lib/webauth.js) with the single sign-on authenticator          *)
(* (plugins/sso-auth/lib), for one browser whose requests may overlap.      *)
(*                                                                         *)
(* Every request works on its own copy of the session: express-session      *)
(* reads it when the request arrives, and writes it when the answer is      *)
(* ready (resave: true).  The authenticator asks ZSS or the API ML gateway   *)
(* in between.  The session store is that of the worker's cluster, which    *)
(* passes copies.                                                          *)
(***************************************************************************)
EXTENDS Integers, FiniteSets

CONSTANTS Requests,   \* bound: the requests, each sent once
          MaxOverlaps, \* bound: requests sent before all others are answered
          MaxTime,    \* bound: the clock
          Lives,      \* how long a new token may live; -1: it never expires
          Timeouts,   \* sessionTimeoutMs; -1: sessions never expire
          Deployments \* [apiml, zss, ha : BOOLEAN]

ASSUME WebAuthAssumption ==
  /\ IsFiniteSet(Requests) /\ MaxTime \in Nat /\ MaxOverlaps \in Nat
  /\ Lives \subseteq Nat \cup {-1} /\ Timeouts \subseteq (Nat \ {0}) \cup {-1}
  /\ Deployments \subseteq {d \in [apiml : BOOLEAN, zss : BOOLEAN, ha : BOOLEAN] :
                              (d.apiml \/ d.zss) /\ (d.ha => d.apiml)}

VARIABLES
  conf,      \* the deployment, and sessionTimeoutMs
  now,       \* the time
  ends,      \* the tokens given out so far: when each ends
  sessions,  \* session store: by session identifier
  browser,   \* its session cookie and its token, 0 if it has none
  req,       \* the requests
  expect,    \* history: what the browser's user may rely on
  refused,   \* history: sessions refused as expired (not mixed), not renewed since
  overlaps   \* how many requests overlapped an earlier one

vars == <<conf, now, ends, sessions, browser, req, expect, refused, overlaps>>

usingSso == conf.apiml
usingZss == conf.zss
canRefresh == usingZss /\ ~usingSso
NoExpire == -1       \* TIMEOUT_VALUE_NO_EXPIRE
\* A time that is no number (now + undefined, or now + the text "-1" of ZSS's
\* header), which compares as false, or one too far away.
Never == MaxTime + MaxTime + 1
After(ms) == IF ms = NoExpire THEN Never ELSE now + ms

(***************************************************************************)
(* Sessions: zlux is zlux.expirationTime or 0, plugin the authenticator's   *)
(* own state, NoPlugin before one is stored, Emptied after a logout.        *)
(* Identifiers: a token's number in HA mode, or a fresh number.             *)
(***************************************************************************)
NoPlugin == [auth |-> FALSE, ends |-> 0, kept |-> "no"]
Emptied == [auth |-> FALSE, ends |-> 0, kept |-> "emptied"]
Plugin(auth, until) == [auth |-> auth, ends |-> until, kept |-> "yes"]
Fresh == [zlux |-> 0, plugin |-> NoPlugin]
Tokens == 1 .. Cardinality(Requests) + 1
Sids == 1 .. 2 * Cardinality(Requests) + 1
Stored == DOMAIN sessions

\* The result of the authenticator; expms is 0 when it does not know.
Result(success, expms, token) ==
  [success |-> success, expms |-> expms, token |-> token]
Failure == Result(FALSE, 0, 0)

\* handlers' state on arrival (getAuthPluginSession: {} if none is stored)
PluginOf(sess) == IF sess.plugin.kept = "yes" THEN sess.plugin ELSE NoPlugin

\* (mutant: the difference of the times taken the other way round)
getStatusSwapped(p) ==
  IF p.ends = 0 \/ now <= p.ends THEN [p EXCEPT !.auth = FALSE, !.ends = 0] ELSE p

\* SsoAuthenticator.getStatus: past its time, the state is cleaned up in place.
getStatus(p) ==
  IF p.ends = 0 \/ p.ends <= now THEN [p EXCEPT !.auth = FALSE, !.ends = 0] ELSE p

\* A state that is stored already is changed in place; one that is new is kept
\* only when the caller attaches it (setAuthPluginSession).
Attach(sess, p) == [sess EXCEPT !.plugin = [p EXCEPT !.kept = "yes"]]
InPlace(sess, p) == IF sess.plugin.kept = "yes" THEN Attach(sess, p) ELSE sess

(***************************************************************************)
(* Requests.                                                               *)
(***************************************************************************)
NoRequest(pc) ==
  [op |-> "none", pc |-> pc, cookie |-> 0, token |-> 0, sid |-> 0, sess |-> Fresh,
   was |-> FALSE, code |-> 0, result |-> Failure, newToken |-> 0, setCookie |-> FALSE,
   mixed |-> FALSE, expect |-> [state |-> "any", until |-> 0], at |-> 0, over |-> FALSE, revived |-> FALSE]
InFlight == {r \in Requests : req[r].pc \notin {"unsent", "done"}}
Changing(op) == op \in {"login", "refresh", "logout"}

Init ==
  /\ conf \in {[apiml |-> d.apiml, zss |-> d.zss, ha |-> d.ha, timeout |-> t] :
                 d \in Deployments, t \in Timeouts}
  /\ now = 1
  /\ ends \in {<<>>} \cup {<<t>> : t \in {2}}
  /\ sessions = [s \in {} |-> Fresh]
  /\ browser = [cookie |-> 0, token |-> Cardinality(DOMAIN ends)]
  /\ req = [r \in Requests |-> NoRequest("unsent")]
  /\ expect = [state |-> IF ends = <<>> THEN "out" ELSE "any", until |-> 0]
  /\ refused = {} /\ overlaps = 0

\* The browser sends; its cookies go along.  Requests are mixed when a login,
\* refresh or logout is one of those that overlap, one with another: then the
\* copies of the session that are under way may differ.
Send(r, op) ==
  LET mixed == \E x \in InFlight : Changing(op) \/ Changing(req[x].op) \/ req[x].mixed
      rq == [NoRequest("sent") EXCEPT !.op = op, !.cookie = browser.cookie,
               !.token = browser.token, !.newToken = browser.token,
               !.mixed = mixed, !.expect = expect]
  IN  /\ req[r].pc = "unsent"
      /\ InFlight # {} => overlaps < MaxOverlaps
      /\ overlaps' = overlaps + (IF InFlight = {} THEN 0 ELSE 1)
      /\ req' = [x \in Requests |->
                   IF x = r THEN rq
                   ELSE IF x \in InFlight /\ mixed THEN [req[x] EXCEPT !.mixed = TRUE]
                   ELSE req[x]]
      /\ UNCHANGED <<conf, now, ends, sessions, browser, expect, refused>>

\* express-session loads the session, or makes a new one: in HA mode named by
\* the token (generateHaSessionId).
NewSids == {s \in Sids \ Tokens : s \notin Stored /\ \A x \in Requests : req[x].sid # s}
NewSid == CHOOSE s \in NewSids : \A t \in NewSids : s <= t
GeneratedSid(token) == IF conf.ha /\ token # 0 THEN token ELSE NewSid
Loaded(rq) ==
  IF rq.cookie \in Stored
  THEN [rq EXCEPT !.sid = rq.cookie, !.sess = sessions[rq.cookie], !.at = now,
                  !.over = rq.cookie \in refused]
  ELSE [rq EXCEPT !.sid = GeneratedSid(rq.token), !.at = now]

\* At the end of the answer it saves the copy: always if the session existed,
\* otherwise if it has been modified, and then the browser gets the cookie.
Saves(rq) == rq.sid = rq.cookie \/ rq.sess # Fresh
Saved(rq) ==
  IF Saves(rq)
  THEN [s \in Stored \cup {rq.sid} |-> IF s = rq.sid THEN rq.sess ELSE sessions[s]]
  ELSE sessions
Finish(r, rq, code) ==
  /\ req' = [req EXCEPT ![r] = [rq EXCEPT !.pc = "answered", !.code = code,
                                         !.setCookie = Saves(rq) /\ rq.sid # rq.cookie]]
  /\ sessions' = Saved(rq)

Wait(r, rq, pc) ==
  /\ req' = [req EXCEPT ![r] = [rq EXCEPT !.pc = pc]]
  /\ UNCHANGED <<sessions, refused>>

(***************************************************************************)
(* Login and refresh.                                                      *)
(***************************************************************************)
\* What SsoAuthenticator.authenticate and refreshStatus make of the result.
\* With the gateway a failure ends the session; with ZSS alone a failure leaves
\* it as it is, and a refresh does not set authenticated.
Cleaned(p, result) == IF usingSso /\ ~result.success THEN [p EXCEPT !.auth = FALSE, !.ends = 0] ELSE p
Authenticated(rq, p, result) ==
  IF ~result.success THEN Cleaned(p, result)
  ELSE [p EXCEPT !.ends = After(result.expms),
                 !.auth = @ \/ ~(canRefresh /\ rq.op = "refresh")]

\* addHandlerResult and updateStatus: the default for a result without expms.
ResultExpms(result) == IF result.expms # 0 THEN result.expms ELSE conf.timeout
NewExpiration(result) == After(ResultExpms(result))

\* (mutant: the state of a new session is not attached to it)
ConcludedInPlace(rq, sess, p, result) ==
  [rq EXCEPT !.sess = [InPlace(sess, p) EXCEPT !.zlux = NewExpiration(result)],
             !.result = result,
             !.newToken = IF result.token # 0 THEN result.token ELSE @]

\* End of _authenticateOrRefresh.  The expiration time is set whatever the
\* outcome.
Concluded(rq, sess, p, result) ==
  LET attached == IF rq.was \/ result.success THEN Attach(sess, p) ELSE InPlace(sess, p) IN
  [rq EXCEPT !.sess = [attached EXCEPT !.zlux = NewExpiration(result)],
             !.result = result,
             !.newToken = IF result.token # 0 THEN result.token ELSE @]
authEnd(r, rq, sess, p, result) ==
  /\ Finish(r, Concluded(rq, sess, p, result), IF result.success THEN 200 ELSE 401)
  /\ refused' = IF result.success \/ ~usingSso THEN refused \ {rq.sid} ELSE refused

SessionExpired(sess) == conf.timeout # NoExpire /\ sess.zlux # 0 /\ sess.zlux < now

\* _authenticateOrRefresh up to its first wait
authBegin(r) ==
  LET rq0 == Loaded(req[r])
      p == getStatus(PluginOf(rq0.sess))
      rq == [rq0 EXCEPT !.was = p.auth, !.sess = InPlace(rq0.sess, p)] IN
  /\ req[r].pc = "sent" /\ req[r].op \in {"login", "refresh"}
  /\ \/ /\ rq.op = "login"
        /\ Wait(r, rq, "authenticate")
     \/ /\ rq.op = "refresh" /\ SessionExpired(rq.sess)
        /\ authEnd(r, rq, [rq.sess EXCEPT !.zlux = 0], p, Failure)
     \/ /\ rq.op = "refresh" /\ ~SessionExpired(rq.sess)
        /\ IF canRefresh
           THEN IF rq.token = 0 THEN authEnd(r, rq, rq.sess, p, Failure)
                ELSE Wait(r, rq, "zssRefresh")
           ELSE IF p.auth THEN authEnd(r, rq, rq.sess, p, Result(TRUE, p.ends - now, 0))
           ELSE IF rq.token = 0
           THEN authEnd(r, rq, rq.sess, Authenticated(rq, p, Failure), Failure)
           ELSE Wait(r, rq, "authenticateViaCookie")
  /\ UNCHANGED <<conf, overlaps, now, ends, browser, expect>>

Given == Cardinality(DOMAIN ends)
NewToken(life) == ends' = [t \in 1 .. Given + 1 |->
                             IF t <= Given THEN ends[t]
                             ELSE After(life)]
Copy(rq) == PluginOf(rq.sess)
NewPlugin(rq) == Plugin(Copy(rq).auth, Copy(rq).ends)

\* doLogin with queryToken, or ZSS's login: a new token, or none; ZSS may also
\* ask for a new password (428).
authenticate(r) ==
  LET rq == req[r]
      p == NewPlugin(rq)
      done(result) == authEnd(r, rq, rq.sess, Authenticated(rq, p, result), result) IN
  /\ rq.pc = "authenticate"
  /\ \/ \E life \in Lives :
          /\ life = NoExpire => ~usingSso
          /\ life # 0
          /\ NewToken(life)
          /\ done(Result(TRUE, life, Given + 1))
     \/ done(Failure) /\ UNCHANGED ends
     \/ /\ ~usingSso
        /\ authEnd(r, [rq EXCEPT !.newToken = 0], rq.sess, [p EXCEPT !.auth = FALSE], Failure)
        /\ UNCHANGED ends
  /\ UNCHANGED <<conf, overlaps, now, browser, expect>>

\* ZSS renews the token of a valid cookie
zssRefresh(r) ==
  LET rq == req[r]
      p == NewPlugin(rq)
      done(result) == authEnd(r, rq, rq.sess, Authenticated(rq, p, result), result) IN
  /\ rq.pc = "zssRefresh"
  /\ \/ \E life \in Lives \ {0} :
          /\ ends[rq.token] >= now
          /\ NewToken(life)
          /\ done(Result(TRUE, life, Given + 1))
     \/ done(Failure) /\ UNCHANGED ends
  /\ UNCHANGED <<conf, overlaps, now, browser, expect>>

\* queryToken: a token that is past its time leads to a login without
\* credentials, which fails; a query that fails ends in an exception, with the
\* session cleaned up but its expiration time as it was.
authenticateViaCookie(r) ==
  LET rq == req[r]
      p == NewPlugin(rq)
      out == Authenticated(rq, p, Failure)
      done(result) == authEnd(r, rq, rq.sess, Authenticated(rq, p, result), result) IN
  /\ rq.pc = "authenticateViaCookie"
  /\ \/ /\ ends[rq.token] > now
        /\ done(Result(TRUE, ends[rq.token] - now, 0))
     \/ /\ ends[rq.token] <= now
        /\ done(Failure)
     \/ /\ Finish(r, [rq EXCEPT !.sess = InPlace(@, out)], 500)
        /\ UNCHANGED refused
  /\ UNCHANGED <<conf, overlaps, now, ends, browser, expect>>

(***************************************************************************)
(* Logout, and status.                                                     *)
(***************************************************************************)
\* _doLogoutInner; without a token the gateway is not asked
logoutBegin(r) ==
  LET rq == Loaded(req[r])
      status == getStatus(PluginOf(rq.sess))
      p == IF usingSso THEN status ELSE [status EXCEPT !.auth = FALSE] IN
  /\ req[r].pc = "sent" /\ req[r].op = "logout"
  /\ Wait(r, [rq EXCEPT !.sess = InPlace(@, p)], "logout")
  /\ UNCHANGED <<conf, overlaps, now, ends, browser, expect>>

\* (mutant: the entry of the authenticator is marked, not emptied)
LoggedOutMarked(sess) == [sess EXCEPT !.zlux = 0, !.plugin.kept = "emptied"]

\* The store's entry is destroyed, then express-session saves what is left.
LoggedOut(sess) ==
  [zlux |-> 0, plugin |-> IF sess.plugin.kept = "no" THEN NoPlugin ELSE Emptied]

\* clearCookie, and the token's cookie if the logout has succeeded
logoutEnd(r) ==
  LET rq == [req[r] EXCEPT !.sess = LoggedOut(@)] IN
  /\ rq.pc = "logout"
  /\ \/ Finish(r, [rq EXCEPT !.newToken = 0], 200)
     \/ /\ usingSso => rq.token # 0
        /\ Finish(r, rq, 500)
  /\ UNCHANGED <<conf, overlaps, now, ends, browser, expect, refused>>

\* getStatus: the answer is 200 whatever the state
status(r) ==
  LET rq == Loaded(req[r]) IN
  /\ req[r].pc = "sent" /\ req[r].op = "status"
  /\ Finish(r, [rq EXCEPT !.sess = InPlace(@, getStatus(PluginOf(@)))], 200)
  /\ UNCHANGED <<conf, overlaps, now, ends, browser, expect, refused>>

(***************************************************************************)
(* Service requests (middleware).                                          *)
(***************************************************************************)
\* The service answers some time after the authorization; ZSS may refuse.
Authorized(r, rq, p) ==
  IF p.auth
  THEN Wait(r, [rq EXCEPT !.revived = rq.over /\ rq.sid \in refused], "serve")
  ELSE Finish(r, rq, 401) /\ UNCHANGED refused

\* (mutant: a session without an expiration time has not expired)
TimedOutIfSet(sess) == conf.timeout # NoExpire /\ sess.zlux # 0 /\ sess.zlux < now

TimedOut(sess) == conf.timeout # NoExpire /\ (sess.zlux = 0 \/ sess.zlux < now)

middleware(r) ==
  LET rq == Loaded(req[r])
      restorable == rq.sess = Fresh /\ conf.ha IN
  /\ req[r].pc = "sent" /\ req[r].op = "service"
  /\ \/ /\ restorable
        /\ Wait(r, rq, "restore")
     \/ /\ ~restorable /\ TimedOut(rq.sess)
        /\ Finish(r, [rq EXCEPT !.sess.zlux = 0], 401)
        /\ refused' = IF rq.sess.zlux # 0 /\ ~rq.mixed THEN refused \cup {rq.sid} ELSE refused
     \/ /\ ~restorable /\ ~TimedOut(rq.sess)
        /\ Authorized(r, rq, PluginOf(rq.sess))
  /\ UNCHANGED <<conf, overlaps, now, ends, browser, expect>>

\* restorePluginHaSession: the session is regenerated under the token's name; its
\* expiration time is the current time plus the time at which the token ends
restore(r) ==
  LET rq == req[r]
      valid == rq.token # 0 /\ ends[rq.token] > now
      restored == Attach([rq.sess EXCEPT !.zlux = Never], Plugin(valid, 0)) IN
  /\ rq.pc = "restore"
  /\ \/ /\ rq.token # 0
        /\ sessions' = [s \in Stored \ {rq.sid} |-> sessions[s]]
        /\ req' = [req EXCEPT ![r] = [rq EXCEPT !.pc = "restored", !.sess = restored,
                                               !.sid = GeneratedSid(rq.token), !.over = FALSE]]
        /\ UNCHANGED refused
     \/ LET failed == Attach(rq.sess, Plugin(FALSE, 0)) IN
        Authorized(r, [rq EXCEPT !.sess = failed], failed.plugin)
  /\ UNCHANGED <<conf, overlaps, now, ends, browser, expect>>

authorize(r) ==
  /\ req[r].pc = "restored"
  /\ Authorized(r, req[r], req[r].sess.plugin)
  /\ UNCHANGED <<conf, overlaps, now, ends, browser, expect>>

\* A session that was restored is a new one when it is saved.
serve(r) ==
  LET rq == req[r] IN
  /\ rq.pc = "serve"
  /\ \/ Finish(r, rq, 200)
     \/ usingZss /\ Finish(r, rq, 403)
  /\ refused' = IF conf.ha /\ rq.sess.zlux = Never THEN refused \ {rq.sid} ELSE refused
  /\ UNCHANGED <<conf, overlaps, now, ends, browser, expect>>

(***************************************************************************)
(* Answers, time.                                                          *)
(***************************************************************************)
\* What the user may rely on after this answer.
Expected(rq) ==
  LET until == rq.sess.zlux IN
  IF rq.mixed /\ Changing(rq.op) THEN [state |-> "any", until |-> 0]
  ELSE IF rq.op = "login" /\ rq.code = 200 THEN [state |-> "in", until |-> until]
  ELSE IF rq.op = "refresh" /\ rq.code = 200 /\ rq.was THEN [state |-> "in", until |-> until]
  ELSE IF rq.op = "logout" /\ rq.code = 200 THEN [state |-> "out", until |-> 0]
  ELSE IF Changing(rq.op) THEN [state |-> "any", until |-> 0]
  ELSE expect

\* The browser takes the cookies of the answer.
receive(r) ==
  LET rq == req[r] IN
  /\ rq.pc = "answered"
  /\ browser' = [cookie |-> IF rq.op = "logout" THEN 0
                            ELSE IF rq.setCookie THEN rq.sid ELSE browser.cookie,
                 token |-> IF rq.newToken # rq.token THEN rq.newToken ELSE browser.token]
  /\ expect' = Expected(rq)
  /\ req' = [req EXCEPT ![r] = NoRequest("done")]
  /\ UNCHANGED <<conf, overlaps, now, ends, sessions, refused>>

Tick ==
  /\ now < MaxTime
  /\ now' = now + 1
  /\ UNCHANGED <<conf, overlaps, ends, sessions, browser, req, expect, refused>>

Next ==
  \/ \E r \in Requests :
       \/ \E op \in {"login", "refresh", "logout", "status", "service"} : Send(r, op)
       \/ authBegin(r) \/ authenticate(r) \/ zssRefresh(r) \/ authenticateViaCookie(r)
       \/ logoutBegin(r) \/ logoutEnd(r) \/ status(r)
       \/ middleware(r) \/ restore(r) \/ authorize(r) \/ serve(r)
       \/ receive(r)
  \/ Tick

Spec == Init /\ [][Next]_vars

(***************************************************************************)
(* Properties.                                                             *)
(***************************************************************************)

\* Sessions have their fields, tokens and identifiers stay in their ranges, and
\* only a session that keeps a state of the authenticator is authenticated.
TypeOK ==
  /\ Stored \subseteq Sids /\ refused \subseteq Sids
  /\ \A s \in Stored :
       /\ sessions[s].zlux \in Nat
       /\ sessions[s].plugin.auth \in BOOLEAN /\ sessions[s].plugin.ends \in Nat
       /\ sessions[s].plugin.auth => sessions[s].plugin.kept = "yes"
  /\ DOMAIN ends \subseteq Tokens /\ browser.token \in DOMAIN ends \cup {0}
  /\ browser.cookie \in Sids \cup {0}

\* A user whose login was answered is served until the time the session was
\* given, and one whose logout succeeded is refused until the next login, as
\* long as no login, refresh or logout of this browser overlapped another
\* request: copies of the session are saved last come, and cookies replaced.
SessionKept ==
  \A r \in Requests :
    LET rq == req[r] IN
    rq.pc = "answered" /\ rq.op = "service" /\ ~rq.mixed =>
      /\ rq.expect.state = "in" /\ rq.at < rq.expect.until => rq.code \in {200, 403}
      /\ rq.expect.state = "out" => rq.code = 401

\* A login or a refresh that is answered with success leaves an authenticated
\* session, except a refresh by ZSS alone of a session that is not there or has
\* ended: ssoAuth.refreshStatus renews the time, not the session.
SuccessIsAuthenticated ==
  \A r \in Requests :
    LET rq == req[r] IN
    rq.pc = "answered" /\ rq.result.success =>
      \/ rq.sess.plugin.auth
      \/ canRefresh /\ rq.op = "refresh" /\ ~rq.was

\* A session refused as expired is not served again before a login or refresh
\* succeeds or it is restored from its token; with ZSS alone a failing login or
\* refresh is enough, it gives the session a new expiration time
\* (_authenticateOrRefresh) and leaves it authenticated.  This is so as long as
\* the requests under way are not mixed: a copy of a renewed session saved after
\* the refusal of an older copy brings it back.
ExpiredForGood == \A r \in Requests : ~req[r].revived
=============================================================================
