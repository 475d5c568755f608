----------------------- MODULE ConfigRequestProofs ------------------------
(***************************************************************************)
(* ConfigService for every number of requests, any names, bodies, policies *)
(* and failures: which conditional requests are accepted, what a GET       *)
(* answers, and how often a request is answered.  The first two are about  *)
(* requests that are left alone: nobody who writes to the same name comes  *)
(* in between.                                                             *)
(***************************************************************************)
EXTENDS ConfigServiceProofs

-----------------------------------------------------------------------------
(* The inductive invariant: requests that are left alone                   *)

\* Nobody who writes disturbs a request that is quiet, and its files are whole.
Undisturbed(r) ==
  /\ \A x \in Requests \ {r} : Busy(req[x]) => ~Clash(req[r], req[x])
  /\ \A s \in Scopes, n \in Names(req[r]) : InodeAt(s, percentEncode(n)) \notin torn
QuietInv == \A r \in Requests : Busy(req[r]) /\ req[r].quiet => Undisturbed(r)

-----------------------------------------------------------------------------
(* The inductive invariant: conditional requests                           *)

Opened(q) == q.pc \in {"write", "stat"} \/ (Done(q) /\ q.op = "put" /\ FirstCode(q) = 201)
Conditional(q) == q.op = "put" /\ q.quiet /\ ~q.missed /\ q.lastmod # 0
TimeAt(p) == inode[link[p]].time

\* A PUT that has opened its file has made it newer than the version it was made
\* from; one that is about to finds that version.
PutTimes ==
  \A r \in Requests : LET q == req[r] IN
    Opened(q) /\ link[PathOf(q)] # 0 => TimeAt(PathOf(q)) > q.lastmod
PutFinds ==
  \A r \in Requests : LET q == req[r] IN
    q.pc = "checked" /\ Conditional(q) => link[PathOf(q)] # 0 /\ TimeAt(PathOf(q)) = q.lastmod
PutsApart ==
  \A q, r \in Requests : LET a == req[q]
                             b == req[r] IN
    q # r /\ Opened(a) /\ Opened(b) /\ Conditional(a) /\ Conditional(b) /\ PathOf(a) = PathOf(b)
      => a.lastmod # b.lastmod
PutInv == PutTimes /\ PutFinds /\ PutsApart

\* A recursive deletion that was not refused was made from a later time of its
\* directory than that of its arrival, or from that one.
TreeInv ==
  /\ DirInv
  /\ \A r \in Requests : LET q == req[r] IN q.pc # "unsent" /\ q.op = "deleteTree" =>
       /\ q.wanted \in Nat
       /\ q.pc \in {"resolve", "start"} => q.wanted <= LatestTime(dir[q.scope])
       /\ q.pc \in {"check", "checked", "entry"} => q.lastmod = 0 \/ q.wanted <= q.lastmod
       /\ Done(q) => q.lastmod = 0 \/ q.wanted <= q.lastmod \/ FirstCode(q) = 500

-----------------------------------------------------------------------------
(* Quiet requests                                                          *)

LEMMA ClashFacts ==
  ASSUME NEW a, NEW b
  PROVE  /\ Clash(a, b) <=> Clash(b, a)
         /\ \A c : c.op = b.op /\ c.name = b.name => (Clash(a, c) <=> Clash(a, b))
         /\ (Writer(a) \/ Writer(b)) /\ Names(a) \cap Names(b) # {} => Clash(a, b)
         /\ ~OnFolder(a) => a.name \in Names(a)
  BY DEF Clash, Writer, Names, OnFolder

\* The steps of a request disturb no other as long as the files it has not
\* written keep their paths and stay whole.
LEMMA QuietKept ==
  ASSUME TypeInv, QuietInv, NEW r \in Requests, Busy(req[r]), NEW p, Moves(r, p),
         \A x \in Requests : Busy(req'[x]) /\ req[x].quiet /\ Undisturbed(x) =>
           \A s \in Scopes, n \in Names(req[x]) : InodeAt(s, percentEncode(n))' \notin torn'
  PROVE  QuietInv'
PROOF
  <1>1. \A x \in Requests : req'[x] = IF x = r THEN p ELSE req[x]
    BY DEF Moves, TypeInv, RequestsType
  <1>2. \A x \in Requests : /\ req'[x].op = req[x].op /\ req'[x].name = req[x].name
                            /\ req'[x].quiet = req[x].quiet /\ (Busy(req'[x]) => Busy(req[x]))
    BY <1>1 DEF Moves, Same
  <1>3. \A x \in Requests : Names(req'[x]) = Names(req[x])
    BY <1>2 DEF Names, OnFolder
  <1>4. \A x, y \in Requests : Clash(req'[x], req'[y]) <=> Clash(req[x], req[y])
    BY <1>2, <1>3 DEF Clash, Writer
  <1> SUFFICES ASSUME NEW x \in Requests, Busy(req'[x]), req'[x].quiet
               PROVE  /\ \A y \in Requests \ {x} : Busy(req'[y]) => ~Clash(req'[x], req'[y])
                      /\ \A s \in Scopes, n \in Names(req'[x]) : InodeAt(s, percentEncode(n))' \notin torn'
    BY DEF QuietInv, Undisturbed
  <1>5. Undisturbed(x) /\ req[x].quiet
    BY <1>2 DEF QuietInv
  <1>6. \A y \in Requests \ {x} : Busy(req'[y]) => ~Clash(req'[x], req'[y])
    BY <1>2, <1>4, <1>5 DEF Undisturbed
  <1>7. \A s \in Scopes, n \in Names(req'[x]) : InodeAt(s, percentEncode(n))' \notin torn'
    BY <1>3, <1>5
  <1> QED
    BY <1>6, <1>7

LEMMA SendQuiet ==
  ASSUME TypeInv, QuietInv, NEW r \in Requests, Send(r)
  PROVE  QuietInv'
PROOF
  <1>1. PICK p : /\ Arrived(p)
                 /\ req' = [x \in Requests |->
                      IF x = r THEN p
                      ELSE IF Busy(req[x]) /\ Clash(req[x], p) THEN Disturbed(req[x]) ELSE req[x]]
    BY SendFacts
  <1>2. UNCHANGED <<link, torn>> /\ req[r].pc = "unsent"
    BY SendFacts DEF ReadOnly
  <1>3. \A x \in Requests \ {r} :
          /\ Busy(req'[x]) <=> Busy(req[x])
          /\ Busy(req[x]) => /\ req'[x].op = req[x].op /\ req'[x].name = req[x].name
                             /\ req'[x].quiet => req[x].quiet /\ ~Clash(req[x], p)
    <2> SUFFICES ASSUME NEW x \in Requests \ {r}
                 PROVE  /\ Busy(req'[x]) <=> Busy(req[x])
                        /\ Busy(req[x]) => /\ req'[x].op = req[x].op /\ req'[x].name = req[x].name
                                           /\ req'[x].quiet => req[x].quiet /\ ~Clash(req[x], p)
      OBVIOUS
    <2>1. CASE Busy(req[x]) /\ Clash(req[x], p) /\ req'[x] = Disturbed(req[x])
      <3>1. LET d == Disturbed(req[x]) IN
            d.pc = req[x].pc /\ d.op = req[x].op /\ d.name = req[x].name /\ d.quiet = FALSE
        BY <2>1, Sent, DisturbedFacts
      <3> QED
        BY <2>1, <3>1 DEF Busy
    <2>2. CASE ~(Busy(req[x]) /\ Clash(req[x], p)) /\ req'[x] = req[x]
      BY <2>2
    <2> QED
      BY <1>1, <2>1, <2>2
  <1>4. req'[r] = p
    BY <1>1
  <1>5. ASSUME NEW x \in Requests, Busy(req'[x]), req'[x].quiet, x # r PROVE Undisturbed(x)'
    <2>1. Undisturbed(x) /\ ~Clash(req[x], p) /\ req'[x].op = req[x].op /\ req'[x].name = req[x].name
      BY <1>3, <1>5 DEF QuietInv
    <2>2. Names(req'[x]) = Names(req[x]) /\ (Writer(req'[x]) <=> Writer(req[x]))
      BY <2>1 DEF Names, OnFolder, Writer
    <2>3. \A s \in Scopes, n \in Names(req'[x]) : InodeAt(s, percentEncode(n))' \notin torn'
      BY <1>2, <2>1, <2>2 DEF Undisturbed, InodeAt
    <2>4. ~Clash(req'[x], req'[r])
      BY <1>4, <2>1, <2>2 DEF Clash
    <2>5. ASSUME NEW y \in Requests \ {x}, y # r, Busy(req'[y]) PROVE ~Clash(req'[x], req'[y])
      <3>1. Busy(req[y]) /\ req'[y].op = req[y].op /\ req'[y].name = req[y].name /\ ~Clash(req[x], req[y])
        BY <1>3, <2>1, <2>5 DEF Undisturbed
      <3>2. Names(req'[y]) = Names(req[y]) /\ (Writer(req'[y]) <=> Writer(req[y]))
        BY <3>1 DEF Names, OnFolder, Writer
      <3> QED
        BY <2>2, <3>1, <3>2 DEF Clash
    <2> QED
      BY <2>3, <2>4, <2>5 DEF Undisturbed
  <1>6. ASSUME p.quiet PROVE Undisturbed(r)'
    <2>1. /\ \A y \in Requests : Busy(req[y]) => ~Clash(req[y], p)
          /\ \A s \in Scopes, n \in Names(p) : InodeAt(s, percentEncode(n)) \notin torn
      BY <1>1, <1>6 DEF Arrived
    <2>2. ASSUME NEW y \in Requests \ {r}, Busy(req'[y]) PROVE ~Clash(p, req'[y])
      <3>1. Busy(req[y]) /\ req'[y].op = req[y].op /\ req'[y].name = req[y].name /\ ~Clash(req[y], p)
        BY <1>3, <2>1, <2>2
      <3>2. Names(req'[y]) = Names(req[y]) /\ (Writer(req'[y]) <=> Writer(req[y]))
        BY <3>1 DEF Names, OnFolder, Writer
      <3> QED
        BY <3>1, <3>2 DEF Clash
    <2> QED
      BY <1>2, <1>4, <2>1, <2>2 DEF Undisturbed, InodeAt
  <1> QED
    BY <1>4, <1>5, <1>6 DEF QuietInv

\* Of the files a quiet request names none is opened or written by another.
LEMMA NotDisturbed ==
  ASSUME TypeInv, NEW x \in Requests, Undisturbed(x), NEW y \in Requests, y # x, Busy(req[y]),
         Writer(req[y]), NEW n \in Names(req[x]), NEW m \in Names(req[y])
  PROVE  m # n
PROOF
  <1> SUFFICES ASSUME m = n PROVE FALSE
    OBVIOUS
  <1>1. Clash(req[x], req[y])
    BY DEF Clash
  <1> QED
    BY <1>1 DEF Undisturbed

LEMMA PathNames ==
  ASSUME NEW q, IsRequest(q)
  PROVE  /\ \A s \in Scopes, n \in Names(q) : n \in ItemNames /\ getPathForScope(s, percentEncode(n)) \in Paths
         /\ q.op \in {"put", "delete"} => Names(q) = {q.name} /\ Writer(q)
  BY DEF Names, IsRequest, Paths, FileNames, getPathForScope, OnFolder, Writer

LEMMA OpenQuiet ==
  ASSUME TypeInv, WholeInv, QuietInv, NEW r \in Requests, Busy(req[r]), Opens(r)
  PROVE  QuietInv'
PROOF
  <1> DEFINE q == req[r]
             path == PathOf(q)
             i == link[path]
             fd == IF i = 0 THEN Len(inode) + 1 ELSE i
  <1>1. /\ q.op = "put" /\ q.pc = "checked"
        /\ \A p \in Paths : link'[p] = IF p = path THEN fd ELSE link[p]
    BY DEF Opens
  <1>2. \/ (\E x \in Requests : Writing(req[x]) /\ req[x].fd = fd) /\ torn' = torn \cup {fd}
        \/ ~(\E x \in Requests : Writing(req[x]) /\ req[x].fd = fd) /\ torn' = torn \ {fd}
    BY DEF Opens
  <1>3. PICK p : Moves(r, p)
    BY DEF Opens
  <1>4. DOMAIN inode = 1 .. Len(inode) /\ Len(inode) \in Nat /\ \A u \in Paths : link[u] \in 0 .. Len(inode)
    BY FilesFacts DEF TypeInv, FilesType
  <1>5. IsRequest(q) /\ path \in Paths /\ path = getPathForScope(q.scope, percentEncode(q.name)) /\ q.scope \in Scopes
    BY Sent, PathFacts
  <1>6. fd # 0 /\ \A u \in Paths : link[u] = fd => u = path
    <2>1. CASE i = 0
      BY <1>4, <2>1
    <2>2. CASE i # 0
      BY <1>5, <2>2 DEF WholeInv, LinksApart
    <2> QED
      BY <2>1, <2>2
  <1>7. Names(q) = {q.name} /\ Writer(q)
    BY <1>1, <1>5, PathNames
  \* Another writer of the same file is a clash.
  <1>8. ASSUME Undisturbed(r) PROVE ~(\E x \in Requests : Writing(req[x]) /\ req[x].fd = fd)
    <2> SUFFICES ASSUME NEW x \in Requests, Writing(req[x]), req[x].fd = fd PROVE FALSE
      OBVIOUS
    <2>1. /\ fd \in DOMAIN inode /\ \A u \in Paths : link[u] = fd => u = PathOf(req[x])
      BY DEF WholeInv, WriterInv
    <2>2. i # 0 /\ path = PathOf(req[x])
      BY <1>4, <1>5, <2>1
    <2>3. Busy(req[x]) /\ x # r
      BY <1>1 DEF Writing, Busy
    <2>4. IsRequest(req[x]) /\ req[x].op = "put"
      BY <2>3, Sent DEF IsRequest, Stage, Writing
    <2>5. Names(req[x]) = {req[x].name} /\ Writer(req[x])
      BY <2>4, PathNames
    <2>6. req[x].name = q.name
      BY <1>5, <2>2, <2>4, PathFacts, SamePath DEF IsRequest
    <2> QED
      BY <1>7, <1>8, <2>3, <2>5, <2>6, NotDisturbed
  <1>9. ASSUME NEW x \in Requests, Busy(req'[x]), Undisturbed(x), NEW s \in Scopes, NEW n \in Names(req[x])
        PROVE  InodeAt(s, percentEncode(n))' \notin torn'
    <2> DEFINE u == getPathForScope(s, percentEncode(n))
    <2>1. Busy(req[x])
      <3>1. \A y \in Requests : req'[y] = IF y = r THEN p ELSE req[y]
        BY <1>3 DEF Moves, TypeInv, RequestsType
      <3> QED
        BY <1>9, <3>1
    <2>2. u \in Paths /\ n \in ItemNames
      BY <2>1, Sent, PathNames
    <2>3. link[u] \notin torn /\ InodeAt(s, percentEncode(n))' = link'[u]
      BY <1>9 DEF Undisturbed, InodeAt
    <2>4. CASE u # path
      <3>1. link'[u] = link[u] /\ link[u] # fd
        BY <1>1, <1>6, <2>2, <2>4
      <3> QED
        BY <1>2, <2>3, <3>1
    <2>5. CASE u = path
      <3>1. n = q.name
        BY <1>5, <2>2, <2>5, SamePath DEF IsRequest
      <3>2. x = r
        BY <1>7, <1>9, <3>1, NotDisturbed
      <3> QED
        BY <1>1, <1>2, <1>8, <1>9, <2>2, <2>3, <2>5, <3>2
    <2> QED
      BY <2>4, <2>5
  <1> HIDE DEF fd, i, path, q
  <1> QED
    BY <1>3, <1>9, QuietKept

LEMMA WriteQuiet ==
  ASSUME TypeInv, WholeInv, QuietInv, NEW r \in Requests, Busy(req[r]), writeCallback(r)
  PROVE  QuietInv'
PROOF
  <1> DEFINE q == req[r]
             path == PathOf(q)
             fd == q.fd
  <1>1. q.op = "put" /\ q.pc = "write" /\ fd \in DOMAIN inode /\ UNCHANGED link
    BY writeCallbackCases
  <1>2. torn' = torn \/ (torn' = torn \cup {fd} /\ ~Busy(req'[r]))
    <2>1. CASE UNCHANGED <<faults, torn>>
      BY <2>1
    <2>2. CASE torn' = torn \cup {fd} /\ Set(r, Answer(q, 500, NoData))
      <3> DEFINE n == 500
      <3>1. req'[r] = Answer(q, n, NoData)
        BY <2>2 DEF Set, TypeInv, RequestsType
      <3>2. IsRequest(q) /\ q.gone = 0
        BY <1>1, Sent, GoneFacts
      <3> HIDE DEF n
      <3>3. LET p == Answer(q, n, NoData) IN p.pc = "done"
        BY <3>2, AnswerFacts
      <3> QED
        BY <2>2, <3>1, <3>3 DEF Busy
    <2> QED
      BY <2>1, <2>2, writeCallbackCases
  <1>3. PICK p : Moves(r, p)
    BY writeCallbackMoves
  <1>4. IsRequest(q) /\ path \in Paths /\ path = getPathForScope(q.scope, percentEncode(q.name)) /\ q.scope \in Scopes
    BY Sent, PathFacts
  <1>5. \A u \in Paths : link[u] = fd => u = path
    BY <1>1 DEF WholeInv, WriterInv, Writing
  <1>6. Names(q) = {q.name} /\ Writer(q)
    BY <1>1, <1>4, PathNames
  <1>7. ASSUME NEW x \in Requests, Busy(req'[x]), Undisturbed(x), NEW s \in Scopes, NEW n \in Names(req[x])
        PROVE  InodeAt(s, percentEncode(n))' \notin torn'
    <2> DEFINE u == getPathForScope(s, percentEncode(n))
    <2>1. Busy(req[x])
      <3>1. \A y \in Requests : req'[y] = IF y = r THEN p ELSE req[y]
        BY <1>3 DEF Moves, TypeInv, RequestsType
      <3> QED
        BY <1>7, <3>1
    <2>2. u \in Paths /\ n \in ItemNames
      BY <2>1, Sent, PathNames
    <2>3. link[u] \notin torn /\ InodeAt(s, percentEncode(n))' = link[u]
      BY <1>1, <1>7 DEF Undisturbed, InodeAt
    <2>4. link[u] # fd \/ x = r
      <3> SUFFICES ASSUME link[u] = fd, x # r PROVE FALSE
        OBVIOUS
      <3>1. n = q.name
        BY <1>4, <1>5, <2>2, SamePath DEF IsRequest
      <3> QED
        BY <1>6, <1>7, <3>1, NotDisturbed
    <2> QED
      BY <1>2, <1>7, <2>3, <2>4
  <1> HIDE DEF fd, path, q
  <1> QED
    BY <1>3, <1>7, QuietKept

LEMMA StepQuiet ==
  ASSUME TypeInv, WholeInv, QuietInv, [Next]_vars
  PROVE  QuietInv'
PROOF
  <1>1. CASE UNCHANGED vars
    BY <1>1 DEF vars, QuietInv, Undisturbed, InodeAt
  <1>2. CASE Next
    <2>1. PICK r \in Requests :
           \/ Send(r)
           \/ /\ Busy(req[r])
              /\ \/ determineResource(r) \/ Reads(r)
                 \/ restCheckModifiedTimestamp(r) \/ openForWriting(r) \/ writeCallback(r) \/ putDone(r)
                 \/ checkResourceModifiedTimestamp(r) \/ Deletes(r)
      BY <1>2, Steps
    <2>2. CASE Send(r)
      BY <2>2, SendQuiet
    <2>3. ASSUME Busy(req[r]), NEW p, Moves(r, p), UNCHANGED <<link, torn>>
          PROVE  QuietInv'
      <3>1. \A x \in Requests : Busy(req'[x]) /\ req[x].quiet /\ Undisturbed(x) =>
              \A s \in Scopes, n \in Names(req[x]) : InodeAt(s, percentEncode(n))' \notin torn'
        BY <2>3 DEF Undisturbed, InodeAt
      <3> QED
        BY <2>3, <3>1, QuietKept
    <2>4. CASE Busy(req[r]) /\ determineResource(r)
      <3> DEFINE p == [req[r] EXCEPT !.pc = "start"]
      <3>1. Moves(r, p) /\ UNCHANGED <<link, torn>>
        BY <2>4, determineResourceMoves
      <3> HIDE DEF p
      <3> QED
        BY <2>3, <2>4, <3>1
    <2>5. CASE Busy(req[r]) /\ Reads(r)
      BY <2>3, <2>5 DEF Reads, ReadOnly
    <2>6. CASE Busy(req[r]) /\ restCheckModifiedTimestamp(r)
      BY <2>3, <2>6, restCheckMoves DEF restCheckModifiedTimestamp, ReadOnly
    <2>7. CASE Busy(req[r]) /\ putDone(r)
      BY <2>3, <2>7, putDoneMoves DEF putDone, ReadOnly
    <2>8. CASE Busy(req[r]) /\ checkResourceModifiedTimestamp(r)
      BY <2>3, <2>8, checkResourceMoves, ZenonT(60) DEF checkResourceModifiedTimestamp, ReadOnly
    <2>9. CASE Busy(req[r]) /\ Deletes(r)
      <3>1. PICK p : Moves(r, p)
        BY <2>9 DEF Deletes
      <3>2. UNCHANGED <<policy, inode, faults, torn>> /\ IsRequest(req[r])
        BY <2>9, Sent DEF Deletes
      <3>3. CASE KeepFiles
        BY <2>3, <2>9, <3>1, <3>2, <3>3 DEF KeepFiles
      <3>4. ASSUME NEW f \in {percentEncode(n) : n \in Names(req[r])}, Unlink(req[r].scope, f) PROVE QuietInv'
        <4> DEFINE path == getPathForScope(req[r].scope, f)
        <4>1. link' = [link EXCEPT ![path] = 0]
          BY <3>4 DEF Unlink
        <4>2. 0 \notin torn' /\ link \in [Paths -> 0 .. Len(inode)]
          BY <3>2, FilesFacts DEF TypeInv, FilesType
        <4>3. \A u \in Paths : link'[u] = 0 \/ link'[u] = link[u]
          BY <4>1, <4>2
        <4>4. \A x \in Requests : Busy(req'[x]) /\ req[x].quiet /\ Undisturbed(x) =>
                \A s \in Scopes, n \in Names(req[x]) : InodeAt(s, percentEncode(n))' \notin torn'
          <5> SUFFICES ASSUME NEW x \in Requests, Busy(req'[x]), Undisturbed(x), NEW s \in Scopes, NEW n \in Names(req[x])
                       PROVE  InodeAt(s, percentEncode(n))' \notin torn'
            OBVIOUS
          <5>1. Busy(req[x])
            <6>1. \A y \in Requests : req'[y] = IF y = r THEN p ELSE req[y]
              BY <3>1 DEF Moves, TypeInv, RequestsType
            <6> QED
              BY <2>9, <6>1
          <5>2. getPathForScope(s, percentEncode(n)) \in Paths
            BY <5>1, Sent, PathNames
          <5>3. link[getPathForScope(s, percentEncode(n))] \notin torn'
            BY <3>2 DEF Undisturbed, InodeAt
          <5> QED
            BY <4>2, <4>3, <5>2, <5>3 DEF InodeAt
        <4> QED
          BY <2>9, <3>1, <4>4, QuietKept
      <3> QED
        BY <2>9, <3>3, <3>4 DEF Deletes
    <2>10. CASE Busy(req[r]) /\ openForWriting(r)
      BY <2>10, openForWritingOpens, OpenQuiet
    <2>11. CASE Busy(req[r]) /\ writeCallback(r)
      BY <2>11, WriteQuiet
    <2> QED
      BY <2>1, <2>2, <2>4, <2>5, <2>6, <2>7, <2>8, <2>9, <2>10, <2>11
  <1> QED
    BY <1>1, <1>2

\* A step leaves a path alone, or it is that of a writer of its name, and the
\* file there is then newer than all others.
LeftAlone(u) == link'[u] = link[u] /\ (link[u] # 0 => inode'[link[u]] = inode[link[u]])
Renewed(r, u) ==
  /\ Writer(req[r])
  /\ \E m \in Names(req[r]) : u = getPathForScope(req[r].scope, percentEncode(m))
  /\ link'[u] # 0 => inode'[link'[u]].time = clock + 1
PathStep(r) == \A u \in Paths : LeftAlone(u) \/ Renewed(r, u)

Works(r) ==
  /\ Busy(req[r])
  /\ \/ determineResource(r) \/ Reads(r)
     \/ restCheckModifiedTimestamp(r) \/ openForWriting(r) \/ writeCallback(r) \/ putDone(r)
     \/ checkResourceModifiedTimestamp(r) \/ Deletes(r)

LEMMA WorksPaths ==
  ASSUME TypeInv, WholeInv, NEW r \in Requests, Works(r)
  PROVE  PathStep(r)
PROOF
  <1> DEFINE q == req[r]
             path == PathOf(q)
  <1>1. Busy(q) /\ IsRequest(q) /\ DOMAIN inode = 1 .. Len(inode) /\ Len(inode) \in Nat
        /\ \A u \in Paths : link[u] \in 0 .. Len(inode)
    BY Sent, FilesFacts DEF Works, TypeInv, FilesType
  <1>2. path \in Paths /\ path = getPathForScope(q.scope, percentEncode(q.name)) /\ q.scope \in Scopes
    BY <1>1, PathFacts
  <1>3. CASE UNCHANGED <<link, inode>>
    BY <1>3 DEF PathStep, LeftAlone
  <1>4. CASE openForWriting(r)
    <2> DEFINE i == link[path]
               fd == IF i = 0 THEN Len(inode) + 1 ELSE i
    <2>1. /\ q.op = "put" /\ (i = 0 => fd \notin DOMAIN inode)
          /\ \A k \in DOMAIN inode : k # fd => inode'[k] = inode[k]
          /\ inode'[fd].time = clock + 1
          /\ \A p \in Paths : link'[p] = IF p = path THEN fd ELSE link[p]
      BY <1>1, <1>4, openForWritingOpens DEF Opens
    <2>2. Names(q) = {q.name} /\ Writer(q)
      BY <1>1, <2>1, PathNames
    <2>3. \A u \in Paths : link[u] = fd => u = path
      <3>1. CASE i = 0
        BY <1>1, <3>1
      <3>2. CASE i # 0
        BY <1>2, <3>2 DEF WholeInv, LinksApart
      <3> QED
        BY <3>1, <3>2
    <2> HIDE DEF fd, i, path
    <2>4. ASSUME NEW u \in Paths, u # path PROVE LeftAlone(u)
      BY <1>1, <2>1, <2>3, <2>4 DEF LeftAlone
    <2>5. Renewed(r, path)
      BY <1>2, <2>1, <2>2 DEF Renewed
    <2> QED
      BY <2>4, <2>5 DEF PathStep
  <1>5. CASE writeCallback(r)
    <2> DEFINE fd == q.fd
    <2>1. q.op = "put" /\ Writing(q) /\ fd \in DOMAIN inode /\ link' = link /\ clock' = clock + 1
      BY <1>1, <1>5, writeCallbackCases DEF Writing
    <2>2. PICK text \in Texts : inode' = [inode EXCEPT ![fd] = Touched(fd, text)]
      BY <1>1, <1>5, writeCallbackCases
    <2>3. inode'[fd].time = clock' /\ \A k \in DOMAIN inode : k # fd => inode'[k] = inode[k]
      BY <2>1, <2>2, RewriteType
    <2>4. \A u \in Paths : link[u] = fd => u = path
      BY <2>1 DEF WholeInv, WriterInv
    <2>5. Names(q) = {q.name} /\ Writer(q)
      BY <1>1, <2>1, PathNames
    <2> HIDE DEF fd, path
    <2>6. ASSUME NEW u \in Paths, link[u] # fd PROVE LeftAlone(u)
      BY <1>1, <2>1, <2>3, <2>6 DEF LeftAlone
    <2>7. ASSUME NEW u \in Paths, link[u] = fd PROVE Renewed(r, u)
      BY <1>2, <2>1, <2>3, <2>4, <2>5, <2>7 DEF Renewed
    <2> QED
      BY <2>6, <2>7 DEF PathStep
  <1>6. CASE Deletes(r)
    <2>1. inode' = inode /\ q.op \in {"delete", "deleteFolder", "deleteTree"}
      BY <1>6 DEF Deletes
    <2>2. CASE KeepFiles
      BY <1>3, <2>1, <2>2 DEF KeepFiles
    <2>3. ASSUME NEW m \in Names(q), Unlink(q.scope, percentEncode(m)) PROVE PathStep(r)
      <3> DEFINE v == getPathForScope(q.scope, percentEncode(m))
      <3>1. v \in Paths
        BY <1>1, <1>2, PathNames
      <3>2. \A u \in Paths : link'[u] = IF u = v THEN 0 ELSE link[u]
        BY <2>3, <3>1 DEF Unlink, TypeInv, FilesType
      <3>3. Writer(q)
        BY <2>1 DEF Writer
      <3> QED
        BY <2>1, <3>2, <3>3 DEF PathStep, LeftAlone, Renewed
    <2> QED
      BY <1>6, <2>2, <2>3 DEF Deletes
  <1>7. CASE determineResource(r)
    BY <1>1, <1>3, <1>7, determineResourceMoves
  <1>8. CASE Reads(r) \/ restCheckModifiedTimestamp(r) \/ putDone(r) \/ checkResourceModifiedTimestamp(r)
    BY <1>3, <1>8 DEF Reads, restCheckModifiedTimestamp, putDone, checkResourceModifiedTimestamp, ReadOnly
  <1> QED
    BY <1>4, <1>5, <1>6, <1>7, <1>8 DEF Works

\* Who is left alone finds its files as they were.
LEMMA FilesKept ==
  ASSUME TypeInv, NEW r \in Requests, Busy(req[r]), PathStep(r),
         NEW x \in Requests, x # r, Busy(req[x]), Undisturbed(x),
         NEW s \in Scopes, NEW n \in Names(req[x])
  PROVE  LeftAlone(getPathForScope(s, percentEncode(n)))
PROOF
  <1> DEFINE u == getPathForScope(s, percentEncode(n))
  <1>1. u \in Paths /\ n \in ItemNames /\ req[r].scope \in Scopes /\ Names(req[r]) \subseteq ItemNames
    BY Sent, PathNames DEF IsRequest
  <1> SUFFICES ASSUME Renewed(r, u) PROVE FALSE
    BY <1>1 DEF PathStep
  <1>2. PICK m \in Names(req[r]) : u = getPathForScope(req[r].scope, percentEncode(m))
    BY DEF Renewed
  <1>3. m = n
    BY <1>1, <1>2, SamePath
  <1> QED
    BY <1>3, NotDisturbed DEF Renewed

-----------------------------------------------------------------------------
(* Conditional PUTs                                                        *)

\* What a step makes of a PUT.
LEMMA PutSteps ==
  ASSUME TypeInv, NEW r \in Requests, Works(r)
  PROVE  LET q == req[r]
             path == PathOf(q) IN
         \E p : /\ Moves(r, p)
                /\ Opened(p) => \/ Opened(q) /\ (Conditional(p) => Conditional(q))
                                \/ openForWriting(r) /\ p.missed = q.missed
                /\ p.pc = "checked" /\ Conditional(p) =>
                     link[path] # 0 /\ TimeAt(path) = q.lastmod /\ UNCHANGED <<link, inode>>
PROOF
  <1> DEFINE q == req[r]
             path == PathOf(q)
             Good(p) == /\ Opened(p) => \/ Opened(q) /\ (Conditional(p) => Conditional(q))
                                        \/ openForWriting(r) /\ p.missed = q.missed
                        /\ p.pc = "checked" /\ Conditional(p) =>
                             link[path] # 0 /\ TimeAt(path) = q.lastmod /\ UNCHANGED <<link, inode>>
  <1>1. Busy(q) /\ IsRequest(q)
    BY Sent DEF Works
  <1>2. ASSUME NEW p, Moves(r, p), q.op # "put" PROVE Good(p)
    <2>1. p.op # "put" /\ IsRequest(p)
      BY <1>2 DEF Moves, Same
    <2> QED
      BY <2>1 DEF Opened, Conditional, IsRequest, Stage
  <1>3. ASSUME NEW p, Moves(r, p), p.pc \in {"stat", "done"}, q.pc \in {"write", "stat"}, p.missed = q.missed
        PROVE  Good(p)
    BY <1>3 DEF Moves, Same, Opened, Conditional
  <1>4. ASSUME NEW p, p.pc = "done", FirstCode(p) = 500 PROVE Good(p)
    BY <1>4 DEF Opened
  <1>5. CASE determineResource(r)
    <2> DEFINE p == [q EXCEPT !.pc = "start"]
    <2>1. Moves(r, p)
      BY <1>1, <1>5, determineResourceMoves
    <2>2. p.pc = "start"
      BY <1>1, Sent DEF Fields
    <2> HIDE DEF p, q
    <2>3. Good(p)
      BY <2>2 DEF Opened, Done
    <2> HIDE DEF Good
    <2> QED
      BY <2>1, <2>3 DEF q, Good
  <1>6. CASE Reads(r) \/ Deletes(r) \/ checkResourceModifiedTimestamp(r)
    <2>1. q.op # "put"
      BY <1>6 DEF Reads, Deletes, checkResourceModifiedTimestamp, Writer
    <2>2. \E p : Moves(r, p)
      BY <1>1, <1>6, checkResourceMoves DEF Reads, Deletes
    <2> HIDE DEF Good
    <2> QED
      BY <1>2, <2>1, <2>2 DEF Good
  <1>7. CASE restCheckModifiedTimestamp(r)
    <2> DEFINE i == InodeAt(q.scope, percentEncode(q.name))
    <2>1. PICK p : /\ Moves(r, p)
                   /\ \/ /\ p.pc = "checked"
                         /\ q.lastmod = 0 \/ p.missed \/ (i # 0 /\ inode[i].time = q.lastmod)
                      \/ p.pc = "done" /\ FirstCode(p) = 500 /\ ~p.thrown
      BY <1>1, <1>7, restCheckMoves
    <2>2. i = link[path] /\ UNCHANGED <<link, inode>> /\ p.lastmod = q.lastmod
      BY <1>7, <2>1 DEF restCheckModifiedTimestamp, ReadOnly, InodeAt, PathOf, Moves, Same
    <2> HIDE DEF i, path
    <2>3. CASE p.pc = "checked" /\ (q.lastmod = 0 \/ p.missed \/ (i # 0 /\ inode[i].time = q.lastmod))
      <3>1. ~Opened(p)
        BY <2>3 DEF Opened, Done
      <3>2. Conditional(p) => link[path] # 0 /\ TimeAt(path) = q.lastmod
        BY <2>2, <2>3 DEF Conditional, TimeAt
      <3>3. Good(p)
        BY <2>2, <3>1, <3>2
      <3> HIDE DEF Good
      <3> QED
        BY <2>1, <3>3 DEF Good, path
    <2>4. CASE p.pc = "done" /\ FirstCode(p) = 500
      <3>1. Good(p)
        BY <1>4, <2>4
      <3> HIDE DEF Good
      <3> QED
        BY <2>1, <3>1 DEF Good, path
    <2> QED
      BY <2>1, <2>3, <2>4
  <1>8. CASE openForWriting(r)
    <2>1. PICK p : Moves(r, p) /\ p.pc = "write" /\ p.missed = q.missed
      BY <1>1, <1>8, openForWritingMoves
    <2>2. Good(p)
      BY <1>8, <2>1
    <2> HIDE DEF Good
    <2> QED
      BY <2>1, <2>2 DEF Good
  <1>9. CASE writeCallback(r)
    <2>1. PICK p : /\ Moves(r, p)
                   /\ \/ p.pc = "stat" /\ p.missed = q.missed
                      \/ p.pc = "done" /\ FirstCode(p) = 500
      BY <1>1, <1>9, writeCallbackMoves
    <2>2. q.pc = "write"
      BY <1>9 DEF writeCallback
    <2>3. Good(p)
      BY <1>3, <1>4, <2>1, <2>2
    <2> HIDE DEF Good
    <2> QED
      BY <2>1, <2>3 DEF Good
  <1>10. CASE putDone(r)
    <2>1. PICK p : Moves(r, p) /\ p.pc = "done" /\ p.missed = q.missed
      BY <1>1, <1>10, putDoneMoves
    <2>2. q.pc = "stat"
      BY <1>10 DEF putDone
    <2>3. Good(p)
      BY <1>3, <2>1, <2>2
    <2> HIDE DEF Good
    <2> QED
      BY <2>1, <2>3 DEF Good
  <1> HIDE DEF Good
  <1> QED
    BY <1>5, <1>6, <1>7, <1>8, <1>9, <1>10 DEF Good, Works

NewTime(u) == inode'[link'[u]].time

LEMMA WorksPut ==
  ASSUME TypeInv, WholeInv, QuietInv, PutInv, NEW r \in Requests, Works(r)
  PROVE  PutInv'
PROOF
  <1> DEFINE q == req[r]
             path == PathOf(q)
  <1>1. Busy(q) /\ IsRequest(q) /\ clock \in Nat
    BY Sent, FilesFacts DEF Works
  <1>2. PICK p : /\ Moves(r, p)
                 /\ Opened(p) => \/ Opened(q) /\ (Conditional(p) => Conditional(q))
                                 \/ openForWriting(r) /\ p.missed = q.missed
                 /\ p.pc = "checked" /\ Conditional(p) =>
                      link[path] # 0 /\ TimeAt(path) = q.lastmod /\ UNCHANGED <<link, inode>>
    BY PutSteps
  <1>3. \A x \in Requests : req'[x] = IF x = r THEN p ELSE req[x]
    BY <1>2 DEF Moves, TypeInv, RequestsType
  <1>4. PathOf(p) = path /\ p.lastmod = q.lastmod /\ p.op = q.op /\ p.quiet = q.quiet /\ IsRequest(p)
    BY <1>2 DEF Moves, Same, PathOf
  <1>5. PathStep(r) /\ path \in Paths
    BY <1>1, WorksPaths, PathFacts
  \* Files only become newer.
  <1>6. ASSUME NEW u \in Paths, link'[u] # 0
        PROVE  (link[u] # 0 /\ NewTime(u) = TimeAt(u)) \/ NewTime(u) = clock + 1
    BY <1>5, <1>6 DEF PathStep, LeftAlone, Renewed, TimeAt, NewTime
  <1>7. \A x \in Requests : req[x].pc # "unsent" => req[x].lastmod \in Nat /\ req[x].lastmod <= clock /\ IsRequest(req[x])
    BY DEF TypeInv, RequestsType, IsRequest
  <1>8. ASSUME openForWriting(r)
        PROVE  q.pc = "checked" /\ link'[path] # 0 /\ NewTime(path) = clock + 1
    <2> DEFINE fd == IF link[path] = 0 THEN Len(inode) + 1 ELSE link[path]
    <2>1. q.pc = "checked" /\ inode'[fd].time = clock + 1 /\ link'[path] = fd
      BY <1>1, <1>5, <1>8, openForWritingOpens DEF Opens
    <2>2. fd # 0
      BY FilesFacts
    <2> HIDE DEF fd, path
    <2> QED
      BY <2>1, <2>2 DEF NewTime
  <1> HIDE DEF path, q
  <1>9. PutTimes'
    <2> SUFFICES ASSUME NEW x \in Requests, Opened(req'[x]), link'[PathOf(req'[x])] # 0
                 PROVE  NewTime(PathOf(req'[x])) > req'[x].lastmod
      BY DEF PutTimes, TimeAt, NewTime
    <2>1. CASE x # r
      <3>1. req'[x] = req[x] /\ req[x].pc # "unsent"
        BY <1>3, <2>1 DEF Opened, Done
      <3>2. PathOf(req[x]) \in Paths
        BY <1>7, <3>1, PathFacts
      <3>3. link[PathOf(req[x])] # 0 => TimeAt(PathOf(req[x])) > req[x].lastmod
        BY <3>1 DEF PutInv, PutTimes
      <3>4. req[x].lastmod \in Nat /\ req[x].lastmod <= clock
        BY <1>7, <3>1
      <3> QED
        BY <1>1, <1>6, <3>1, <3>2, <3>3, <3>4
    <2>2. CASE x = r
      <3>1. req'[x] = p
        BY <1>3, <2>2
      <3>2. q.lastmod \in Nat /\ q.lastmod <= clock
        BY <1>1, <1>7 DEF q, Busy
      <3>3. CASE openForWriting(r)
        BY <1>1, <1>4, <1>8, <3>1, <3>2, <3>3
      <3>4. CASE Opened(q)
        <4>1. link[path] # 0 => TimeAt(path) > q.lastmod
          BY <3>4 DEF PutInv, PutTimes, path, q
        <4> QED
          BY <1>1, <1>4, <1>5, <1>6, <3>1, <3>2, <4>1
      <3> QED
        BY <1>2, <3>1, <3>3, <3>4
    <2> QED
      BY <2>1, <2>2
  <1>10. PutFinds'
    <2> SUFFICES ASSUME NEW x \in Requests, req'[x].pc = "checked", Conditional(req'[x])
                 PROVE  link'[PathOf(req'[x])] # 0 /\ NewTime(PathOf(req'[x])) = req'[x].lastmod
      BY DEF PutFinds, TimeAt, NewTime
    <2>1. CASE x = r
      BY <1>2, <1>3, <1>4, <2>1 DEF TimeAt, NewTime
    <2>2. CASE x # r
      <3>1. req'[x] = req[x] /\ Busy(req[x]) /\ req[x].quiet /\ req[x].op = "put"
        BY <1>3, <2>2 DEF Conditional, Busy
      <3>2. Undisturbed(x)
        BY <3>1 DEF QuietInv
      <3>3. IsRequest(req[x])
        BY <3>1, Sent
      <3>4. Names(req[x]) = {req[x].name} /\ req[x].scope \in Scopes
            /\ PathOf(req[x]) = getPathForScope(req[x].scope, percentEncode(req[x].name))
        BY <3>1, <3>3, PathNames, PathFacts
      <3>5. LeftAlone(PathOf(req[x]))
        BY <1>1, <1>5, <2>2, <3>1, <3>2, <3>4, FilesKept DEF q
      <3>6. link[PathOf(req[x])] # 0 /\ TimeAt(PathOf(req[x])) = req[x].lastmod
        BY <3>1 DEF PutInv, PutFinds
      <3> QED
        BY <3>1, <3>5, <3>6 DEF LeftAlone, TimeAt, NewTime
    <2> QED
      BY <2>1, <2>2
  <1>11. PutsApart'
    \* One that has opened its file is older than one that is about to.
    <2>1. ASSUME NEW x \in Requests, x # r, openForWriting(r), Conditional(q), Opened(req[x]),
                 PathOf(req[x]) = path
          PROVE  req[x].lastmod < q.lastmod
      <3>1. link[path] # 0 /\ TimeAt(path) = q.lastmod
        BY <1>8, <2>1 DEF PutInv, PutFinds, q, path
      <3>2. TimeAt(path) > req[x].lastmod
        BY <2>1, <3>1 DEF PutInv, PutTimes
      <3>3. req[x].pc # "unsent"
        BY <2>1 DEF Opened, Done
      <3>4. req[x].lastmod \in Nat /\ q.lastmod \in Nat
        BY <1>1, <1>7, <3>3 DEF Busy, IsRequest
      <3> QED
        BY <3>1, <3>2, <3>4
    <2>2. ASSUME NEW x \in Requests, x # r, Opened(p), Conditional(p), Opened(req[x]), Conditional(req[x]),
                 PathOf(req[x]) = path
          PROVE  req[x].lastmod # q.lastmod
      <3>1. CASE Opened(q) /\ Conditional(q)
        BY <2>2, <3>1 DEF PutInv, PutsApart, q, path
      <3>2. CASE openForWriting(r) /\ p.missed = q.missed
        <4>1. Conditional(q)
          BY <1>4, <2>2, <3>2 DEF Conditional
        <4>2. req[x].lastmod < q.lastmod
          BY <2>1, <2>2, <3>2, <4>1
        <4>3. req[x].pc # "unsent"
          BY <2>2 DEF Opened, Done
        <4>4. req[x].lastmod \in Nat
          BY <1>7, <4>3
        <4> QED
          BY <4>2, <4>4
      <3> QED
        BY <1>2, <2>2, <3>1, <3>2
    <2> SUFFICES ASSUME NEW x \in Requests, NEW y \in Requests, x # y, Opened(req'[x]), Opened(req'[y]),
                        Conditional(req'[x]), Conditional(req'[y]), PathOf(req'[x]) = PathOf(req'[y])
                 PROVE  req'[x].lastmod # req'[y].lastmod
      BY DEF PutsApart
    <2>3. CASE x = r
      BY <1>3, <1>4, <2>2, <2>3
    <2>4. CASE y = r
      BY <1>3, <1>4, <2>2, <2>4
    <2>5. CASE x # r /\ y # r
      BY <1>3, <2>5 DEF PutInv, PutsApart
    <2> QED
      BY <2>3, <2>4, <2>5
  <1> QED
    BY <1>9, <1>10, <1>11 DEF PutInv

\* An arrival changes the requests it disturbs, only in that they are disturbed.
LEMMA SendRequests ==
  ASSUME TypeInv, NEW r \in Requests, Send(r)
  PROVE  /\ ReadOnly /\ req[r].pc = "unsent" /\ req'[r].pc = "resolve" /\ Arrived(req'[r])
         /\ \A x \in Requests \ {r} :
              \/ req'[x] = req[x]
              \/ /\ Busy(req[x]) /\ req'[x].quiet = FALSE
                 /\ \A g \in Fields \ {"quiet"} : req'[x][g] = req[x][g]
PROOF
  <1>1. PICK p : /\ Arrived(p)
                 /\ req' = [x \in Requests |->
                      IF x = r THEN p
                      ELSE IF Busy(req[x]) /\ Clash(req[x], p) THEN Disturbed(req[x]) ELSE req[x]]
    BY SendFacts
  <1>2. req'[r] = p /\ p.pc = "resolve"
    BY <1>1 DEF Arrived, Fresh
  <1>3. ASSUME NEW x \in Requests \ {r}
        PROVE  \/ req'[x] = req[x]
               \/ /\ Busy(req[x]) /\ req'[x].quiet = FALSE
                  /\ \A g \in Fields \ {"quiet"} : req'[x][g] = req[x][g]
    <2>1. CASE Busy(req[x]) /\ req'[x] = Disturbed(req[x])
      <3>1. LET d == Disturbed(req[x]) IN
            d.quiet = FALSE /\ \A g \in Fields \ {"quiet"} : d[g] = req[x][g]
        BY <2>1, Sent, DisturbedFacts
      <3> QED
        BY <2>1, <3>1
    <2>2. CASE req'[x] = req[x]
      BY <2>2
    <2> QED
      BY <1>1, <2>1, <2>2
  <1> QED
    BY <1>1, <1>2, <1>3, SendFacts

LEMMA SendPut ==
  ASSUME TypeInv, PutInv, NEW r \in Requests, Send(r)
  PROVE  PutInv'
PROOF
  <1>1. ReadOnly /\ req'[r].pc = "resolve"
    BY SendRequests
  <1>2. ASSUME NEW x \in Requests, Opened(req'[x])
        PROVE  /\ Opened(req[x]) /\ PathOf(req'[x]) = PathOf(req[x]) /\ req'[x].lastmod = req[x].lastmod
               /\ Conditional(req'[x]) => Conditional(req[x])
    <2>1. x # r
      BY <1>1, <1>2 DEF Opened, Done
    <2>2. CASE req'[x] = req[x]
      BY <1>2, <2>2
    <2>3. CASE req'[x].quiet = FALSE /\ \A g \in Fields \ {"quiet"} : req'[x][g] = req[x][g]
      BY <1>2, <2>3 DEF Fields, Opened, Done, FirstCode, PathOf, Conditional
    <2> QED
      BY <2>1, <2>2, <2>3, SendRequests, ZenonT(60)
  <1>3. ASSUME NEW x \in Requests, req'[x].pc = "checked", Conditional(req'[x]) PROVE req'[x] = req[x]
    BY <1>1, <1>3, SendRequests DEF Conditional
  <1>4. PutTimes'
    BY <1>1, <1>2 DEF PutInv, PutTimes, TimeAt, ReadOnly
  <1>5. PutFinds'
    BY <1>1, <1>3 DEF PutInv, PutFinds, TimeAt, ReadOnly
  <1>6. PutsApart'
    BY <1>2 DEF PutInv, PutsApart
  <1> QED
    BY <1>4, <1>5, <1>6 DEF PutInv

LEMMA StepCases ==
  ASSUME TypeInv, [Next]_vars
  PROVE  UNCHANGED vars \/ \E r \in Requests : Send(r) \/ Works(r)
  BY Steps DEF Works

LEMMA StepPut ==
  ASSUME TypeInv, WholeInv, QuietInv, PutInv, [Next]_vars
  PROVE  PutInv'
PROOF
  <1>1. CASE UNCHANGED vars
    BY <1>1 DEF vars, PutInv, PutTimes, PutFinds, PutsApart, TimeAt
  <1> QED
    BY <1>1, StepCases, SendPut, WorksPut

-----------------------------------------------------------------------------
(* Conditional deletions                                                   *)

LEMMA LatestFacts ==
  ASSUME NEW S, S \subseteq Nat, HasLast(S)
  PROVE  /\ LatestTime(S) \in Nat /\ \A u \in S : u <= LatestTime(S)
         /\ S # {} => LatestTime(S) \in S
PROOF
  <1>1. CASE S = {}
    BY <1>1 DEF LatestTime
  <1>2. CASE S # {}
    <2>1. \E t \in S : \A u \in S : u <= t
      BY <1>2 DEF HasLast
    <2> DEFINE l == CHOOSE t \in S : \A u \in S : u <= t
    <2>2. l \in S /\ \A u \in S : u <= l
      BY <2>1, Zenon
    <2>3. LatestTime(S) = l
      BY <1>2 DEF LatestTime
    <2> HIDE DEF l
    <2> QED
      BY <1>2, <2>2, <2>3
  <1> QED
    BY <1>1, <1>2

\* A directory gets no time but that of the clock.
LEMMA WorksDirs ==
  ASSUME TypeInv, DirInv, NEW r \in Requests, Works(r)
  PROVE  DirInv' /\ \A s \in Scopes : LatestTime(dir[s]) <= LatestTime(dir'[s])
PROOF
  <1>1. clock \in Nat /\ dir \in [Scopes -> SUBSET (1 .. clock)] /\ Busy(req[r]) /\ IsRequest(req[r])
    BY Sent, FilesFacts DEF TypeInv, FilesType, Works
  <1>2. ASSUME NEW s \in Scopes, dir'[s] = dir[s] \/ dir'[s] = dir[s] \cup {clock + 1} \/ (dir[s] = {} /\ dir'[s] = {clock + 1})
        PROVE  HasLast(dir'[s]) /\ LatestTime(dir[s]) <= LatestTime(dir'[s])
    <2>1. dir[s] \subseteq Nat /\ \A t \in dir[s] : t <= clock
      BY <1>1
    <2>2. HasLast(dir[s])
      BY DEF DirInv
    <2>3. LatestTime(dir[s]) \in Nat
      BY <2>1, <2>2, LatestFacts
    <2>4. CASE dir'[s] = dir[s]
      BY <2>2, <2>3, <2>4
    <2>5. CASE dir'[s] = dir[s] \cup {clock + 1}
      <3>1. HasLast(dir'[s]) /\ dir'[s] \subseteq Nat
        BY <1>1, <2>1, <2>5 DEF HasLast
      <3>2. LatestTime(dir'[s]) \in Nat /\ \A t \in dir'[s] : t <= LatestTime(dir'[s])
        BY <3>1, LatestFacts
      <3>3. dir[s] = {} => LatestTime(dir[s]) = 0
        BY DEF LatestTime
      <3>4. dir[s] # {} => LatestTime(dir[s]) \in dir[s]
        BY <2>1, <2>2, LatestFacts
      <3>5. CASE dir[s] = {}
        <4>1. LatestTime(dir[s]) = 0
          BY <3>3, <3>5
        <4> HIDE DEF DirInv
        <4> QED
          BY <3>1, <3>2, <4>1
      <3>6. CASE dir[s] # {}
        <4>1. LatestTime(dir[s]) \in dir'[s]
          BY <2>5, <3>4, <3>6
        <4> QED
          BY <3>1, <3>2, <4>1
      <3> QED
        BY <3>5, <3>6
    <2>6. CASE dir[s] = {} /\ dir'[s] = {clock + 1}
      BY <2>5, <2>6
    <2> QED
      BY <1>2, <2>4, <2>5, <2>6
  <1>3. \A s \in Scopes : dir'[s] = dir[s] \/ dir'[s] = dir[s] \cup {clock + 1} \/ (dir[s] = {} /\ dir'[s] = {clock + 1})
    <2>1. CASE dir' = dir
      BY <2>1
    <2>2. CASE determineResource(r)
      BY <2>2 DEF determineResource, WritableScopes
    <2>3. ASSUME NEW s \in Scopes, dir' = [dir EXCEPT ![s] = @ \cup {clock + 1}]
          PROVE  \A t \in Scopes : dir'[t] = dir[t] \/ dir'[t] = dir[t] \cup {clock + 1}
      BY <1>1, <2>3
    <2>4. CASE openForWriting(r)
      BY <1>1, <2>1, <2>3, <2>4 DEF openForWriting, IsRequest
    <2>5. CASE Deletes(r)
      BY <1>1, <2>1, <2>3, <2>5 DEF Deletes, KeepFiles, Unlink, IsRequest
    <2>6. CASE Reads(r) \/ restCheckModifiedTimestamp(r) \/ putDone(r) \/ checkResourceModifiedTimestamp(r) \/ writeCallback(r)
      BY <2>1, <2>6 DEF Reads, restCheckModifiedTimestamp, putDone, checkResourceModifiedTimestamp, writeCallback, ReadOnly
    <2> QED
      BY <2>2, <2>4, <2>5, <2>6 DEF Works
  <1> QED
    BY <1>2, <1>3 DEF DirInv

\* What a step makes of a recursive deletion.
TreeStep(q, p) ==
  \/ q.pc = "resolve" /\ p.pc = "start"
  \/ q.pc = "start" /\ p.pc \in {"check", "checked"} /\ (q.lastmod = 0 \/ ~FolderModified(q))
  \/ q.pc = "check" /\ p.pc \in {"check", "checked"}
  \/ q.pc \in {"checked", "entry"} /\ p.pc \in {"entry", "done"}
  \/ p.pc = "done" /\ FirstCode(p) = 500

LEMMA TreeSteps ==
  ASSUME TypeInv, NEW r \in Requests, Works(r), req[r].op = "deleteTree"
  PROVE  \E p : Moves(r, p) /\ TreeStep(req[r], p)
PROOF
  <1> DEFINE q == req[r]
  <1>1. Busy(q) /\ IsRequest(q)
    BY Sent DEF Works
  <1>2. CASE determineResource(r)
    <2> DEFINE p == [q EXCEPT !.pc = "start"]
    <2>1. Moves(r, p)
      BY <1>1, <1>2, determineResourceMoves
    <2>2. p.pc = "start" /\ q.pc = "resolve"
      BY <1>1, <1>2, Sent DEF Fields, determineResource
    <2> HIDE DEF p
    <2> QED
      BY <2>1, <2>2 DEF TreeStep
  <1>3. CASE checkResourceModifiedTimestamp(r)
    <2>1. q.pc \in {"start", "check"}
      BY <1>3 DEF checkResourceModifiedTimestamp
    <2>2. PICK p : /\ Moves(r, p)
                   /\ \/ /\ p.pc \in {"check", "checked"}
                         /\ q.pc = "start" => q.lastmod = 0 \/ ~FolderModified(q)
                      \/ p.pc = "done" /\ FirstCode(p) = 500
      BY <1>1, <1>3, checkResourceMoves
    <2> QED
      BY <2>1, <2>2 DEF TreeStep
  <1>4. CASE Deletes(r)
    BY <1>4 DEF Deletes, TreeStep
  <1>5. CASE Reads(r) \/ restCheckModifiedTimestamp(r) \/ openForWriting(r) \/ writeCallback(r) \/ putDone(r)
    BY <1>5 DEF Reads, Writer, restCheckModifiedTimestamp, openForWriting, writeCallback, putDone
  <1> QED
    BY <1>2, <1>3, <1>4, <1>5 DEF Works

LEMMA WorksTree ==
  ASSUME TypeInv, TypeInv', TreeInv, NEW r \in Requests, Works(r)
  PROVE  TreeInv'
PROOF
  <1> DEFINE q == req[r]
  <1>1. Busy(q) /\ IsRequest(q)
    BY Sent DEF Works
  <1>2. DirInv' /\ \A s \in Scopes : LatestTime(dir[s]) <= LatestTime(dir'[s])
    BY WorksDirs DEF TreeInv
  <1>3. \A s \in Scopes : LatestTime(dir[s]) \in Nat /\ LatestTime(dir'[s]) \in Nat
    <2>1. /\ dir \in [Scopes -> SUBSET (1 .. clock)] /\ dir' \in [Scopes -> SUBSET (1 .. clock')]
      BY DEF TypeInv, FilesType
    <2>2. \A s \in Scopes : HasLast(dir[s]) /\ HasLast(dir'[s]) /\ dir[s] \subseteq Nat /\ dir'[s] \subseteq Nat
      BY <1>2, <2>1 DEF TreeInv, DirInv
    <2> QED
      BY <2>2, LatestFacts
  <1>4. PICK p : Moves(r, p) /\ (q.op = "deleteTree" => TreeStep(q, p))
    <2>1. CASE q.op = "deleteTree"
      BY <2>1, TreeSteps
    <2>2. CASE q.op # "deleteTree"
      BY <2>2, PutSteps
    <2> QED
      BY <2>1, <2>2
  <1>5. \A x \in Requests : req'[x] = IF x = r THEN p ELSE req[x]
    BY <1>4 DEF Moves, TypeInv, RequestsType
  <1>6. ASSUME NEW x \in Requests, req'[x].pc # "unsent", req'[x].op = "deleteTree"
        PROVE  LET z == req'[x] IN
               /\ z.wanted \in Nat
               /\ z.pc \in {"resolve", "start"} => z.wanted <= LatestTime(dir'[z.scope])
               /\ z.pc \in {"check", "checked", "entry"} => z.lastmod = 0 \/ z.wanted <= z.lastmod
               /\ Done(z) => z.lastmod = 0 \/ z.wanted <= z.lastmod \/ FirstCode(z) = 500
    <2>1. CASE x # r
      <3>1. req'[x] = req[x]
        BY <1>5, <2>1
      <3> DEFINE z == req[x]
                 l == LatestTime(dir[z.scope])
                 k == LatestTime(dir'[z.scope])
      <3>2. /\ z.wanted \in Nat
            /\ z.pc \in {"resolve", "start"} => z.wanted <= l
            /\ z.pc \in {"check", "checked", "entry"} => z.lastmod = 0 \/ z.wanted <= z.lastmod
            /\ Done(z) => z.lastmod = 0 \/ z.wanted <= z.lastmod \/ FirstCode(z) = 500
        BY <1>6, <3>1 DEF TreeInv
      <3>3. z.scope \in Scopes
        BY <1>6, <3>1 DEF TypeInv, RequestsType, IsRequest
      <3>4. l \in Nat /\ k \in Nat /\ l <= k
        BY <1>2, <1>3, <3>3
      <3>5. z.pc \in {"resolve", "start"} => z.wanted <= k
        <4> HIDE DEF l, k
        <4> QED
          BY <3>2, <3>4
      <3> QED
        BY <3>1, <3>2, <3>5
    <2>2. CASE x = r
      <3>1. req'[x] = p
        BY <1>5, <2>2
      <3>2. p.op = q.op /\ p.wanted = q.wanted /\ p.lastmod = q.lastmod /\ p.scope = q.scope
        BY <1>4 DEF Moves, Same
      <3> DEFINE l == LatestTime(dir[q.scope])
                 k == LatestTime(dir'[q.scope])
      <3>3. /\ q.wanted \in Nat
            /\ q.pc \in {"resolve", "start"} => q.wanted <= l
            /\ q.pc \in {"check", "checked", "entry"} => q.lastmod = 0 \/ q.wanted <= q.lastmod
        BY <1>1, <1>6, <3>1, <3>2 DEF TreeInv, Busy
      <3>4. q.scope \in Scopes /\ q.lastmod \in Nat
        BY <1>1 DEF IsRequest
      <3>5. l \in Nat /\ k \in Nat /\ l <= k
        BY <1>2, <1>3, <3>4
      <3>6. FolderModified(q) <=> q.lastmod < l
        BY DEF FolderModified
      <3>7. TreeStep(q, p)
        BY <1>4, <1>6, <3>1, <3>2
      <3> HIDE DEF l, k, q
      <3>8. /\ p.pc \in {"resolve", "start"} => p.wanted <= k
            /\ p.pc \in {"check", "checked", "entry"} => p.lastmod = 0 \/ p.wanted <= p.lastmod
            /\ Done(p) => p.lastmod = 0 \/ p.wanted <= p.lastmod \/ FirstCode(p) = 500
        BY <3>2, <3>3, <3>4, <3>5, <3>6, <3>7 DEF TreeStep, Done
      <3> QED
        BY <3>1, <3>2, <3>3, <3>8 DEF k, q
    <2> QED
      BY <2>1, <2>2
  <1> QED
    BY <1>2, <1>6 DEF TreeInv

LEMMA SendTree ==
  ASSUME TypeInv, TreeInv, NEW r \in Requests, Send(r)
  PROVE  TreeInv'
PROOF
  <1>1. dir' = dir /\ req'[r].pc = "resolve" /\ Arrived(req'[r])
    BY SendRequests DEF ReadOnly
  <1>2. ASSUME NEW x \in Requests, req'[x].pc # "unsent", req'[x].op = "deleteTree"
        PROVE  LET z == req'[x] IN
               /\ z.wanted \in Nat
               /\ z.pc \in {"resolve", "start"} => z.wanted <= LatestTime(dir[z.scope])
               /\ z.pc \in {"check", "checked", "entry"} => z.lastmod = 0 \/ z.wanted <= z.lastmod
               /\ Done(z) => z.lastmod = 0 \/ z.wanted <= z.lastmod \/ FirstCode(z) = 500
    <2>1. CASE x = r
      <3> DEFINE z == req'[x]
      <3>1. z.scope \in Scopes /\ z.wanted = LatestTime(dir[z.scope]) /\ z.pc = "resolve"
        BY <1>1, <1>2, <2>1 DEF Arrived, Fresh
      <3>2. HasLast(dir[z.scope]) /\ dir[z.scope] \subseteq Nat
        BY <3>1 DEF TreeInv, DirInv, TypeInv, FilesType
      <3>3. LatestTime(dir[z.scope]) \in Nat
        BY <3>2, LatestFacts
      <3> HIDE DEF z
      <3>4. z.wanted \in Nat /\ z.wanted <= LatestTime(dir[z.scope]) /\ ~Done(z)
        BY <3>1, <3>3 DEF Done
      <3> QED
        BY <3>1, <3>4 DEF z
    <2>2. CASE x # r /\ req'[x] = req[x]
      BY <1>2, <2>2 DEF TreeInv
    <2>3. CASE x # r /\ \A g \in Fields \ {"quiet"} : req'[x][g] = req[x][g]
      <3>1. /\ req'[x].pc = req[x].pc /\ req'[x].op = req[x].op /\ req'[x].wanted = req[x].wanted
            /\ req'[x].scope = req[x].scope /\ req'[x].lastmod = req[x].lastmod /\ req'[x].answers = req[x].answers
        BY <2>3 DEF Fields
      <3> QED
        BY <1>2, <3>1 DEF TreeInv, Done, FirstCode
    <2>4. x = r \/ req'[x] = req[x] \/ \A g \in Fields \ {"quiet"} : req'[x][g] = req[x][g]
      BY SendRequests
    <2> QED
      BY <2>1, <2>2, <2>3, <2>4
  <1> QED
    BY <1>1, <1>2 DEF TreeInv, DirInv

LEMMA StepTree ==
  ASSUME TypeInv, TreeInv, [Next]_vars
  PROVE  TreeInv'
PROOF
  <1>1. CASE UNCHANGED vars
    BY <1>1 DEF vars, TreeInv, DirInv
  <1> QED
    BY <1>1, StepCases, StepType, SendTree, WorksTree

\* Of the PUTs made from the same version of a file only one is accepted, and a
\* recursive deletion only if its directory has not changed since, however the
\* checks and the writes of the requests interleave, unless a writer of the same
\* name came in between or the file was gone.
THEOREM UpdatesKept == Spec => []NoLostUpdate
PROOF
  <1> DEFINE IInv == TypeInv /\ WholeInv /\ QuietInv /\ PutInv /\ TreeInv
  <1>1. Init => IInv
    <2> SUFFICES ASSUME Init PROVE IInv
      OBVIOUS
    <2>1. \A r \in Requests : req[r].pc = "unsent"
      BY DEF Init
    <2>2. TypeInv /\ LinksApart /\ FileWhole /\ DirInv
      BY InitType, InitFiles
    <2>3. WriterInv /\ QuietInv
      BY <2>1 DEF WriterInv, Writing, QuietInv, Busy
    <2>4. PutInv
      BY <2>1 DEF PutInv, PutTimes, PutFinds, PutsApart, Opened, Done
    <2>5. TreeInv
      BY <2>1, <2>2 DEF TreeInv
    <2> QED
      BY <2>2, <2>3, <2>4, <2>5 DEF WholeInv
  <1>2. IInv /\ [Next]_vars => IInv'
    BY StepType, StepWhole, StepQuiet, StepPut, StepTree
  <1>3. IInv => NoLostUpdate
    <2> SUFFICES ASSUME TypeInv, PutInv, TreeInv, NEW q \in Requests, NEW r \in Requests
                 PROVE  LET a == req[q]
                            b == req[r]
                            accepted(x) == Done(x) /\ x.op = "put" /\ x.answers[1].code = 201
                                           /\ x.quiet /\ ~x.missed /\ x.lastmod # 0
                        IN  /\ q # r /\ accepted(a) /\ accepted(b) /\ a.scope = b.scope /\ a.name = b.name
                                 => a.lastmod # b.lastmod
                            /\ Done(a) /\ a.op = "deleteTree" /\ a.quiet /\ a.lastmod # 0 /\ a.answers[1].code = 200
                                 => a.lastmod >= a.wanted
      BY DEF NoLostUpdate
    <2>1. ASSUME NEW x \in Requests, Done(req[x]), req[x].op = "put", req[x].answers[1].code = 201,
                 req[x].quiet, ~req[x].missed, req[x].lastmod # 0
          PROVE  Opened(req[x]) /\ Conditional(req[x])
      BY <2>1 DEF Opened, Conditional, FirstCode
    <2>2. ASSUME req[q].scope = req[r].scope, req[q].name = req[r].name PROVE PathOf(req[q]) = PathOf(req[r])
      BY <2>2 DEF PathOf
    <2>3. ASSUME Done(req[q]), req[q].op = "deleteTree", req[q].lastmod # 0, req[q].answers[1].code = 200
          PROVE  req[q].lastmod >= req[q].wanted
      <3>1. req[q].pc # "unsent"
        BY <2>3 DEF Done
      <3>2. req[q].wanted \in Nat /\ req[q].lastmod \in Nat /\ req[q].wanted <= req[q].lastmod
        BY <2>3, <3>1 DEF TreeInv, FirstCode, TypeInv, RequestsType, IsRequest
      <3> QED
        BY <3>2
    <2> QED
      BY <2>1, <2>2, <2>3 DEF PutInv, PutsApart
  <1> HIDE DEF IInv
  <1> QED
    BY <1>1, <1>2, <1>3, PTL DEF Spec

-----------------------------------------------------------------------------
(* The chain of scopes                                                     *)

StoreType == store \in [Scopes -> [ItemNames -> Bodies \cup {NotFound}]]

\* Objects have the same keys, and are not what stands for something else.
LEMMA ObjectFacts ==
  ASSUME NEW b \in Bodies
  PROVE  /\ b \in [DOMAIN b -> Values]
         /\ \A c \in Bodies : c \in [DOMAIN b -> Values] /\ DOMAIN c = DOMAIN b
         /\ \A o \in [DOMAIN b -> Values] : o \notin {Empty, Mixed, NoData, NotFound}
         /\ b \notin {Empty, Mixed, NoData, NotFound}
  BY ConfigAssumption

LEMMA StoreFacts ==
  ASSUME StoreType, NEW s \in Scopes, NEW n \in ItemNames, store[s][n] # NotFound
  PROVE  store[s][n] \in Bodies
  BY DEF StoreType

LEMMA ScopeOrder ==
  /\ Scopes = 1 .. 5 /\ Plugin = 5
  /\ \A s \in Scopes : s \in Nat /\ s .. Plugin \subseteq Scopes /\ s + 1 .. Plugin \subseteq Scopes
                       /\ s .. Plugin = {s} \cup (s + 1 .. Plugin) /\ s \notin s + 1 .. Plugin
  /\ Plugin + 1 .. Plugin = {}
  BY DEF Scopes, User, Plugin

LEMMA NearestIs ==
  ASSUME NEW S \in SUBSET Scopes, NEW s \in S, \A t \in S : s <= t
  PROVE  Nearest(S) = s
PROOF
  <1> DEFINE l == CHOOSE t \in S : \A u \in S : t <= u
  <1>1. l \in S /\ \A u \in S : l <= u
    BY Zenon
  <1>2. Nearest(S) = l
    BY DEF Nearest
  <1> HIDE DEF l
  <1> QED
    BY <1>1, <1>2, ScopeOrder

LEMMA WidestIs ==
  ASSUME NEW S \in SUBSET Scopes, NEW s \in S, \A t \in S : s >= t
  PROVE  Widest(S) = s
PROOF
  <1> DEFINE l == CHOOSE t \in S : \A u \in S : t >= u
  <1>1. l \in S /\ \A u \in S : l >= u
    BY Zenon
  <1>2. Widest(S) = l
    BY DEF Widest
  <1> HIDE DEF l
  <1> QED
    BY <1>1, <1>2, ScopeOrder

\* A set of scopes has a nearest and a widest one.
LEMMA Ends5 ==
  ASSUME NEW S \in SUBSET Scopes, S # {}
  PROVE  /\ Nearest(S) \in S /\ \A t \in S : Nearest(S) <= t
         /\ Widest(S) \in S /\ \A t \in S : Widest(S) >= t
PROOF
  <1>1. S \subseteq 1 .. 5
    BY ScopeOrder
  <1>2. \E s \in S : \A t \in S : s >= t
    <2>1. ASSUME 5 \in S PROVE \A t \in S : 5 >= t
      BY <1>1
    <2>2. ASSUME 5 \notin S, 4 \in S PROVE \A t \in S : 4 >= t
      BY <1>1, <2>2
    <2>3. ASSUME 5 \notin S, 4 \notin S, 3 \in S PROVE \A t \in S : 3 >= t
      BY <1>1, <2>3
    <2>4. ASSUME 5 \notin S, 4 \notin S, 3 \notin S, 2 \in S PROVE \A t \in S : 2 >= t
      BY <1>1, <2>4
    <2>5. ASSUME 5 \notin S, 4 \notin S, 3 \notin S, 2 \notin S PROVE 1 \in S /\ \A t \in S : 1 >= t
      <3>1. \A t \in S : t = 1
        BY <1>1, <2>5
      <3>2. PICK t \in S : TRUE
        OBVIOUS
      <3> QED
        BY <3>1, <3>2
    <2> QED
      BY <2>1, <2>2, <2>3, <2>4, <2>5
  <1> QED
    BY <1>2, NearestFacts, WidestIs

LEMMA HavingFacts ==
  ASSUME NEW s \in Scopes, NEW n
  PROVE  /\ Having(n, s) \subseteq Scopes /\ Having(n, s + 1) \subseteq Scopes
         /\ Having(n, s) = IF store[s][n] = NotFound THEN Having(n, s + 1) ELSE {s} \cup Having(n, s + 1)
         /\ \A t \in Having(n, s + 1) : s < t
         /\ Having(n, Plugin + 1) = {}
PROOF
  <1>1. /\ s .. Plugin \subseteq Scopes /\ s + 1 .. Plugin \subseteq Scopes
        /\ s .. Plugin = {s} \cup (s + 1 .. Plugin)
    BY ScopeOrder
  <1>2. \A t \in s + 1 .. Plugin : s < t
    BY ScopeOrder
  <1> QED
    BY <1>1, <1>2, ScopeOrder DEF Having

LEMMA PlainFacts ==
  ASSUME StoreType, NEW s \in Scopes, NEW n \in ItemNames
  PROVE  /\ Plain(n, s) = IF store[s][n] = NotFound THEN Plain(n, s + 1) ELSE store[s][n]
         /\ Having(n, s) # {} => Plain(n, s) \in Bodies
PROOF
  <1>1. ASSUME store[s][n] = NotFound PROVE Plain(n, s) = Plain(n, s + 1)
    <2>1. Having(n, s) = Having(n, s + 1)
      BY <1>1, HavingFacts
    <2> QED
      BY <1>1, <2>1 DEF Plain
  <1>2. ASSUME store[s][n] # NotFound PROVE Plain(n, s) = store[s][n]
    <2>1. s \in Having(n, s) /\ Having(n, s) \subseteq Scopes /\ \A t \in Having(n, s) : s <= t
      BY <1>2, HavingFacts, ScopeOrder
    <2>2. Nearest(Having(n, s)) = s
      BY <2>1, NearestIs
    <2> QED
      BY <1>2, <2>1, <2>2 DEF Plain
  <1>3. ASSUME Having(n, s) # {} PROVE Plain(n, s) \in Bodies
    <2> DEFINE t == Nearest(Having(n, s))
    <2>1. t \in Having(n, s) /\ t \in Scopes
      BY <1>3, HavingFacts, Ends5
    <2>2. store[t][n] # NotFound
      BY <2>1 DEF Having
    <2>3. store[t][n] \in Bodies
      BY <2>1, <2>2, StoreFacts
    <2> QED
      BY <1>3, <2>3 DEF Plain
  <1> QED
    BY <1>1, <1>2, <1>3


\* The scopes that give a property a value.
Given(n, s, k, without) == {t \in Having(n, s) : store[t][n][k] \notin without}

LEMMA PropertyIs ==
  ASSUME NEW n, NEW s, NEW k
  PROVE  LET some == Given(n, s, k, {Absent, Falsy})
             any == Given(n, s, k, {Absent}) IN
         Property(n, s, k) = IF some # {} THEN store[Nearest(some)][n][k]
                             ELSE IF any # {} THEN store[Widest(any)][n][k] ELSE Absent
  BY DEF Property, Given

\* One more scope: a falsy value does not hide one of a broader scope.
LEMMA PropertyStep ==
  ASSUME NEW s \in Scopes, NEW n, NEW k
  PROVE  LET v == store[s][n][k]
             w == Property(n, s + 1, k) IN
         Property(n, s, k) = IF store[s][n] = NotFound \/ (v \in {Absent, Falsy} /\ w # Absent) THEN w ELSE v
PROOF
  <1> DEFINE v == store[s][n][k]
             w == Property(n, s + 1, k)
             x == Property(n, s, k)
             some == Given(n, s, k, {Absent, Falsy})
             any == Given(n, s, k, {Absent})
             someb == Given(n, s + 1, k, {Absent, Falsy})
             anyb == Given(n, s + 1, k, {Absent})
  <1>1. /\ some \subseteq Scopes /\ someb \subseteq Scopes
        /\ some = IF store[s][n] # NotFound /\ v \notin {Absent, Falsy} THEN {s} \cup someb ELSE someb
        /\ \A t \in someb : s < t /\ store[t][n][k] \notin {Absent, Falsy}
    BY HavingFacts DEF Given
  <1>2. /\ any \subseteq Scopes /\ anyb \subseteq Scopes
        /\ any = IF store[s][n] # NotFound /\ v \notin {Absent} THEN {s} \cup anyb ELSE anyb
        /\ \A t \in anyb : s < t /\ store[t][n][k] \notin {Absent}
    BY HavingFacts DEF Given
  <1>3. x = IF some # {} THEN store[Nearest(some)][n][k]
            ELSE IF any # {} THEN store[Widest(any)][n][k] ELSE Absent
    BY PropertyIs
  <1>4. w = IF someb # {} THEN store[Nearest(someb)][n][k]
            ELSE IF anyb # {} THEN store[Widest(anyb)][n][k] ELSE Absent
    BY PropertyIs
  <1>5. \A t \in Scopes : t \in Nat
    BY ScopeOrder
  <1> HIDE DEF v, w, x, some, any, someb, anyb
  <1>6. CASE store[s][n] = NotFound
    BY <1>1, <1>2, <1>3, <1>4, <1>6 DEF v, w, x
  <1>7. CASE store[s][n] # NotFound /\ v \notin {Absent, Falsy}
    <2>1. s \in some /\ \A t \in some : s <= t
      BY <1>1, <1>5, <1>7
    <2>2. Nearest(some) = s
      BY <1>1, <2>1, NearestIs
    <2>3. x = v
      BY <1>3, <2>1, <2>2 DEF v
    <2> QED
      BY <1>7, <2>3 DEF v, w, x
  <1>8. CASE store[s][n] # NotFound /\ v \in {Absent, Falsy} /\ someb # {}
    <2>1. Nearest(someb) \in someb
      BY <1>1, <1>8, Ends5
    <2>2. w # Absent /\ x = w
      BY <1>1, <1>3, <1>4, <1>8, <2>1
    <2> QED
      BY <1>8, <2>2 DEF v, w, x
  <1>9. CASE store[s][n] # NotFound /\ v \in {Absent, Falsy} /\ someb = {} /\ anyb # {}
    <2>1. Widest(anyb) \in anyb /\ \A t \in anyb : Widest(anyb) >= t
      BY <1>2, <1>9, Ends5
    <2>2. w # Absent /\ w = store[Widest(anyb)][n][k]
      BY <1>2, <1>4, <1>9, <2>1
    <2>3. Widest(anyb) \in any /\ \A t \in any : Widest(anyb) >= t
      BY <1>2, <1>5, <2>1
    <2>4. Widest(any) = Widest(anyb)
      BY <1>2, <2>3, WidestIs
    <2>5. x = w
      BY <1>1, <1>3, <1>9, <2>2, <2>3, <2>4
    <2> QED
      BY <1>9, <2>2, <2>5 DEF v, w, x
  <1>10. CASE store[s][n] # NotFound /\ v \in {Absent, Falsy} /\ someb = {} /\ anyb = {}
    <2>1. w = Absent /\ some = {}
      BY <1>1, <1>4, <1>10
    <2>2. CASE v = Absent
      BY <1>2, <1>3, <1>10, <2>1, <2>2 DEF v, w, x
    <2>3. CASE v # Absent
      <3>1. any = {s}
        BY <1>2, <1>10, <2>3
      <3>2. Widest(any) = s
        BY <1>2, <1>5, <3>1, WidestIs
      <3>3. x = v
        BY <1>3, <2>1, <3>1, <3>2 DEF v
      <3> QED
        BY <1>10, <2>1, <3>3 DEF v, w, x
    <2> QED
      BY <2>2, <2>3
  <1> QED
    BY <1>6, <1>7, <1>8, <1>9, <1>10

\* A property has a value of an object, if there is an object.
LEMMA PropertyType ==
  ASSUME StoreType, NEW s \in Scopes, NEW n \in ItemNames, Having(n, s) # {},
         NEW b \in Bodies, NEW k \in DOMAIN b
  PROVE  Property(n, s, k) \in Values
PROOF
  <1>1. ASSUME NEW t \in Having(n, s) PROVE store[t][n][k] \in Values
    <2>1. t \in Scopes /\ store[t][n] # NotFound
      BY HavingFacts DEF Having
    <2>2. store[t][n] \in Bodies
      BY <2>1, StoreFacts
    <2> QED
      BY <2>2, ObjectFacts
  <1> DEFINE some == Given(n, s, k, {Absent, Falsy})
             any == Given(n, s, k, {Absent})
  <1>2. some \subseteq Having(n, s) /\ any \subseteq Having(n, s) /\ Having(n, s) \subseteq Scopes
    BY HavingFacts DEF Given
  <1>3. Property(n, s, k) = IF some # {} THEN store[Nearest(some)][n][k]
                            ELSE IF any # {} THEN store[Widest(any)][n][k] ELSE Absent
    BY PropertyIs
  <1>4. any = {} => \A t \in Having(n, s) : store[t][n][k] = Absent
    BY DEF Given
  <1> HIDE DEF some, any
  <1>5. some # {} => Nearest(some) \in some
    BY <1>2, Ends5
  <1>6. any # {} => Widest(any) \in any
    BY <1>2, Ends5
  <1> QED
    BY <1>1, <1>2, <1>3, <1>4, <1>5, <1>6

LEMMA OverriddenIs ==
  ASSUME NEW n, NEW s
  PROVE  Overridden(n, s) = IF Having(n, s) = {} THEN NotFound
                            ELSE [k \in DOMAIN Plain(n, s) |-> Property(n, s, k)]
  BY DEF Overridden, PerProperty

LEMMA OverriddenType ==
  ASSUME StoreType, NEW s \in Scopes, NEW n \in ItemNames, Having(n, s) # {}
  PROVE  \E b \in Bodies : Overridden(n, s) \in [DOMAIN b -> Values]
PROOF
  <1> DEFINE b == Plain(n, s)
  <1>1. b \in Bodies
    BY PlainFacts
  <1>2. \A k \in DOMAIN b : Property(n, s, k) \in Values
    BY <1>1, PropertyType
  <1> HIDE DEF b
  <1>3. [k \in DOMAIN b |-> Property(n, s, k)] \in [DOMAIN b -> Values]
    BY <1>2
  <1> QED
    BY <1>1, <1>3, OverriddenIs DEF b

\* What the code puts together scope by scope is what the chain holds.
LEMMA OverriddenStep ==
  ASSUME StoreType, NEW s \in Scopes, NEW n \in ItemNames
  PROVE  Overridden(n, s) =
           IF store[s][n] = NotFound THEN Overridden(n, s + 1)
           ELSE IF Having(n, s + 1) = {} THEN store[s][n]
           ELSE overrideJsonProperties(Overridden(n, s + 1), store[s][n])
PROOF
  <1> DEFINE o == Overridden(n, s)
             w == Overridden(n, s + 1)
             b == store[s][n]
  <1>1. CASE b = NotFound
    <2>1. Having(n, s) = Having(n, s + 1)
      BY <1>1, HavingFacts
    <2>2. Plain(n, s) = Plain(n, s + 1)
      BY <1>1, PlainFacts
    <2>3. \A k : Property(n, s, k) = Property(n, s + 1, k)
      BY <1>1, PropertyStep
    <2>4. o = w
      BY <2>1, <2>2, <2>3, OverriddenIs
    <2> QED
      BY <1>1, <2>4
  <1>2. CASE b # NotFound
    <2>1. Plain(n, s) = b
      BY <1>2, PlainFacts
    <2>10. s \in Having(n, s)
      BY <1>2, HavingFacts
    <2>2. b \in Bodies
      BY <1>2, StoreFacts
    <2>3. o = [k \in DOMAIN b |-> Property(n, s, k)]
      BY <2>1, <2>10, OverriddenIs
    <2> DEFINE P(k) == Property(n, s + 1, k)
    <2>4. \A k : Property(n, s, k) = IF b[k] \in {Absent, Falsy} /\ P(k) # Absent THEN P(k) ELSE b[k]
      BY <1>2, PropertyStep
    <2>5. CASE Having(n, s + 1) = {}
      <3>1. \A k : P(k) = Absent
        BY <2>5, PropertyIs DEF Given
      <3>2. b = [k \in DOMAIN b |-> b[k]]
        BY <2>2, ObjectFacts
      <3> HIDE DEF P, b
      <3>3. o = b
        BY <2>3, <2>4, <3>1, <3>2
      <3> QED
        BY <1>2, <2>5, <3>3 DEF b
    <2>6. CASE Having(n, s + 1) # {}
      <3>1. s + 1 \in Scopes
        <4>1. s = 5 => Having(n, s + 1) = {}
          BY HavingFacts, ScopeOrder
        <4> QED
          BY <2>6, <4>1, ScopeOrder
      <3>2. Plain(n, s + 1) \in Bodies
        BY <2>6, <3>1, PlainFacts
      <3>3. DOMAIN Plain(n, s + 1) = DOMAIN b
        BY <2>2, <3>2, ObjectFacts
      <3>4. w = [k \in DOMAIN b |-> P(k)]
        BY <2>6, <3>3, OverriddenIs
      <3> HIDE DEF P, b, w, o
      <3>5. overrideJsonProperties(w, b) =
              [k \in DOMAIN b |-> IF b[k] \in {Absent, Falsy} /\ w[k] # Absent THEN w[k] ELSE b[k]]
        BY DEF overrideJsonProperties
      <3>6. o = overrideJsonProperties(w, b)
        BY <2>3, <2>4, <3>4, <3>5
      <3> QED
        BY <1>2, <2>6, <3>6 DEF b, w, o
    <2> QED
      BY <2>5, <2>6
  <1> QED
    BY <1>1, <1>2

-----------------------------------------------------------------------------
(* A request that is left alone reads what was stored                      *)

LEMMA QuietReads ==
  ASSUME TypeInv, WholeInv, NEW x \in Requests, Busy(req[x]), ~Writer(req[x]), Undisturbed(x),
         NEW s \in Scopes, NEW n \in Names(req[x])
  PROVE  LET i == InodeAt(s, percentEncode(n)) IN
         /\ i = 0 <=> store[s][n] = NotFound
         /\ i # 0 => /\ inode[i].text = store[s][n] /\ Parsed(inode[i].text) = store[s][n]
                     /\ store[s][n] \in Bodies /\ i \in DOMAIN inode
PROOF
  <1> DEFINE i == InodeAt(s, percentEncode(n))
             u == getPathForScope(s, percentEncode(n))
  <1>1. n \in ItemNames /\ u \in Paths /\ i = link[u]
    BY Sent, PathNames DEF InodeAt
  <1>2. i \notin torn /\ i \in 0 .. Len(inode) /\ DOMAIN inode = 1 .. Len(inode) /\ Len(inode) \in Nat
    BY <1>1, FilesFacts DEF Undisturbed
  <1>3. IF i = 0 THEN store[s][n] = NotFound
        ELSE \/ i \in torn
             \/ \E r \in Requests : req[r].pc = "write" /\ req[r].fd = i
             \/ inode[i].text = store[s][n]
    BY <1>1 DEF WholeInv, FileWhole
  <1>4. ASSUME NEW r \in Requests, req[r].pc = "write", req[r].fd = i, i # 0 PROVE FALSE
    <2>1. u = PathOf(req[r])
      BY <1>1, <1>4 DEF WholeInv, WriterInv, Writing
    <2>2. Busy(req[r])
      BY <1>4 DEF Busy
    <2>3. IsRequest(req[r]) /\ req[r].op = "put"
      BY <1>4, <2>2, Sent DEF IsRequest, Stage
    <2>4. Names(req[r]) = {req[r].name} /\ Writer(req[r]) /\ req[r].scope \in Scopes
          /\ req[r].name \in ItemNames /\ PathOf(req[r]) = getPathForScope(req[r].scope, percentEncode(req[r].name))
      BY <2>3, PathNames, PathFacts
    <2>5. n = req[r].name
      BY <1>1, <2>1, <2>4, SamePath
    <2>6. r # x
      BY <2>4
    <2> QED
      BY <2>2, <2>4, <2>5, <2>6, NotDisturbed
  <1> HIDE DEF i, u
  <1>5. i # 0 => inode[i].text = store[s][n] /\ inode[i].text \in Texts
    BY <1>2, <1>3, <1>4, FilesFacts
  <1>6. store[s][n] \in Bodies \cup {NotFound}
    BY <1>1 DEF TypeInv, FilesType
  <1>7. NotFound \notin {Empty, Mixed} /\ \A b \in Bodies : b # NotFound /\ b \notin {Empty, Mixed}
    BY ConfigAssumption, ObjectFacts
  <1>8. i # 0 => store[s][n] \in Bodies
    BY <1>5, <1>6, <1>7 DEF Texts
  <1> QED
    BY <1>2, <1>3, <1>5, <1>7, <1>8 DEF Parsed, i

\* What is stored under its names stays.
LEMMA StoreKept ==
  ASSUME TypeInv, WholeInv, NEW r \in Requests, Works(r),
         NEW x \in Requests, Busy(req[x]), ~Writer(req[x]), Undisturbed(x),
         NEW s \in Scopes, NEW n \in Names(req[x])
  PROVE  store'[s][n] = store[s][n]
PROOF
  <1> DEFINE q == req[r]
  <1>1. Busy(q) /\ IsRequest(q) /\ IsRequest(req[x]) /\ store \in [Scopes -> [ItemNames -> Bodies \cup {NotFound}]]
    BY Sent DEF Works, TypeInv, FilesType
  <1>2. n \in ItemNames
    BY <1>1, PathNames
  <1>3. ASSUME Writer(q), NEW m \in Names(q) PROVE m # n
    BY <1>1, <1>3, NotDisturbed
  <1>4. CASE store' = store
    BY <1>4
  <1>5. CASE writeCallback(r)
    <2>1. q.op = "put" /\ (store' = store \/ store' = [store EXCEPT ![q.scope][q.name] = q.body])
      BY <1>1, <1>5, writeCallbackCases
    <2>2. Names(q) = {q.name} /\ Writer(q)
      BY <1>1, <2>1, PathNames
    <2>3. q.name # n /\ q.scope \in Scopes /\ q.name \in ItemNames
      BY <1>1, <1>3, <2>2 DEF IsRequest
    <2> QED
      BY <1>1, <1>2, <2>1, <2>3
  <1>6. CASE Deletes(r)
    <2>1. Writer(q)
      BY <1>6 DEF Deletes, Writer
    <2>2. ASSUME NEW m \in Names(q), Unlink(q.scope, percentEncode(m)) PROVE store'[s][n] = store[s][n]
      <3>1. m \in ItemNames /\ m # n /\ q.scope \in Scopes
        BY <1>1, <1>3, <2>1, PathNames DEF IsRequest
      <3>2. percentEncode(n) # percentEncode(m)
        BY <1>2, <3>1, NamesApart
      <3>3. store' = [store EXCEPT ![q.scope] =
                        [k \in ItemNames |-> IF percentEncode(k) = percentEncode(m) THEN NotFound ELSE store[q.scope][k]]]
        BY <2>2 DEF Unlink
      <3> QED
        BY <1>1, <1>2, <3>1, <3>2, <3>3
    <2>3. CASE KeepFiles
      BY <1>4, <2>3 DEF KeepFiles
    <2> QED
      BY <1>6, <2>2, <2>3 DEF Deletes
  <1>7. CASE determineResource(r) \/ openForWriting(r)
    BY <1>4, <1>7 DEF determineResource, openForWriting
  <1>8. CASE Reads(r) \/ restCheckModifiedTimestamp(r) \/ putDone(r) \/ checkResourceModifiedTimestamp(r)
    BY <1>4, <1>8 DEF Reads, restCheckModifiedTimestamp, putDone, checkResourceModifiedTimestamp, ReadOnly
  <1> QED
    BY <1>5, <1>6, <1>7, <1>8 DEF Works

-----------------------------------------------------------------------------
(* The inductive invariant: reads that are left alone                      *)

\* What a GET has put together from the scopes from a on.
Gathered(n, a, first, data) ==
  /\ first <=> Having(n, a) = {}
  /\ ~first => data = Overridden(n, a)

\* A GET that is left alone, for the name n from the scope s, has come to a.
Found(q, n, s, a) ==
  /\ q.wanted = IF policy = "override" THEN Overridden(n, s) ELSE Plain(n, s)
  /\ policy # "override" =>
       /\ \A t \in s .. Plugin : t < a => store[t][n] = NotFound
       /\ q.pc = "send" => store[a][n] # NotFound
  /\ policy = "override" => q.pc # "send" /\ Gathered(n, a + 1, q.first, q.data)
  /\ q.pc = "read" => /\ q.fd = InodeAt(a, percentEncode(n)) /\ q.fd # 0
                      /\ q.seen = inode[q.fd].time
Quiet(q, n, s, a) == Busy(q) /\ q.quiet /\ q.name = n /\ q.scope = s /\ q.at = a
ItemInv ==
  \A r \in Requests, n \in ItemNames, s \in Scopes, a \in Scopes :
    Quiet(req[r], n, s, a) /\ req[r].op = "get" => Found(req[r], n, s, a)

Right(q) ==
  /\ ~q.thrown /\ Len(q.answers) = 1
  /\ q.answers[1] = [code |-> IF q.wanted = NotFound THEN 204 ELSE 200, data |-> q.wanted]

-----------------------------------------------------------------------------
(* GET of an item                                                          *)

\* Without a policy: the first file on the way.
LEMMA FirstIs ==
  ASSUME StoreType, NEW n \in ItemNames, NEW s \in Scopes, NEW a \in s .. Plugin,
         \A t \in s .. Plugin : t < a => store[t][n] = NotFound
  PROVE  /\ store[a][n] # NotFound => Plain(n, s) = store[a][n] /\ Plain(n, s) # NotFound
         /\ store[a][n] = NotFound /\ a = Plugin => Plain(n, s) = NotFound
PROOF
  <1>1. s .. Plugin \subseteq Scopes /\ Scopes = 1 .. 5 /\ Plugin = 5
    BY ScopeOrder
  <1>2. Having(n, s) \subseteq Scopes /\ \A t \in Having(n, s) : t >= a
    BY <1>1 DEF Having
  <1>3. ASSUME store[a][n] # NotFound PROVE Plain(n, s) = store[a][n] /\ Plain(n, s) # NotFound
    <2>1. a \in Having(n, s)
      BY <1>3 DEF Having
    <2>2. \A t \in Having(n, s) : a <= t
      BY <1>1, <1>2
    <2>3. Nearest(Having(n, s)) = a
      BY <1>2, <2>1, <2>2, NearestIs
    <2> QED
      BY <1>3, <2>1, <2>3 DEF Plain
  <1>4. ASSUME store[a][n] = NotFound, a = Plugin PROVE Plain(n, s) = NotFound
    <2>1. Having(n, s) = {}
      BY <1>1, <1>4 DEF Having
    <2> QED
      BY <2>1 DEF Plain
  <1> QED
    BY <1>3, <1>4

\* Under override: one more scope.
LEMMA GatheredStep ==
  ASSUME StoreType, NEW n \in ItemNames, NEW a \in Scopes, NEW first \in BOOLEAN, NEW data,
         Gathered(n, a + 1, first, data)
  PROVE  LET d == store[a][n]
             all == IF d = NotFound \/ (d = NoData /\ ~first) THEN data
                    ELSE IF first THEN d ELSE overrideJsonProperties(data, d) IN
         /\ ~(d # NotFound /\ ~first /\ d # NoData /\ data = NoData)
         /\ Gathered(n, a, first /\ d = NotFound, all)
PROOF
  <1> DEFINE d == store[a][n]
             all == IF d = NotFound \/ (d = NoData /\ ~first) THEN data
                    ELSE IF first THEN d ELSE overrideJsonProperties(data, d)
  <1>1. Having(n, a) = IF d = NotFound THEN Having(n, a + 1) ELSE {a} \cup Having(n, a + 1)
    BY HavingFacts
  <1>2. Overridden(n, a) = IF d = NotFound THEN Overridden(n, a + 1)
                           ELSE IF Having(n, a + 1) = {} THEN d
                           ELSE overrideJsonProperties(Overridden(n, a + 1), d)
    BY OverriddenStep
  <1>3. d # NotFound => d # NoData
    BY StoreFacts, ObjectFacts
  <1>4. (first <=> Having(n, a + 1) = {}) /\ (~first => data = Overridden(n, a + 1))
    BY DEF Gathered
  <1>5. ~first => data # NoData
    <2> SUFFICES ASSUME ~first PROVE data # NoData
      OBVIOUS
    <2>1. a + 1 \in Scopes
      <3>1. a = 5 => Having(n, a + 1) = {}
        BY HavingFacts, ScopeOrder
      <3> QED
        BY <1>4, <3>1, ScopeOrder
    <2>2. PICK b \in Bodies : data \in [DOMAIN b -> Values]
      BY <1>4, <2>1, OverriddenType
    <2> QED
      BY <2>2, ObjectFacts
  <1> HIDE DEF d
  <1>6. Having(n, a) = {} <=> first /\ d = NotFound
    BY <1>1, <1>4
  <1>7. ~(first /\ d = NotFound) => all = Overridden(n, a)
    BY <1>2, <1>3, <1>4
  <1> HIDE DEF all
  <1>8. Gathered(n, a, first /\ d = NotFound, all)
    BY <1>6, <1>7 DEF Gathered
  <1> QED
    BY <1>3, <1>5, <1>8 DEF d, all

\* An answer is right.
LEMMA AnswerRight ==
  ASSUME NEW q, IsRequest(q), Busy(q), q.gone = 0, NEW code, NEW data,
         data = q.wanted, code = IF q.wanted = NotFound THEN 204 ELSE 200
  PROVE  LET p == Answer(q, code, data) IN p.pc = "done" /\ Right(p)
PROOF
  <1> DEFINE x == [code |-> code, data |-> data]
             a == Append(q.answers, x)
             p == [q EXCEPT !.pc = "done", !.answers = a]
  <1>1. q.answers \in Seq({Failure}) /\ Len(q.answers) = 0 /\ ~q.thrown /\ Fields \subseteq DOMAIN q
    BY DEF IsRequest, Replies
  <1>2. q.answers = <<>>
    BY <1>1, EmptySeq
  <1>3. Len(a) = 1 /\ a[1] = x
    BY <1>1, <1>2, AppendFacts
  <1>4. Answer(q, code, data) = p
    BY DEF Answer
  <1> HIDE DEF a
  <1>5. p.pc = "done" /\ p.answers = a /\ p.wanted = q.wanted /\ p.thrown = q.thrown
    BY <1>1 DEF Fields
  <1> HIDE DEF p
  <1>6. Right(p)
    BY <1>1, <1>3, <1>5 DEF Right
  <1> QED
    BY <1>4, <1>5, <1>6

\* What the text of a file gives that nobody writes meanwhile.
LEMMA ReadingIs ==
  ASSUME NEW q, q.seen = inode[q.fd].time
  PROVE  Readings(q) = {Parsed(inode[q.fd].text)}
  BY DEF Readings

\* What a step makes of a GET that is left alone.
Goes(r, n, s) ==
  \E p : /\ req' = [req EXCEPT ![r] = p]
         /\ \A b \in Scopes : Busy(p) /\ p.at = b => Found(p, n, s, b)
         /\ Done(p) => Right(p)

\* What it finds at the scope it has come to.
LEMMA ItemReads ==
  ASSUME TypeInv, WholeInv, QuietInv, NEW r \in Requests, NEW n \in ItemNames, NEW s \in Scopes, NEW a \in Scopes,
         Quiet(req[r], n, s, a), req[r].op = "get", Found(req[r], n, s, a)
  PROVE  LET q == req[r]
             i == InodeAt(a, percentEncode(n)) IN
         /\ IsRequest(q) /\ Busy(q) /\ q.gone = 0 /\ a \in s .. Plugin /\ q.fd <= Len(inode)
         /\ q.name = n /\ q.scope = s /\ q.at = a /\ percentEncode(n) \in FileNames
         /\ StoreType
         /\ i = 0 <=> store[a][n] = NotFound
         /\ i # 0 => store[a][n] \in Bodies /\ inode[i].text = store[a][n] /\ Parsed(inode[i].text) = store[a][n]
         /\ q.pc = "read" => Readings(q) = {store[a][n]} /\ store[a][n] \in Bodies
PROOF
  <1> DEFINE q == req[r]
             i == InodeAt(a, percentEncode(n))
  <1>1. Busy(q) /\ q.quiet /\ q.name = n /\ q.scope = s /\ q.at = a
    BY DEF Quiet
  <1>2. IsRequest(q) /\ q.fd <= Len(inode)
    BY <1>1, Sent
  <1>3. q.gone = 0
    BY <1>1, <1>2, GoneFacts DEF IsRequest, Stage, OnFolder, Busy
  <1>4. Undisturbed(r) /\ ~Writer(q) /\ Names(q) = {n}
    BY <1>1 DEF QuietInv, Writer, Names, OnFolder
  <1>5. /\ i = 0 <=> store[a][n] = NotFound
        /\ i # 0 => /\ inode[i].text = store[a][n] /\ Parsed(inode[i].text) = store[a][n]
                    /\ store[a][n] \in Bodies
    BY <1>1, <1>4, QuietReads
  <1>6. StoreType /\ percentEncode(n) \in FileNames
    BY DEF StoreType, TypeInv, FilesType, FileNames
  <1>7. a \in s .. Plugin
    BY <1>1, <1>2 DEF IsRequest
  <1>8. ASSUME q.pc = "read" PROVE Readings(q) = {store[a][n]} /\ store[a][n] \in Bodies
    <2>1. q.fd = i /\ q.fd # 0 /\ q.seen = inode[q.fd].time
      BY <1>8 DEF Found
    <2> HIDE DEF q, i
    <2> QED
      BY <1>5, <2>1, ReadingIs
  <1> QED
    BY <1>1, <1>2, <1>3, <1>5, <1>6, <1>7, <1>8

ItemHere(r, n, s, a) == Quiet(req[r], n, s, a) /\ req[r].op = "get" /\ Found(req[r], n, s, a)

LEMMA determineResourceItem ==
  ASSUME TypeInv, NEW r \in Requests, NEW n \in ItemNames, NEW s \in Scopes, NEW a \in Scopes,
         ItemHere(r, n, s, a), determineResource(r)
  PROVE  Goes(r, n, s)
PROOF
  <1> DEFINE q == req[r]
             p == [q EXCEPT !.pc = "start"]
  <1>1. Busy(q) /\ q.at = a /\ req' = [req EXCEPT ![r] = p] /\ Found(q, n, s, a)
    BY DEF determineResource, Set, ItemHere, Quiet
  <1>2. Fields \subseteq DOMAIN q
    BY <1>1, Sent
  <1> HIDE DEF q
  <1>3. /\ p.pc = "start" /\ p.at = q.at /\ p.wanted = q.wanted /\ p.first = q.first /\ p.data = q.data
        /\ p.fd = q.fd /\ p.seen = q.seen
    BY <1>2 DEF Fields
  <1> HIDE DEF p
  <1>4. \A b \in Scopes : p.at = b => Found(p, n, s, b)
    BY <1>1, <1>3 DEF Found
  <1> QED
    BY <1>1, <1>3, <1>4 DEF Goes, Done

\* The file is open.
LEMMA OpenItem ==
  ASSUME TypeInv, WholeInv, QuietInv, NEW r \in Requests, NEW n \in ItemNames, NEW s \in Scopes, NEW a \in Scopes,
         ItemHere(r, n, s, a), InodeAt(a, percentEncode(n)) # 0, Set(r, Open(req[r], percentEncode(n)))
  PROVE  Goes(r, n, s)
PROOF
  <1> DEFINE q == req[r]
             f == percentEncode(n)
             p == Open(q, f)
  <1>1. IsRequest(q) /\ Busy(q) /\ q.gone = 0 /\ q.at = a /\ f \in FileNames /\ q.op = "get" /\ Found(q, n, s, a)
    BY ItemReads DEF ItemHere
  <1>2. /\ IsRequest(p) /\ Same(q, p) /\ p.pc = "read"
        /\ p.fd = InodeAt(q.at, f) /\ p.fd <= Len(inode) /\ p.seen = inode[p.fd].time
        /\ p.at = q.at /\ p.first = q.first /\ p.data = q.data
    BY <1>1, OpenFacts
  <1>3. req' = [req EXCEPT ![r] = p]
    BY DEF Set
  <1> HIDE DEF p, q, f
  <1>4. \A b \in Scopes : p.at = b => Found(p, n, s, b)
    BY <1>1, <1>2 DEF Found, Same, f
  <1> QED
    BY <1>2, <1>3, <1>4 DEF Goes, Done, q

\* Nothing at this scope, and no policy: on to the next broader one.
LEMMA BroaderItem ==
  ASSUME TypeInv, WholeInv, QuietInv, NEW r \in Requests, NEW n \in ItemNames, NEW s \in Scopes, NEW a \in Scopes,
         ItemHere(r, n, s, a), InodeAt(a, percentEncode(n)) = 0, req[r].pc = "start", policy # "override",
         NEW b, b = getNextBroadestScope(a), b # 0, Set(r, [req[r] EXCEPT !.at = b])
  PROVE  Goes(r, n, s)
PROOF
  <1> DEFINE q == req[r]
             p == [q EXCEPT !.at = b]
  <1>1. IsRequest(q) /\ q.at = a /\ q.scope = s /\ a \in s .. Plugin /\ store[a][n] = NotFound /\ Found(q, n, s, a)
    BY ItemReads DEF ItemHere
  <1>2. b = a + 1 /\ b \in s .. Plugin /\ b \in Scopes /\ s .. Plugin \subseteq Scopes /\ \A t \in Scopes : t \in Nat
    BY <1>1, ScopeOrder DEF getNextBroadestScope
  <1>3. LET z == [q EXCEPT !.at = b] IN
        IsRequest(z) /\ Same(q, z) /\ z.pc = "start" /\ z.fd = q.fd /\ z.at = b /\ z.first = q.first /\ z.data = q.data
    BY <1>1, <1>2, ScopeFacts
  <1>4. req' = [req EXCEPT ![r] = p]
    BY DEF Set
  <1>5. IsRequest(p) /\ Same(q, p) /\ p.pc = "start" /\ p.at = b
    BY <1>3
  <1> HIDE DEF p, q
  <1>6. \A t \in s .. Plugin : t < b => t < a \/ t = a
    BY <1>2
  <1>7. Found(p, n, s, b)
    BY <1>1, <1>5, <1>6 DEF Found, Same
  <1> QED
    BY <1>4, <1>5, <1>7 DEF Goes, Done, q

LEMMA AnswerItem ==
  ASSUME TypeInv, WholeInv, QuietInv, NEW r \in Requests, NEW n \in ItemNames, NEW s \in Scopes, NEW a \in Scopes,
         ItemHere(r, n, s, a), NEW code, NEW data, Set(r, Answer(req[r], code, data)),
         data = req[r].wanted, code = IF req[r].wanted = NotFound THEN 204 ELSE 200
  PROVE  Goes(r, n, s)
PROOF
  <1> DEFINE q == req[r]
             p == Answer(q, code, data)
  <1>1. IsRequest(q) /\ Busy(q) /\ q.gone = 0
    BY ItemReads DEF ItemHere
  <1>2. p.pc = "done" /\ Right(p)
    BY <1>1, AnswerRight
  <1>3. req' = [req EXCEPT ![r] = p]
    BY DEF Set
  <1> HIDE DEF p, q
  <1> QED
    BY <1>2, <1>3 DEF Goes, Busy, q

LEMMA getJsonForAggregationNoneAsyncItem ==
  ASSUME TypeInv, WholeInv, QuietInv, NEW r \in Requests, NEW n \in ItemNames, NEW s \in Scopes, NEW a \in Scopes,
         ItemHere(r, n, s, a), getJsonForAggregationNoneAsync(r)
  PROVE  Goes(r, n, s)
PROOF
  <1> DEFINE q == req[r]
             f == percentEncode(n)
             i == InodeAt(a, percentEncode(n))
  <1>1. /\ IsRequest(q) /\ q.at = a /\ q.name = n /\ a \in s .. Plugin /\ StoreType /\ Found(q, n, s, a)
        /\ i = 0 <=> store[a][n] = NotFound
    BY ItemReads DEF ItemHere
  <1>0. q.pc = "read" => Readings(q) = {store[a][n]} /\ store[a][n] \in Bodies
    BY ItemReads DEF ItemHere
  <1>2. policy = "none"
    BY DEF getJsonForAggregationNoneAsync
  <1>3. q.wanted = Plain(n, s) /\ \A t \in s .. Plugin : t < a => store[t][n] = NotFound
    BY <1>1, <1>2 DEF Found
  <1>4. \/ /\ q.pc = "start"
           /\ \/ i # 0 /\ Set(r, Open(q, f))
              \/ /\ i = 0 /\ getNextBroadestScope(a) # 0
                 /\ Set(r, [q EXCEPT !.at = getNextBroadestScope(a)])
              \/ i = 0 /\ getNextBroadestScope(a) = 0 /\ Set(r, Answer(q, 204, NotFound))
        \/ q.pc = "read" /\ \E data \in Readings(q) : Set(r, Answer(q, 200, data))
    BY <1>1 DEF getJsonForAggregationNoneAsync
  <1>5. CASE i # 0 /\ Set(r, Open(q, f))
    BY <1>5, OpenItem
  <1>6. CASE q.pc = "start" /\ i = 0 /\ getNextBroadestScope(a) # 0
             /\ Set(r, [q EXCEPT !.at = getNextBroadestScope(a)])
    <2> DEFINE b == getNextBroadestScope(a)
    <2>1. b # 0 /\ Set(r, [q EXCEPT !.at = b])
      BY <1>6
    <2> HIDE DEF b
    <2>2. b = getNextBroadestScope(a)
      BY DEF b
    <2> QED
      BY <1>2, <1>6, <2>1, <2>2, BroaderItem
  <1>7. CASE i = 0 /\ getNextBroadestScope(a) = 0 /\ Set(r, Answer(q, 204, NotFound))
    <2>1. a = Plugin
      BY <1>7, ScopeOrder DEF getNextBroadestScope
    <2>2. q.wanted = NotFound
      BY <1>1, <1>3, <1>7, <2>1, FirstIs
    <2> DEFINE c == 204
    <2>3. Set(r, Answer(q, c, NotFound)) /\ c = IF q.wanted = NotFound THEN 204 ELSE 200
      BY <1>7, <2>2
    <2> HIDE DEF c
    <2> QED
      BY <2>2, <2>3, AnswerItem
  <1>8. CASE q.pc = "read" /\ \E data \in Readings(q) : Set(r, Answer(q, 200, data))
    <2>1. PICK data \in {store[a][n]} : Set(r, Answer(q, 200, data))
      BY <1>0, <1>8
    <2>2. store[a][n] # NotFound
      BY <1>0, <1>8, ObjectFacts
    <2>3. q.wanted = store[a][n] /\ q.wanted # NotFound
      BY <1>1, <1>3, <2>2, FirstIs
    <2> DEFINE c == 200
    <2>4. Set(r, Answer(q, c, data)) /\ c = (IF q.wanted = NotFound THEN 204 ELSE 200) /\ data = q.wanted
      BY <2>1, <2>3
    <2> HIDE DEF c
    <2> QED
      BY <2>4, AnswerItem
  <1> QED
    BY <1>4, <1>5, <1>6, <1>7, <1>8

LEMMA getPathForAggregationNoneAsyncItem ==
  ASSUME TypeInv, WholeInv, QuietInv, NEW r \in Requests, NEW n \in ItemNames, NEW s \in Scopes, NEW a \in Scopes,
         ItemHere(r, n, s, a), getPathForAggregationNoneAsync(r)
  PROVE  Goes(r, n, s)
PROOF
  <1> DEFINE q == req[r]
             i == InodeAt(a, percentEncode(n))
  <1>1. /\ IsRequest(q) /\ q.at = a /\ q.name = n /\ a \in s .. Plugin /\ StoreType /\ Found(q, n, s, a)
        /\ i = 0 <=> store[a][n] = NotFound
        /\ i # 0 => inode[i].text = store[a][n]
        /\ Fields \subseteq DOMAIN q
    BY ItemReads DEF ItemHere, IsRequest
  <1>2. policy = "binary"
    BY DEF getPathForAggregationNoneAsync
  <1>3. /\ q.wanted = Plain(n, s) /\ \A t \in s .. Plugin : t < a => store[t][n] = NotFound
        /\ q.pc = "send" => store[a][n] # NotFound
    BY <1>1, <1>2 DEF Found
  <1>4. \/ q.pc = "send" /\ i = 0
        \/ i # 0 /\ Set(r, Answer(q, 200, inode[i].text))
        \/ i # 0 /\ Set(r, [q EXCEPT !.pc = "send"])
        \/ /\ q.pc = "start" /\ i = 0 /\ getNextBroadestScope(a) # 0
           /\ Set(r, [q EXCEPT !.at = getNextBroadestScope(a)])
        \/ i = 0 /\ getNextBroadestScope(a) = 0 /\ Set(r, Answer(q, 204, NotFound))
    BY <1>1 DEF getPathForAggregationNoneAsync
  <1>5. CASE i # 0 /\ Set(r, Answer(q, 200, inode[i].text))
    <2>1. q.wanted = store[a][n] /\ q.wanted # NotFound
      BY <1>1, <1>3, <1>5, FirstIs
    <2> DEFINE c == 200
               data == inode[i].text
    <2>2. Set(r, Answer(q, c, data)) /\ c = (IF q.wanted = NotFound THEN 204 ELSE 200) /\ data = q.wanted
      BY <1>1, <1>5, <2>1
    <2> HIDE DEF c, data
    <2> QED
      BY <2>2, AnswerItem
  <1>6. CASE i # 0 /\ Set(r, [q EXCEPT !.pc = "send"])
    <2> DEFINE p == [q EXCEPT !.pc = "send"]
    <2>1. req' = [req EXCEPT ![r] = p] /\ store[a][n] # NotFound
      BY <1>1, <1>6 DEF Set
    <2> HIDE DEF q
    <2>2. p.pc = "send" /\ p.at = q.at /\ p.wanted = q.wanted
      BY <1>1 DEF Fields
    <2> HIDE DEF p
    <2>3. \A b \in Scopes : p.at = b => Found(p, n, s, b)
      BY <1>1, <1>2, <2>1, <2>2 DEF Found
    <2> QED
      BY <2>1, <2>2, <2>3 DEF Goes, Done, q
  <1>7. CASE /\ q.pc = "start" /\ i = 0 /\ getNextBroadestScope(a) # 0
             /\ Set(r, [q EXCEPT !.at = getNextBroadestScope(a)])
    <2> DEFINE b == getNextBroadestScope(a)
    <2>1. b # 0 /\ Set(r, [q EXCEPT !.at = b])
      BY <1>7
    <2> HIDE DEF b
    <2>2. b = getNextBroadestScope(a)
      BY DEF b
    <2> QED
      BY <1>2, <1>7, <2>1, <2>2, BroaderItem
  <1>8. CASE i = 0 /\ getNextBroadestScope(a) = 0 /\ Set(r, Answer(q, 204, NotFound))
    <2>1. a = Plugin
      BY <1>8, ScopeOrder DEF getNextBroadestScope
    <2>2. q.wanted = NotFound
      BY <1>1, <1>3, <1>8, <2>1, FirstIs
    <2> DEFINE c == 204
    <2>3. Set(r, Answer(q, c, NotFound)) /\ c = IF q.wanted = NotFound THEN 204 ELSE 200
      BY <1>8, <2>2
    <2> HIDE DEF c
    <2> QED
      BY <2>2, <2>3, AnswerItem
  <1> QED
    BY <1>1, <1>3, <1>4, <1>5, <1>6, <1>7, <1>8

\* Under override: what has been found at this scope.
LEMMA AggregatedItem ==
  ASSUME TypeInv, WholeInv, QuietInv, NEW r \in Requests, NEW n \in ItemNames, NEW s \in Scopes, NEW a \in Scopes,
         ItemHere(r, n, s, a), policy = "override", NEW d, d = store[a][n], Set(r, Aggregated(req[r], d))
  PROVE  Goes(r, n, s)
PROOF
  <1> DEFINE q == req[r]
             first == q.first /\ d = NotFound
             all == IF d = NotFound \/ (d = NoData /\ ~q.first) THEN q.data
                    ELSE IF q.first THEN d ELSE overrideJsonProperties(q.data, d)
  <1>1. IsRequest(q) /\ Busy(q) /\ q.gone = 0 /\ q.at = a /\ q.scope = s /\ a \in s .. Plugin /\ StoreType
    BY ItemReads DEF ItemHere
  <1>2. q.wanted = Overridden(n, s) /\ Gathered(n, a + 1, q.first, q.data)
    BY DEF ItemHere, Found
  <1>3. q.first \in BOOLEAN
    BY <1>1 DEF IsRequest
  <1>4. ~(d # NotFound /\ ~q.first /\ d # NoData /\ q.data = NoData) /\ Gathered(n, a, first, all)
    BY <1>1, <1>2, <1>3, GatheredStep
  <1>5. \/ a # s /\ Set(r, Narrower(q, first, all))
        \/ a = s /\ first /\ Set(r, Answer(q, 204, NotFound))
        \/ a = s /\ ~first /\ Set(r, Answer(q, 200, all))
    BY <1>1, <1>4, AggregatedCases
  <1>6. first \in BOOLEAN
    OBVIOUS
  <1> HIDE DEF first, all
  <1>7. CASE a # s /\ Set(r, Narrower(q, first, all))
    <2> DEFINE p == Narrower(q, first, all)
    <2>1. IsRequest(p) /\ Same(q, p) /\ p.pc = "start" /\ p.at = a - 1 /\ p.first = first /\ p.data = all
      BY <1>1, <1>6, <1>7, NarrowerFacts
    <2>2. req' = [req EXCEPT ![r] = p]
      BY <1>7 DEF Set
    <2> HIDE DEF p, q
    <2>3. ASSUME NEW b \in Scopes, p.at = b PROVE Found(p, n, s, b)
      <3>1. b + 1 = a
        BY <2>1, <2>3, ScopeOrder
      <3>2. Gathered(n, b + 1, p.first, p.data)
        BY <1>4, <2>1, <3>1
      <3> QED
        BY <1>2, <2>1, <3>2 DEF Found, Same
    <2> QED
      BY <2>1, <2>2, <2>3 DEF Goes, Done, q
  <1>8. CASE a = s /\ first /\ Set(r, Answer(q, 204, NotFound))
    <2>1. Having(n, s) = {}
      BY <1>4, <1>8 DEF Gathered
    <2>2. q.wanted = NotFound
      BY <1>2, <2>1, OverriddenIs
    <2> DEFINE c == 204
    <2>3. Set(r, Answer(q, c, NotFound)) /\ c = IF q.wanted = NotFound THEN 204 ELSE 200
      BY <1>8, <2>2
    <2> HIDE DEF c
    <2> QED
      BY <2>2, <2>3, AnswerItem
  <1>9. CASE a = s /\ ~first /\ Set(r, Answer(q, 200, all))
    <2>1. Having(n, s) # {} /\ all = q.wanted
      BY <1>2, <1>4, <1>9 DEF Gathered
    <2>2. PICK b \in Bodies : q.wanted \in [DOMAIN b -> Values]
      BY <1>1, <1>2, <2>1, OverriddenType
    <2>3. q.wanted # NotFound
      BY <2>2, ObjectFacts
    <2> DEFINE c == 200
    <2>4. Set(r, Answer(q, c, all)) /\ c = IF q.wanted = NotFound THEN 204 ELSE 200
      BY <1>9, <2>3
    <2> HIDE DEF c
    <2> QED
      BY <2>1, <2>4, AnswerItem
  <1> QED
    BY <1>5, <1>7, <1>8, <1>9

LEMMA getAggregatedJsonAsyncItem ==
  ASSUME TypeInv, WholeInv, QuietInv, NEW r \in Requests, NEW n \in ItemNames, NEW s \in Scopes, NEW a \in Scopes,
         ItemHere(r, n, s, a), getAggregatedJsonAsync(r)
  PROVE  Goes(r, n, s)
PROOF
  <1> DEFINE q == req[r]
             i == InodeAt(a, percentEncode(n))
  <1>1. q.at = a /\ q.name = n /\ (i = 0 <=> store[a][n] = NotFound)
    BY ItemReads DEF ItemHere
  <1>2. q.pc = "read" => Readings(q) = {store[a][n]}
    BY ItemReads, ZenonT(60) DEF ItemHere
  <1>3. policy = "override"
    BY DEF getAggregatedJsonAsync
  <1>4. \/ i # 0 /\ Set(r, Open(q, percentEncode(n)))
        \/ i = 0 /\ Set(r, Aggregated(q, NotFound))
        \/ q.pc = "read" /\ \E data \in Readings(q) : Set(r, Aggregated(q, data))
    BY <1>1 DEF getAggregatedJsonAsync
  <1>5. CASE i # 0 /\ Set(r, Open(q, percentEncode(n)))
    BY <1>5, OpenItem
  <1>6. ASSUME Set(r, Aggregated(q, store[a][n])) PROVE Goes(r, n, s)
    <2> DEFINE d == store[a][n]
    <2>1. Set(r, Aggregated(q, d))
      BY <1>6
    <2> HIDE DEF d
    <2>2. d = store[a][n]
      BY DEF d
    <2> QED
      BY <1>3, <2>1, <2>2, AggregatedItem
  <1> QED
    BY <1>1, <1>2, <1>4, <1>5, <1>6

-----------------------------------------------------------------------------
(* What is stored along the chain                                          *)

\* It depends on what is stored under that name only.
LEMMA ChainKept ==
  ASSUME StoreType, NEW n \in ItemNames, NEW s \in Nat, s .. Plugin \subseteq Scopes,
         \A t \in Scopes : store'[t][n] = store[t][n]
  PROVE  /\ Having(n, s)' = Having(n, s) /\ Plain(n, s)' = Plain(n, s)
         /\ Overridden(n, s)' = Overridden(n, s) /\ Merged(n, s)' = Merged(n, s)
PROOF
  <1> DEFINE H == Having(n, s)
  <1>1. H \subseteq Scopes /\ H' = H
    BY DEF Having
  <1>2. \A S \in SUBSET Scopes : S # {} => Nearest(S) \in Scopes /\ Widest(S) \in Scopes
    BY Ends5
  <1> DEFINE L == Nearest(H)
  <1>3. Plain(n, s) = (IF H = {} THEN NotFound ELSE store[L][n])
        /\ Plain(n, s)' = (IF H' = {} THEN NotFound ELSE store'[L'][n])
    BY DEF Plain
  <1>4. L' = L
    BY <1>1 DEF Nearest
  <1>5. Plain(n, s)' = Plain(n, s)
    BY <1>1, <1>2, <1>3, <1>4
  <1>6. ASSUME NEW k PROVE Property(n, s, k)' = Property(n, s, k)
    <2> DEFINE some == {t \in H : store[t][n][k] \notin {Absent, Falsy}}
               any == {t \in H : store[t][n][k] \notin {Absent}}
    <2>1. some' = some /\ any' = any /\ some \subseteq Scopes /\ any \subseteq Scopes
      BY <1>1
    <2>2. /\ Property(n, s, k) = IF some # {} THEN store[Nearest(some)][n][k]
                                 ELSE IF any # {} THEN store[Widest(any)][n][k] ELSE Absent
          /\ Property(n, s, k)' = IF some' # {} THEN store'[Nearest(some')][n][k]
                                  ELSE IF any' # {} THEN store'[Widest(any')][n][k] ELSE Absent
      BY DEF Property
    <2> HIDE DEF some, any
    <2> QED
      BY <1>2, <2>1, <2>2
  <1>7. /\ Overridden(n, s) = IF H = {} THEN NotFound ELSE [k \in DOMAIN Plain(n, s) |-> Property(n, s, k)]
        /\ Overridden(n, s)' = IF H' = {} THEN NotFound ELSE [k \in DOMAIN Plain(n, s)' |-> Property(n, s, k)']
    BY DEF Overridden, PerProperty
  <1>8. ASSUME NEW k PROVE Lists(n, s, k)' = Lists(n, s, k) /\ Joined(n, s, k)' = Joined(n, s, k)
    <2> DEFINE scalars == {t \in H : store[t][n][k] \in Scalars \ {Absent, Falsy}}
               l == {t \in H : store[t][n][k] \notin Scalars /\ \A u \in scalars : t < u}
               e == [t \in Scopes |-> IF t \in l THEN store[t][n][k] ELSE <<>>]
    <2>1. scalars' = scalars
      BY <1>1
    <2> HIDE DEF scalars
    <2>2. l' = l
      BY <1>1, <2>1
    <2>3. Lists(n, s, k) = l /\ Lists(n, s, k)' = l'
      BY DEF Lists, scalars
    <2> HIDE DEF l
    <2>4. e' = e
      BY <2>2
    <2>5. Joined(n, s, k) = FlattenSeq(e) /\ Joined(n, s, k)' = FlattenSeq(e')
      BY <2>3 DEF Joined
    <2> QED
      BY <2>2, <2>3, <2>4, <2>5
  <1> DEFINE v(k) == IF Lists(n, s, k) = {} THEN Property(n, s, k) ELSE Joined(n, s, k)
  <1>9. /\ Merged(n, s) = IF H = {} THEN NotFound ELSE [k \in DOMAIN Plain(n, s) |-> v(k)]
        /\ Merged(n, s)' = IF H' = {} THEN NotFound ELSE [k \in DOMAIN Plain(n, s)' |-> v(k)']
    BY DEF Merged, PerProperty
  <1>10. ASSUME NEW k PROVE v(k)' = v(k)
    BY <1>6, <1>8
  <1> HIDE DEF v
  <1>11. Merged(n, s)' = Merged(n, s)
    BY <1>1, <1>5, <1>9, <1>10
  <1> QED
    BY <1>1, <1>5, <1>6, <1>7, <1>11

-----------------------------------------------------------------------------
(* The steps of the reads                                                  *)

\* Where a read starts, and what it is to give.
LEMMA InputAt ==
  ASSUME TypeInv, NEW q \in Inputs
  PROVE  /\ q.op = "get" => q.at = IF policy = "override" THEN Plugin ELSE q.scope
         /\ q.op = "getFolder" => q.at = Plugin
PROOF
  <1> DEFINE n0 == CHOOSE n \in ItemNames : TRUE
             b0 == CHOOSE b \in Bodies : TRUE
             at(rq) == [rq EXCEPT !.at = IF rq.op = "get" /\ policy # "override" THEN rq.scope ELSE Plugin]
             timed(op, s, n, b) == {[New(op, s, n, b) EXCEPT !.lastmod = t] : t \in Times(s, n)}
             tree(s) == {[New("deleteTree", s, n0, b0) EXCEPT !.lastmod = t] : t \in {0} \cup dir[s]}
  <1>1. Fresh(q)
    BY InputFacts
  <1>2. ASSUME NEW op \in {"put", "delete"}, NEW s, NEW n, NEW b, q \in timed(op, s, n, b) PROVE q.op = op
    <2>1. PICK t : q = [New(op, s, n, b) EXCEPT !.lastmod = t]
      BY <1>2
    <2> QED
      BY <2>1 DEF New
  <1>3. ASSUME NEW s, q \in tree(s) PROVE q.op = "deleteTree"
    <2>1. PICK t : q = [New("deleteTree", s, n0, b0) EXCEPT !.lastmod = t]
      BY <1>3
    <2> QED
      BY <2>1 DEF New
  <1>4. ASSUME NEW op \in {"get", "getFolder"}, NEW s, NEW n, q = at(New(op, s, n, b0))
        PROVE  /\ q.op = op /\ q.scope = s
               /\ q.at = IF op = "get" /\ policy # "override" THEN s ELSE Plugin
    <2> DEFINE z == New(op, s, n, b0)
               a == IF z.op = "get" /\ policy # "override" THEN z.scope ELSE Plugin
    <2>1. z.op = op /\ z.scope = s /\ "at" \in DOMAIN z /\ q = [z EXCEPT !.at = a]
      BY <1>4 DEF New
    <2> HIDE DEF z
    <2>2. q.op = op /\ q.scope = s /\ q.at = a
      BY <2>1
    <2> QED
      BY <2>1, <2>2
  <1>5. ASSUME NEW op, NEW s, NEW n, q = New(op, s, n, b0) PROVE q.op = op
    BY <1>5 DEF New
  <1>6. Inputs = (UNION {timed("put", s, n, b) : s \in WritableScopes, n \in ItemNames, b \in Bodies})
      \cup (UNION {timed("delete", s, n, b0) : s \in WritableScopes, n \in ItemNames})
      \cup {at(New("get", s, n, b0)) : s \in {User, Instance, Plugin}, n \in ItemNames}
      \cup {New("allowed", s, n0, b0) : s \in WritableScopes}
      \cup {New("list", s, n0, b0) : s \in WritableScopes}
      \cup (UNION {tree(s) : s \in WritableScopes})
      \cup {New("deleteFolder", s, n0, b0) : s \in WritableScopes}
      \cup {at(New("getFolder", s, n0, b0)) : s \in WritableScopes}
    BY DEF Inputs
  <1> HIDE DEF timed, tree, at, b0, n0
  <1>7. \/ \E s \in WritableScopes, n \in ItemNames, b \in Bodies : q \in timed("put", s, n, b)
        \/ \E s \in WritableScopes, n \in ItemNames : q \in timed("delete", s, n, b0)
        \/ \E s \in {User, Instance, Plugin}, n \in ItemNames : q = at(New("get", s, n, b0))
        \/ \E s \in WritableScopes : q = New("allowed", s, n0, b0)
        \/ \E s \in WritableScopes : q = New("list", s, n0, b0)
        \/ \E s \in WritableScopes : q \in tree(s)
        \/ \E s \in WritableScopes : q = New("deleteFolder", s, n0, b0)
        \/ \E s \in WritableScopes : q = at(New("getFolder", s, n0, b0))
    BY <1>6
  <1>8. CASE \E s \in {User, Instance, Plugin}, n \in ItemNames : q = at(New("get", s, n, b0))
    <2>1. PICK s \in {User, Instance, Plugin}, n \in ItemNames : q = at(New("get", s, n, b0))
      BY <1>8
    <2>2. q.op = "get" /\ q.scope = s /\ q.at = IF policy # "override" THEN s ELSE Plugin
      BY <1>4, <2>1
    <2> QED
      BY <2>2
  <1>9. CASE \E s \in WritableScopes : q = at(New("getFolder", s, n0, b0))
    <2>1. PICK s \in WritableScopes : q = at(New("getFolder", s, n0, b0))
      BY <1>9
    <2>2. q.op = "getFolder" /\ q.at = Plugin
      BY <1>4, <2>1
    <2> QED
      BY <2>2
  <1>10. CASE q.op \notin {"get", "getFolder"}
    BY <1>10
  <1> QED
    BY <1>2, <1>3, <1>5, <1>7, <1>8, <1>9, <1>10

LEMMA SendReads ==
  ASSUME TypeInv, NEW r \in Requests, Send(r)
  PROVE  LET p == req'[r] IN
         /\ p.op = "get" => /\ p.at = IF policy = "override" THEN Plugin ELSE p.scope
                            /\ p.wanted = IF policy = "override" THEN Overridden(p.name, p.scope)
                                          ELSE Plain(p.name, p.scope)
         /\ p.op = "allowed" => p.wanted = Merged(p.name, p.scope)
         /\ p.op = "getFolder" => p.at = Plugin
         /\ p.op \in {"list", "getFolder"} => \E q \in Inputs :
              p.op = q.op /\ p.scope = q.scope /\ p.wanted = WantedBy(q)
PROOF
  <1>1. PICK q \in Inputs :
          LET clash(x) == Busy(req[x]) /\ Clash(req[x], q)
              broken == \E s \in Scopes, n \in Names(q) : InodeAt(s, percentEncode(n)) \in torn
          IN  req' = [x \in Requests |->
                IF x = r
                THEN [q EXCEPT !.wanted = WantedBy(q),
                               !.quiet = ~broken /\ \A y \in Requests : ~clash(y)]
                ELSE IF clash(x) THEN [req[x] EXCEPT !.quiet = FALSE] ELSE req[x]]
    BY DEF Send
  <1> DEFINE broken == \E s \in Scopes, n \in Names(q) : InodeAt(s, percentEncode(n)) \in torn
             u == ~broken /\ \A y \in Requests : ~(Busy(req[y]) /\ Clash(req[y], q))
             w == WantedBy(q)
             p == [q EXCEPT !.wanted = w, !.quiet = u]
  <1>2. req'[r] = p
    BY <1>1
  <1>3. Fields \subseteq DOMAIN q
    BY InputFacts DEF Fresh
  <1>4. q.op = "get" => w = IF policy = "override" THEN Overridden(q.name, q.scope) ELSE Plain(q.name, q.scope)
    BY Zenon DEF WantedBy
  <1>6. q.op = "allowed" => w = Merged(q.name, q.scope)
    BY Zenon DEF WantedBy
  <1> HIDE DEF u, w
  <1>5. p.op = q.op /\ p.at = q.at /\ p.scope = q.scope /\ p.name = q.name /\ p.wanted = w
    BY <1>3 DEF Fields
  <1> HIDE DEF p
  <1> QED
    BY <1>2, <1>4, <1>5, <1>6, InputAt DEF w

\* Which handler serves which read.
Handles(r) ==
  LET op == req[r].op IN
  \/ determineResource(r)
  \/ /\ op = "get" => \/ getJsonForAggregationNoneAsync(r) \/ getPathForAggregationNoneAsync(r)
                      \/ getAggregatedJsonAsync(r)
     /\ op = "allowed" => getAllowedPlugins(r)
     /\ op = "list" => getFileListing(r)
     /\ op = "getFolder" => \/ getFileListingAsync(r) \/ configFileVisitorAsync(r)
                            \/ configFileOverrideVisitor(r)

LEMMA StepHandles ==
  ASSUME TypeInv, [Next]_vars
  PROVE  UNCHANGED vars \/ \E r \in Requests : Send(r) \/ (Works(r) /\ Handles(r))
PROOF
  <1> SUFFICES ASSUME Next PROVE \E r \in Requests : Send(r) \/ (Works(r) /\ Handles(r))
    OBVIOUS
  <1>1. PICK r \in Requests :
          \/ Send(r)
          \/ /\ Busy(req[r])
             /\ \/ determineResource(r)
                \/ getJsonForAggregationNoneAsync(r) \/ getPathForAggregationNoneAsync(r)
                \/ getAggregatedJsonAsync(r) \/ getAllowedPlugins(r) \/ getFileListing(r)
                \/ getFileListingAsync(r) \/ configFileVisitorAsync(r) \/ configFileOverrideVisitor(r)
                \/ restCheckModifiedTimestamp(r) \/ openForWriting(r) \/ writeCallback(r) \/ putDone(r)
                \/ deleteFile(r) \/ checkResourceModifiedTimestamp(r) \/ deleteFilesInFolder(r)
    BY DEF Next
  <1>2. CASE Send(r)
    BY <1>2
  <1>3. CASE Busy(req[r]) /\ determineResource(r)
    BY <1>3 DEF Works, Handles
  <1>4. CASE /\ Busy(req[r])
             /\ \/ getJsonForAggregationNoneAsync(r) \/ getPathForAggregationNoneAsync(r)
                \/ getAggregatedJsonAsync(r)
    <2>1. req[r].op = "get"
      BY <1>4 DEF getJsonForAggregationNoneAsync, getPathForAggregationNoneAsync, getAggregatedJsonAsync
    <2>2. Reads(r)
      BY <1>4, ReadSteps
    <2> QED
      BY <1>4, <2>1, <2>2 DEF Works, Handles
  <1>5. CASE Busy(req[r]) /\ getAllowedPlugins(r)
    <2>1. req[r].op = "allowed"
      BY <1>5 DEF getAllowedPlugins
    <2>2. Reads(r)
      BY <1>5, ReadSteps
    <2> QED
      BY <1>5, <2>1, <2>2 DEF Works, Handles
  <1>6. CASE Busy(req[r]) /\ getFileListing(r)
    <2>1. req[r].op = "list"
      BY <1>6 DEF getFileListing
    <2>2. Reads(r)
      BY <1>6, ReadSteps
    <2> QED
      BY <1>6, <2>1, <2>2 DEF Works, Handles
  <1>7. CASE /\ Busy(req[r])
             /\ getFileListingAsync(r) \/ configFileVisitorAsync(r) \/ configFileOverrideVisitor(r)
    <2>1. req[r].op = "getFolder"
      BY <1>7, getFileListingAsyncCases, configFileVisitorAsyncCases DEF configFileOverrideVisitor
    <2>2. Reads(r)
      BY <1>7, ReadSteps
    <2> QED
      BY <1>7, <2>1, <2>2 DEF Works, Handles
  <1>8. CASE /\ Busy(req[r])
             /\ restCheckModifiedTimestamp(r) \/ openForWriting(r) \/ writeCallback(r) \/ putDone(r)
                \/ checkResourceModifiedTimestamp(r)
    <2>1. req[r].op \notin {"get", "allowed", "list", "getFolder"}
      BY <1>8 DEF restCheckModifiedTimestamp, openForWriting, writeCallback, putDone,
         checkResourceModifiedTimestamp
    <2> QED
      BY <1>8, <2>1 DEF Works, Handles
  <1>9. CASE Busy(req[r]) /\ (deleteFile(r) \/ deleteFilesInFolder(r))
    <2>1. req[r].op \notin {"get", "allowed", "list", "getFolder"}
      BY <1>9 DEF deleteFile, deleteFilesInFolder, Writer
    <2>2. Deletes(r)
      BY <1>9, DeleteSteps
    <2> QED
      BY <1>9, <2>1, <2>2 DEF Works, Handles
  <1> QED
    BY <1>1, <1>2, <1>3, <1>4, <1>5, <1>6, <1>7, <1>8, <1>9

LEMMA WorksMoves ==
  ASSUME TypeInv, NEW r \in Requests, Works(r)
  PROVE  \E p : Moves(r, p)
  BY PutSteps

LEMMA PolicyKept ==
  ASSUME NEW r \in Requests, Works(r)
  PROVE  policy' = policy
PROOF
  <1>1. determineResource(r) => policy' = policy
    BY DEF determineResource
  <1>2. Reads(r) \/ restCheckModifiedTimestamp(r) \/ putDone(r) \/ checkResourceModifiedTimestamp(r)
        => policy' = policy
    BY DEF Reads, restCheckModifiedTimestamp, putDone, checkResourceModifiedTimestamp, ReadOnly
  <1>3. openForWriting(r) \/ writeCallback(r) \/ Deletes(r) => policy' = policy
    BY DEF openForWriting, writeCallback, Deletes
  <1> QED
    BY <1>1, <1>2, <1>3 DEF Works

\* What a step does to a request that is not its own.
LEMMA WorksOthers ==
  ASSUME TypeInv, NEW r \in Requests, Works(r)
  PROVE  /\ Busy(req[r]) /\ IsRequest(req'[r]) /\ Same(req[r], req'[r])
         /\ \A x \in Requests \ {r} : req'[x] = req[x]
  BY WorksMoves DEF Moves, TypeInv, RequestsType, Works

\* A GET stays where it is as long as its files do.
LEMMA ItemSame ==
  ASSUME StoreType, NEW q, NEW n \in ItemNames, NEW s \in Scopes, NEW a \in Scopes, policy' = policy,
         \A t \in Scopes : store'[t][n] = store[t][n], LeftAlone(getPathForScope(a, percentEncode(n))),
         Found(q, n, s, a)
  PROVE  Found(q, n, s, a)'
PROOF
  <1>1. s \in Nat /\ s .. Plugin \subseteq Scopes /\ a + 1 \in Nat /\ a + 1 .. Plugin \subseteq Scopes
    BY ScopeOrder
  <1>2. Plain(n, s)' = Plain(n, s) /\ Overridden(n, s)' = Overridden(n, s)
    BY <1>1, ChainKept
  <1> DEFINE b == a + 1
  <1>3. Having(n, b)' = Having(n, b) /\ Overridden(n, b)' = Overridden(n, b)
    <2>1. b \in Nat /\ b .. Plugin \subseteq Scopes
      BY <1>1
    <2> HIDE DEF b
    <2> QED
      BY <2>1, ChainKept
  <1> DEFINE u == getPathForScope(a, percentEncode(n))
  <1>4. link'[u] = link[u] /\ (link[u] # 0 => inode'[link[u]] = inode[link[u]])
    BY DEF LeftAlone
  <1>5. InodeAt(a, percentEncode(n)) = link[u] /\ InodeAt(a, percentEncode(n))' = link'[u]
    BY DEF InodeAt
  <1>6. s .. Plugin \subseteq Scopes
    BY <1>1
  <1> QED
    BY <1>2, <1>3, <1>4, <1>5, <1>6 DEF Found, Gathered

-----------------------------------------------------------------------------
(* The inductive invariant: reads of all items that are left alone         *)

\* The names of the items there are from the scope s on, and what they are.
IsListing(w, s) ==
  w \subseteq FileNames /\ \A n \in ItemNames : percentEncode(n) \in w <=> Having(n, s) # {}
IsTable(w, s) ==
  IF \A n \in ItemNames : Having(n, s) = {} THEN w = NotFound
  ELSE /\ w = [f \in DOMAIN w |-> w[f]] /\ IsListing(DOMAIN w, s)
       /\ \A n \in ItemNames : Having(n, s) # {} => w[percentEncode(n)] = Plain(n, s)

\* Where they were seen.
SeenFrom(t, b) ==
  /\ IsListing(DOMAIN t, b)
  /\ \A n \in ItemNames : Having(n, b) # {} => t[percentEncode(n)] = Having(n, b)

\* A request for all items, or their names, of the scope s, that is left alone,
\* has come to a.
Collected(q, s, a) ==
  /\ IsTable(q.wanted, s)
  /\ q.pc \in {"resolve", "start"} => SeenFrom(q.table, a + 1)
  /\ q.pc \in {"entry", "read"} =>
       /\ SeenFrom(q.table, s) /\ DOMAIN q.data = DOMAIN q.table \ q.entries
       /\ \A n \in ItemNames : percentEncode(n) \in DOMAIN q.data => q.data[percentEncode(n)] = Plain(n, s)
  /\ q.pc = "entry" /\ policy = "override" => q.entries = DOMAIN q.table
  /\ q.pc = "read" => \A f \in FileNames : f = Visited(q) =>
       /\ a = Nearest(q.table[f]) /\ q.fd = InodeAt(a, f) /\ q.fd # 0
       /\ q.seen = inode[q.fd].time
QuietAll(q, s, a) == Busy(q) /\ q.quiet /\ q.scope = s /\ q.at = a
FolderInv ==
  \A r \in Requests, s \in Scopes, a \in Scopes :
    QuietAll(req[r], s, a) =>
      /\ req[r].op = "list" => IsListing(req[r].wanted, s)
      /\ req[r].op = "getFolder" /\ policy # "binary" => Collected(req[r], s, a)

-----------------------------------------------------------------------------
(* GET of all items                                                        *)

LEMMA ListingFacts ==
  /\ \A v, w, s : IsListing(v, s) /\ IsListing(w, s) => v = w
  /\ \A w, s : IsListing(w, s) => w # NotFound
PROOF
  <1>1. ASSUME NEW v, NEW w, NEW s, IsListing(v, s), IsListing(w, s) PROVE v = w
    <2>1. \A f \in FileNames : f \in v <=> f \in w
      BY <1>1 DEF IsListing, FileNames
    <2> QED
      BY <1>1, <2>1 DEF IsListing
  <1> QED
    BY <1>1, NoFileAssumption DEF IsListing

LEMMA TablesEqual ==
  ASSUME NEW s, NEW v, NEW w, IsTable(v, s), IsTable(w, s)
  PROVE  v = w
PROOF
  <1>1. CASE \A n \in ItemNames : Having(n, s) = {}
    BY <1>1 DEF IsTable
  <1>2. CASE ~\A n \in ItemNames : Having(n, s) = {}
    <2>1. /\ v = [f \in DOMAIN v |-> v[f]] /\ IsListing(DOMAIN v, s)
          /\ \A n \in ItemNames : Having(n, s) # {} => v[percentEncode(n)] = Plain(n, s)
      BY <1>2 DEF IsTable
    <2>2. /\ w = [f \in DOMAIN w |-> w[f]] /\ IsListing(DOMAIN w, s)
          /\ \A n \in ItemNames : Having(n, s) # {} => w[percentEncode(n)] = Plain(n, s)
      BY <1>2 DEF IsTable
    <2>3. DOMAIN v = DOMAIN w
      BY <2>1, <2>2, ListingFacts
    <2>4. ASSUME NEW f \in DOMAIN v PROVE v[f] = w[f]
      <3>1. PICK n \in ItemNames : f = percentEncode(n)
        BY <2>1 DEF IsListing, FileNames
      <3> QED
        BY <2>1, <2>2, <3>1 DEF IsListing
    <2> QED
      BY <2>1, <2>2, <2>3, <2>4
  <1> QED
    BY <1>1, <1>2

\* A table is not what stands for no file.
LEMMA TableFound ==
  ASSUME StoreType, NEW s \in Scopes, NEW w, IsTable(w, s), ~\A n \in ItemNames : Having(n, s) = {}
  PROVE  w # NotFound
PROOF
  <1>1. w = [f \in DOMAIN w |-> w[f]] /\ IsListing(DOMAIN w, s)
        /\ \A n \in ItemNames : Having(n, s) # {} => w[percentEncode(n)] = Plain(n, s)
    BY DEF IsTable
  <1>2. ASSUME NEW f \in DOMAIN w PROVE w[f] \in Bodies
    <2>1. PICK n \in ItemNames : f = percentEncode(n)
      BY <1>1 DEF IsListing, FileNames
    <2> QED
      BY <1>1, <2>1, PlainFacts DEF IsListing
  <1>3. w \in [DOMAIN w -> Bodies]
    BY <1>1, <1>2
  <1> QED
    BY <1>1, <1>3, NoFileAssumption DEF IsListing

LEMMA WantedAll ==
  ASSUME NEW q
  PROVE  /\ q.op = "list" => IsListing(WantedBy(q), q.scope)
         /\ q.op = "getFolder" /\ policy # "binary" => IsTable(WantedBy(q), q.scope)
PROOF
  <1> DEFINE s == q.scope
             names == {n \in ItemNames : Having(n, s) # {}}
             files == {percentEncode(n) : n \in names}
             t == [f \in files |-> Plain(CHOOSE n \in names : percentEncode(n) = f, s)]
             w == WantedBy(q)
  <1>1. IsListing(files, s)
    BY NamesApart DEF IsListing, FileNames
  <1>2. q.op = "list" => w = files
    BY Zenon DEF WantedBy
  <1>3. q.op = "getFolder" /\ policy # "binary" => w = IF names = {} THEN NotFound ELSE t
    BY Zenon DEF WantedBy
  <1>4. ASSUME names # {} PROVE IsTable(t, s)
    <2>1. DOMAIN t = files /\ t = [f \in DOMAIN t |-> t[f]]
      OBVIOUS
    <2>2. ASSUME NEW n \in ItemNames, Having(n, s) # {} PROVE t[percentEncode(n)] = Plain(n, s)
      <3> DEFINE m == CHOOSE x \in names : percentEncode(x) = percentEncode(n)
      <3>1. n \in names /\ percentEncode(n) \in files
        BY <2>2
      <3>2. m \in names /\ percentEncode(m) = percentEncode(n)
        BY <3>1
      <3>3. m = n
        BY <3>2, NamesApart
      <3>4. t[percentEncode(n)] = Plain(m, s)
        BY <3>1
      <3> QED
        BY <3>3, <3>4
    <2> HIDE DEF t
    <2> QED
      BY <1>1, <1>4, <2>1, <2>2 DEF IsTable
  <1>5. names = {} => IsTable(NotFound, s)
    BY DEF IsTable
  <1> HIDE DEF w, t, files, names
  <1> QED
    BY <1>1, <1>2, <1>3, <1>4, <1>5 DEF w

AllHere(r, s, a) == QuietAll(req[r], s, a) /\ req[r].op = "getFolder" /\ policy # "binary" /\ Collected(req[r], s, a)

\* What a step makes of such a request.
GoesAll(r, s) ==
  \E p : /\ req' = [req EXCEPT ![r] = p]
         /\ \A b \in Scopes : Busy(p) /\ p.at = b => Collected(p, s, b)
         /\ Done(p) => Right(p)

\* What it finds under any name.
LEMMA FolderReads ==
  ASSUME TypeInv, WholeInv, QuietInv, NEW r \in Requests, NEW s \in Scopes, NEW a \in Scopes,
         QuietAll(req[r], s, a), req[r].op \in {"list", "getFolder"}
  PROVE  LET q == req[r] IN
         /\ IsRequest(q) /\ Busy(q) /\ q.gone = 0 /\ a \in s .. Plugin /\ q.fd <= Len(inode)
         /\ q.scope = s /\ q.at = a /\ StoreType /\ s .. Plugin \subseteq Scopes
         /\ \A t \in Scopes, n \in ItemNames :
              LET i == InodeAt(t, percentEncode(n)) IN
              /\ i = 0 <=> store[t][n] = NotFound
              /\ i # 0 => store[t][n] \in Bodies /\ Parsed(inode[i].text) = store[t][n]
PROOF
  <1> DEFINE q == req[r]
  <1>1. Busy(q) /\ q.quiet /\ q.scope = s /\ q.at = a
    BY DEF QuietAll
  <1>2. IsRequest(q) /\ q.fd <= Len(inode)
    BY <1>1, Sent
  <1>3. q.gone = 0
    BY <1>1, <1>2 DEF IsRequest, Replies, OnFolder, Writer, Busy
  <1>4. Undisturbed(r) /\ ~Writer(q) /\ Names(q) = ItemNames
    BY <1>1 DEF QuietInv, Writer, Names, OnFolder
  <1>5. \A t \in Scopes, n \in ItemNames :
          LET i == InodeAt(t, percentEncode(n)) IN
          /\ i = 0 <=> store[t][n] = NotFound
          /\ i # 0 => store[t][n] \in Bodies /\ Parsed(inode[i].text) = store[t][n]
    BY <1>1, <1>4, QuietReads
  <1>6. StoreType
    BY DEF StoreType, TypeInv, FilesType
  <1>7. a \in s .. Plugin /\ s .. Plugin \subseteq Scopes
    BY <1>1, <1>2, ScopeOrder DEF IsRequest
  <1> QED
    BY <1>1, <1>2, <1>3, <1>5, <1>6, <1>7

LEMMA AnswerAll ==
  ASSUME TypeInv, WholeInv, QuietInv, NEW r \in Requests, NEW s \in Scopes, NEW a \in Scopes,
         AllHere(r, s, a), NEW code, NEW data, Set(r, Answer(req[r], code, data)),
         data = req[r].wanted, code = IF req[r].wanted = NotFound THEN 204 ELSE 200
  PROVE  GoesAll(r, s)
PROOF
  <1> DEFINE q == req[r]
             p == Answer(q, code, data)
  <1>1. IsRequest(q) /\ Busy(q) /\ q.gone = 0
    BY FolderReads DEF AllHere
  <1>2. p.pc = "done" /\ Right(p)
    BY <1>1, AnswerRight
  <1>3. req' = [req EXCEPT ![r] = p]
    BY DEF Set
  <1> HIDE DEF p, q
  <1> QED
    BY <1>2, <1>3 DEF GoesAll, Busy, q

LEMMA determineResourceAll ==
  ASSUME TypeInv, NEW r \in Requests, NEW s \in Scopes, NEW a \in Scopes,
         AllHere(r, s, a), determineResource(r)
  PROVE  GoesAll(r, s)
PROOF
  <1> DEFINE q == req[r]
             p == [q EXCEPT !.pc = "start"]
  <1>1. Busy(q) /\ q.at = a /\ q.pc = "resolve" /\ req' = [req EXCEPT ![r] = p] /\ Collected(q, s, a)
    BY DEF determineResource, Set, AllHere, QuietAll
  <1>2. Fields \subseteq DOMAIN q
    BY <1>1, Sent
  <1> HIDE DEF q
  <1>3. p.pc = "start" /\ p.at = q.at /\ p.wanted = q.wanted /\ p.table = q.table
    BY <1>2 DEF Fields
  <1> HIDE DEF p
  <1>4. \A b \in Scopes : p.at = b => Collected(p, s, b)
    BY <1>1, <1>3 DEF Collected
  <1> QED
    BY <1>1, <1>3, <1>4 DEF GoesAll, Done

\* One more directory.
LEMMA SeenStep ==
  ASSUME NEW q, NEW a \in Scopes, q.at = a, SeenFrom(q.table, a + 1),
         \A n \in ItemNames : InodeAt(a, percentEncode(n)) = 0 <=> store[a][n] = NotFound
  PROVE  SeenFrom(Seen(q), a)
PROOF
  <1> DEFINE t == q.table
             b == a + 1
             here == {f \in FileNames : InodeAt(a, f) # 0}
             before(f) == IF f \in DOMAIN t THEN t[f] ELSE {}
             v == [f \in DOMAIN t \cup here |-> before(f) \cup (IF f \in here THEN {a} ELSE {})]
  <1>1. Seen(q) = v
    BY DEF Seen
  <1>2. DOMAIN v = DOMAIN t \cup here
    OBVIOUS
  <1>3. \A n \in ItemNames : percentEncode(n) \in FileNames
    BY DEF FileNames
  <1>4. DOMAIN t \subseteq FileNames /\ \A n \in ItemNames : percentEncode(n) \in DOMAIN t <=> Having(n, b) # {}
    BY DEF SeenFrom, IsListing
  <1>5. \A n \in ItemNames : Having(n, b) # {} => t[percentEncode(n)] = Having(n, b)
    BY DEF SeenFrom
  <1>6. \A n \in ItemNames : Having(n, a) = IF store[a][n] = NotFound THEN Having(n, b) ELSE {a} \cup Having(n, b)
    BY HavingFacts
  <1>7. \A n \in ItemNames : percentEncode(n) \in here <=> store[a][n] # NotFound
    BY <1>3
  <1>8. \A f \in DOMAIN v : v[f] = before(f) \cup (IF f \in here THEN {a} ELSE {})
    OBVIOUS
  <1> HIDE DEF v, here, b, t
  <1>9. DOMAIN v \subseteq FileNames
    BY <1>2, <1>4 DEF here
  <1>10. ASSUME NEW n \in ItemNames
         PROVE  percentEncode(n) \in DOMAIN v <=> Having(n, a) # {}
    BY <1>2, <1>4, <1>6, <1>7
  <1>11. ASSUME NEW n \in ItemNames, Having(n, a) # {} PROVE v[percentEncode(n)] = Having(n, a)
    <2>1. v[percentEncode(n)] = before(percentEncode(n)) \cup (IF percentEncode(n) \in here THEN {a} ELSE {})
      BY <1>8, <1>10, <1>11
    <2>2. before(percentEncode(n)) = Having(n, b)
      BY <1>4, <1>5
    <2> HIDE DEF before
    <2>3. CASE store[a][n] = NotFound
      BY <1>6, <1>7, <2>1, <2>2, <2>3
    <2>4. CASE store[a][n] # NotFound
      BY <1>6, <1>7, <2>1, <2>2, <2>4
    <2> QED
      BY <2>3, <2>4
  <1> QED
    BY <1>1, <1>9, <1>10, <1>11 DEF SeenFrom, IsListing

LEMMA getFileListingAsyncAll ==
  ASSUME TypeInv, WholeInv, QuietInv, NEW r \in Requests, NEW s \in Scopes, NEW a \in Scopes,
         AllHere(r, s, a), getFileListingAsync(r)
  PROVE  GoesAll(r, s)
PROOF
  <1> DEFINE q == req[r]
  <1>1. /\ IsRequest(q) /\ q.at = a /\ q.scope = s /\ StoreType /\ a \in s .. Plugin
        /\ q.op = "getFolder" /\ policy # "binary" /\ Collected(q, s, a)
    BY FolderReads DEF AllHere
  <1>2. \A n \in ItemNames : InodeAt(a, percentEncode(n)) = 0 <=> store[a][n] = NotFound
    BY FolderReads DEF AllHere
  <1>3. q.pc = "start"
    BY getFileListingAsyncCases
  <1>4. SeenFrom(Seen(q), a) /\ IsTable(q.wanted, s)
    BY <1>1, <1>2, <1>3, SeenStep DEF Collected
  <1>5. \/ a # s /\ Set(r, [Narrower(q, TRUE, NoData) EXCEPT !.table = Seen(q)])
        \/ a = s /\ DOMAIN Seen(q) = {} /\ Set(r, Answer(q, 204, NotFound))
        \/ /\ a = s /\ DOMAIN Seen(q) # {}
           /\ Set(r, [q EXCEPT !.table = Seen(q), !.entries = DOMAIN Seen(q),
                               !.pc = "entry", !.data = <<>>])
    BY <1>1, getFileListingAsyncCases
  <1>6. CASE a # s /\ Set(r, [Narrower(q, TRUE, NoData) EXCEPT !.table = Seen(q)])
    <2> DEFINE p == [Narrower(q, TRUE, NoData) EXCEPT !.table = Seen(q)]
    <2>1. Same(q, p) /\ p.pc = "start" /\ p.at = a - 1 /\ p.table = Seen(q)
      BY <1>1, <1>3, <1>6, TableFacts
    <2>2. req' = [req EXCEPT ![r] = p]
      BY <1>6 DEF Set
    <2> HIDE DEF p, q
    <2>3. ASSUME NEW b \in Scopes, p.at = b PROVE Collected(p, s, b)
      <3>1. b + 1 = a
        BY <2>1, <2>3, ScopeOrder
      <3>2. SeenFrom(p.table, b + 1)
        BY <1>4, <2>1, <3>1
      <3> QED
        BY <1>4, <2>1, <3>2 DEF Collected, Same
    <2> QED
      BY <2>1, <2>2, <2>3 DEF GoesAll, Done, q
  <1>7. CASE a = s /\ DOMAIN Seen(q) = {} /\ Set(r, Answer(q, 204, NotFound))
    <2>1. \A n \in ItemNames : Having(n, s) = {}
      BY <1>4, <1>7 DEF SeenFrom, IsListing
    <2>2. q.wanted = NotFound
      BY <1>4, <2>1 DEF IsTable
    <2> DEFINE c == 204
    <2>3. Set(r, Answer(q, c, NotFound)) /\ c = IF q.wanted = NotFound THEN 204 ELSE 200
      BY <1>7, <2>2
    <2> HIDE DEF c
    <2> QED
      BY <2>2, <2>3, AnswerAll
  <1>8. CASE /\ a = s /\ DOMAIN Seen(q) # {}
             /\ Set(r, [q EXCEPT !.table = Seen(q), !.entries = DOMAIN Seen(q),
                                 !.pc = "entry", !.data = <<>>])
    <2> DEFINE p == [q EXCEPT !.table = Seen(q), !.entries = DOMAIN Seen(q),
                              !.pc = "entry", !.data = <<>>]
    <2>1. Same(q, p) /\ p.pc = "entry" /\ p.table = Seen(q) /\ p.entries = DOMAIN Seen(q) /\ p.data = <<>>
      BY <1>1, <1>3, <1>8, EntriesFacts
    <2>2. req' = [req EXCEPT ![r] = p]
      BY <1>8 DEF Set
    <2> HIDE DEF p, q
    <2>3. DOMAIN p.data = {} /\ DOMAIN p.table \ p.entries = {} /\ SeenFrom(p.table, s)
      BY <1>4, <1>8, <2>1
    <2>4. \A b \in Scopes : Collected(p, s, b)
      BY <1>4, <2>1, <2>3 DEF Collected, Same
    <2> QED
      BY <2>1, <2>2, <2>4 DEF GoesAll, Done, q
  <1> QED
    BY <1>5, <1>6, <1>7, <1>8

\* What has been collected with one more file.
LEMMA CollectIs ==
  ASSUME NEW q, IsRequest(q), q.op = "getFolder", q.pc \in {"entry", "read"}, NEW f, NEW data, data # NotFound
  PROVE  LET d == [g \in DOMAIN q.data \cup {f} |-> IF g = f THEN data ELSE q.data[g]]
             e == q.entries \ {f}
             p == Collect(q, f, data) IN
         /\ p.wanted = q.wanted
         /\ e # {} => p.pc = "entry" /\ p.entries = e /\ p.data = d /\ p.table = q.table
         /\ e = {} => /\ p.pc = "done" /\ ~p.thrown /\ Len(p.answers) = 1
                      /\ p.answers[1] = [code |-> 200, data |-> d]
PROOF
  <1> DEFINE d == [g \in DOMAIN q.data \cup {f} |-> IF g = f THEN data ELSE q.data[g]]
             e == q.entries \ {f}
             x == [code |-> 200, data |-> d]
             all == [q EXCEPT !.entries = e, !.pc = "entry", !.data = d]
             p == Collect(q, f, data)
  <1>1. Fields \subseteq DOMAIN q /\ q.answers \in Seq({Failure}) /\ q.answers = <<>> /\ ~q.thrown
    BY EmptySeq DEF IsRequest, Replies, OnFolder, Writer, Busy
  <1>2. p = IF all.entries = {} THEN Answer(all, 200, all.data) ELSE all
    BY DEF Collect
  <1> HIDE DEF d, e
  <1>3. /\ DOMAIN all = DOMAIN q /\ all.entries = e /\ all.pc = "entry" /\ all.data = d
        /\ all.table = q.table /\ all.wanted = q.wanted /\ all.thrown = q.thrown /\ all.answers = q.answers
    BY <1>1 DEF Fields
  <1> HIDE DEF all
  <1>4. CASE e # {}
    BY <1>2, <1>3, <1>4 DEF p, d, e
  <1>5. CASE e = {}
    <2> DEFINE z == Append(q.answers, x)
    <2>1. p = [all EXCEPT !.pc = "done", !.answers = z]
      BY <1>2, <1>3, <1>5 DEF Answer
    <2>2. Len(z) = 1 /\ z[1] = x
      BY <1>1, AppendFacts
    <2> HIDE DEF z, x
    <2>3. p.pc = "done" /\ p.answers = z /\ p.thrown = q.thrown /\ p.wanted = q.wanted
      BY <1>1, <1>3, <2>1 DEF Fields
    <2> HIDE DEF p
    <2>4. p.pc = "done" /\ ~p.thrown /\ Len(p.answers) = 1 /\ p.answers[1] = x
      BY <1>1, <2>2, <2>3
    <2> QED
      BY <1>5, <2>3, <2>4 DEF p, d, e, x
  <1> QED
    BY <1>4, <1>5

\* All files have been collected.
LEMMA CollectedAll ==
  ASSUME StoreType, NEW s \in Scopes, NEW t, SeenFrom(t, s), DOMAIN t # {}, NEW w, IsTable(w, s),
         NEW d, d = [f \in DOMAIN d |-> d[f]], DOMAIN d = DOMAIN t,
         \A n \in ItemNames : percentEncode(n) \in DOMAIN d => d[percentEncode(n)] = Plain(n, s)
  PROVE  d = w /\ w # NotFound
PROOF
  <1>1. ~\A n \in ItemNames : Having(n, s) = {}
    BY DEF SeenFrom, IsListing, FileNames
  <1>2. IsTable(d, s)
    BY <1>1 DEF IsTable, SeenFrom, IsListing
  <1> QED
    BY <1>1, <1>2, TablesEqual, TableFound

\* What is visited next is there.
LEMMA VisitedIs ==
  ASSUME TypeInv, WholeInv, QuietInv, NEW r \in Requests, NEW s \in Scopes, NEW a \in Scopes,
         AllHere(r, s, a), req[r].pc \in {"entry", "read"}
  PROVE  LET q == req[r] IN
         \E n \in ItemNames :
           /\ Visited(q) = percentEncode(n) /\ Visited(q) \in q.entries /\ Visited(q) \in DOMAIN q.table
           /\ q.table[Visited(q)] = Having(n, s) /\ Having(n, s) # {} /\ Having(n, s) \subseteq Scopes
           /\ Nearest(Having(n, s)) \in Having(n, s) /\ Plain(n, s) = store[Nearest(Having(n, s))][n]
           /\ Plain(n, s) \in Bodies
           /\ \A t \in Having(n, s) : InodeAt(t, percentEncode(n)) # 0
PROOF
  <1> DEFINE q == req[r]
             f == Visited(q)
  <1>1. IsRequest(q) /\ q.op = "getFolder" /\ Collected(q, s, a) /\ StoreType
    BY FolderReads DEF AllHere
  <1>2. \A t \in Scopes, n \in ItemNames : InodeAt(t, percentEncode(n)) = 0 <=> store[t][n] = NotFound
    BY FolderReads DEF AllHere
  <1>3. q.entries # {} /\ q.entries \subseteq DOMAIN q.table /\ SeenFrom(q.table, s)
    BY <1>1 DEF IsRequest, Listed, Collected
  <1>4. f \in q.entries
    BY <1>3 DEF Visited
  <1> HIDE DEF f
  <1>5. PICK n \in ItemNames : f = percentEncode(n)
    BY <1>3, <1>4 DEF SeenFrom, IsListing, FileNames
  <1>6. Having(n, s) # {} /\ q.table[f] = Having(n, s)
    BY <1>3, <1>4, <1>5 DEF SeenFrom, IsListing
  <1>7. Having(n, s) \subseteq Scopes /\ \A t \in Having(n, s) : store[t][n] # NotFound
    BY HavingFacts DEF Having
  <1>8. Nearest(Having(n, s)) \in Having(n, s)
    BY <1>6, <1>7, Ends5
  <1>9. Plain(n, s) = store[Nearest(Having(n, s))][n]
    BY <1>6 DEF Plain
  <1>10. Plain(n, s) \in Bodies
    BY <1>1, <1>6, PlainFacts
  <1>11. \A t \in Having(n, s) : InodeAt(t, percentEncode(n)) # 0
    BY <1>2, <1>7
  <1> QED
    BY <1>3, <1>4, <1>5, <1>6, <1>7, <1>8, <1>9, <1>10, <1>11 DEF f

\* The file is open.
LEMMA OpenAll ==
  ASSUME TypeInv, WholeInv, QuietInv, NEW r \in Requests, NEW s \in Scopes, NEW a \in Scopes,
         AllHere(r, s, a), req[r].pc = "entry", policy = "none",
         NEW f, f = Visited(req[r]), NEW b, b = Nearest(req[r].table[f]), InodeAt(b, f) # 0,
         Set(r, Open([req[r] EXCEPT !.at = b], f))
  PROVE  GoesAll(r, s)
PROOF
  <1> DEFINE q == req[r]
             there == [q EXCEPT !.at = b]
             p == Open(there, f)
  <1>1. IsRequest(q) /\ q.op = "getFolder" /\ Collected(q, s, a)
    BY FolderReads DEF AllHere
  <1>2. /\ IsRequest(there) /\ Same(q, there) /\ there.pc = "entry" /\ there.at = b /\ there.gone = 0
        /\ there.data = q.data /\ there.entries = q.entries /\ there.table = q.table /\ f \in FileNames
    <2>1. LET z == Nearest(q.table[Visited(q)])
              y == [q EXCEPT !.at = z] IN
          /\ IsRequest(y) /\ Same(q, y) /\ y.pc = "entry" /\ y.at = z /\ y.gone = 0
          /\ y.data = q.data /\ y.entries = q.entries /\ y.table = q.table /\ Visited(q) \in FileNames
      BY <1>1, VisitFacts
    <2>2. b = Nearest(q.table[Visited(q)]) /\ f = Visited(q)
      OBVIOUS
    <2> HIDE DEF q
    <2> QED
      BY <2>1, <2>2
  <1>3. there.op = "getFolder" /\ Busy(there)
    BY <1>1, <1>2 DEF Same, Busy
  <1>4. req' = [req EXCEPT ![r] = p]
    BY DEF Set
  <1> HIDE DEF there
  <1>5. /\ IsRequest(p) /\ Same(there, p) /\ p.pc = "read" /\ p.fd = InodeAt(there.at, f)
        /\ p.seen = inode[p.fd].time /\ p.at = there.at /\ p.data = there.data /\ p.table = there.table
        /\ p.entries = there.entries
    BY <1>2, <1>3, OpenFacts
  <1> HIDE DEF p
  <1>6. /\ p.at = b /\ p.fd = InodeAt(b, f) /\ p.fd # 0 /\ p.data = q.data /\ p.table = q.table /\ p.entries = q.entries
        /\ p.wanted = q.wanted /\ b = Nearest(p.table[f]) /\ Visited(p) = f
    BY <1>2, <1>5 DEF Same, Visited
  <1> HIDE DEF q
  <1>7. Collected(p, s, b)
    BY <1>1, <1>5, <1>6 DEF Collected, q
  <1> QED
    BY <1>4, <1>5, <1>6, <1>7 DEF GoesAll, Done

\* The file has been read, or is gone.
LEMMA CollectAll ==
  ASSUME TypeInv, WholeInv, QuietInv, NEW r \in Requests, NEW s \in Scopes, NEW a \in Scopes,
         AllHere(r, s, a), req[r].pc = "read", policy = "none", NEW data,
         \A n \in ItemNames : Visited(req[r]) = percentEncode(n) => data = Plain(n, s),
         Set(r, Collect(req[r], Visited(req[r]), data))
  PROVE  GoesAll(r, s)
PROOF
  <1> DEFINE q == req[r]
             f == Visited(q)
             d == [g \in DOMAIN q.data \cup {f} |-> IF g = f THEN data ELSE q.data[g]]
             e == q.entries \ {f}
             p == Collect(q, f, data)
  <1>1. IsRequest(q) /\ q.op = "getFolder" /\ Collected(q, s, a) /\ StoreType
    BY FolderReads DEF AllHere
  <1>2. PICK n \in ItemNames :
          /\ f = percentEncode(n) /\ f \in q.entries /\ f \in DOMAIN q.table
          /\ Plain(n, s) \in Bodies
    BY VisitedIs
  <1>3. data = Plain(n, s) /\ data # NotFound
    BY <1>2, ObjectFacts
  <1>4. /\ SeenFrom(q.table, s) /\ DOMAIN q.data = DOMAIN q.table \ q.entries
        /\ \A m \in ItemNames : percentEncode(m) \in DOMAIN q.data => q.data[percentEncode(m)] = Plain(m, s)
        /\ q.entries \subseteq DOMAIN q.table /\ IsTable(q.wanted, s)
    BY <1>1 DEF Collected, IsRequest, Listed
  <1>5. /\ p.wanted = q.wanted
        /\ e # {} => p.pc = "entry" /\ p.entries = e /\ p.data = d /\ p.table = q.table
        /\ e = {} => /\ p.pc = "done" /\ ~p.thrown /\ Len(p.answers) = 1
                     /\ p.answers[1] = [code |-> 200, data |-> d]
    BY <1>1, <1>3, CollectIs
  <1>6. req' = [req EXCEPT ![r] = p]
    BY DEF Set
  <1> HIDE DEF p, q, f
  <1>7. DOMAIN d = DOMAIN q.table \ e /\ d = [g \in DOMAIN d |-> d[g]]
    BY <1>2, <1>4
  <1>8. \A m \in ItemNames : percentEncode(m) \in DOMAIN d => d[percentEncode(m)] = Plain(m, s)
    <2> SUFFICES ASSUME NEW m \in ItemNames, percentEncode(m) \in DOMAIN d
                 PROVE  d[percentEncode(m)] = Plain(m, s)
      OBVIOUS
    <2>1. CASE percentEncode(m) = f
      BY <1>2, <1>3, <2>1, NamesApart
    <2>2. CASE percentEncode(m) # f
      BY <1>4, <2>2
    <2> QED
      BY <2>1, <2>2
  <1> HIDE DEF d, e
  <1>9. CASE e # {}
    <2>1. \A b \in Scopes : Collected(p, s, b)
      BY <1>4, <1>5, <1>7, <1>8, <1>9 DEF Collected
    <2> QED
      BY <1>5, <1>6, <1>9, <2>1 DEF GoesAll, Done, q
  <1>10. CASE e = {}
    <2>1. d = q.wanted /\ q.wanted # NotFound
      BY <1>1, <1>2, <1>4, <1>7, <1>8, <1>10, CollectedAll
    <2>2. Right(p)
      BY <1>5, <1>10, <2>1 DEF Right
    <2> QED
      BY <1>5, <1>6, <1>10, <2>2 DEF GoesAll, Busy, q
  <1> QED
    BY <1>9, <1>10

LEMMA configFileVisitorAsyncAll ==
  ASSUME TypeInv, WholeInv, QuietInv, NEW r \in Requests, NEW s \in Scopes, NEW a \in Scopes,
         AllHere(r, s, a), configFileVisitorAsync(r)
  PROVE  GoesAll(r, s)
PROOF
  <1> DEFINE q == req[r]
             f == Visited(q)
             b == Nearest(q.table[f])
             there == [q EXCEPT !.at = b]
  <1>1. IsRequest(q) /\ q.op = "getFolder" /\ Collected(q, s, a) /\ Fields \subseteq DOMAIN q
    BY FolderReads DEF AllHere, IsRequest
  <1>2. there.at = b
    BY <1>1 DEF Fields
  <1>3. policy = "none" /\ q.pc \in {"entry", "read"}
    BY configFileVisitorAsyncCases
  <1>4. PICK n \in ItemNames :
          /\ f = percentEncode(n) /\ q.table[f] = Having(n, s)
          /\ Having(n, s) \subseteq Scopes /\ Nearest(Having(n, s)) \in Having(n, s)
          /\ Plain(n, s) = store[Nearest(Having(n, s))][n] /\ Plain(n, s) \in Bodies
          /\ \A t \in Having(n, s) : InodeAt(t, percentEncode(n)) # 0
    BY <1>3, VisitedIs
  <1>5. b \in Scopes /\ InodeAt(b, f) # 0 /\ Plain(n, s) = store[b][n]
    BY <1>4
  <1>6. \/ q.pc = "entry" /\ InodeAt(there.at, f) = 0
        \/ q.pc = "entry" /\ Set(r, Open(there, f))
        \/ q.pc = "read" /\ \E data \in Readings(q) : Set(r, Collect(q, f, data))
    BY configFileVisitorAsyncCases
  <1>7. CASE q.pc = "entry" /\ Set(r, Open(there, f))
    <2>1. \E g, c : /\ g = Visited(q) /\ c = Nearest(q.table[g]) /\ InodeAt(c, g) # 0
                    /\ Set(r, Open([q EXCEPT !.at = c], g))
      BY <1>5, <1>7
    <2> HIDE DEF f, b, there
    <2> QED
      BY <1>3, <1>7, <2>1, OpenAll
  <1>8. CASE q.pc = "read" /\ \E data \in Readings(q) : Set(r, Collect(q, f, data))
    <2>1. f \in FileNames
      BY <1>4 DEF FileNames
    <2>2. a = b /\ q.fd = InodeAt(a, f) /\ q.seen = inode[q.fd].time
      BY <1>1, <1>8, <2>1 DEF Collected
    <2>3. \A t \in Scopes, m \in ItemNames :
            InodeAt(t, percentEncode(m)) # 0 => Parsed(inode[InodeAt(t, percentEncode(m))].text) = store[t][m]
      BY FolderReads DEF AllHere
    <2> DEFINE i == InodeAt(b, f)
    <2>4. Parsed(inode[i].text) = Plain(n, s)
      BY <1>4, <1>5, <2>3
    <2>5. q.fd = i
      BY <2>2
    <2> HIDE DEF i
    <2>6. Readings(q) = {Plain(n, s)}
      BY <2>2, <2>4, <2>5, ReadingIs
    <2>7. Set(r, Collect(q, f, Plain(n, s)))
      BY <1>8, <2>6
    <2>8. \A m \in ItemNames : Visited(q) = percentEncode(m) => m = n
      BY <1>4, NamesApart
    <2> DEFINE data == Plain(n, s)
    <2>9. Set(r, Collect(q, Visited(q), data)) /\ \A m \in ItemNames : Visited(q) = percentEncode(m) => data = Plain(m, s)
      BY <2>7, <2>8
    <2> HIDE DEF data
    <2> QED
      BY <1>3, <1>8, <2>9, CollectAll
  <1> QED
    BY <1>2, <1>5, <1>6, <1>7, <1>8

LEMMA configFileOverrideVisitorAll ==
  ASSUME TypeInv, WholeInv, QuietInv, NEW r \in Requests, NEW s \in Scopes, NEW a \in Scopes,
         AllHere(r, s, a), configFileOverrideVisitor(r)
  PROVE  GoesAll(r, s)
PROOF
  <1> DEFINE q == req[r]
             there(f) == {t \in q.table[f] : InodeAt(t, f) # 0}
             text(f, t) == Parsed(inode[InodeAt(t, f)].text)
             good(f) == {t \in there(f) : text(f, t) # NoData}
             names == {g \in q.entries : there(g) # {}}
             value(f) == IF good(f) = {} THEN NoData ELSE text(f, Nearest(good(f)))
             d == [f \in names |-> value(f)]
  <1>1. IsRequest(q) /\ q.op = "getFolder" /\ Collected(q, s, a) /\ StoreType
    BY FolderReads DEF AllHere
  <1>2. \A t \in Scopes, n \in ItemNames :
          /\ InodeAt(t, percentEncode(n)) = 0 <=> store[t][n] = NotFound
          /\ InodeAt(t, percentEncode(n)) # 0 =>
               store[t][n] \in Bodies /\ Parsed(inode[InodeAt(t, percentEncode(n))].text) = store[t][n]
    BY FolderReads DEF AllHere
  <1>3. q.pc = "entry" /\ policy = "override" /\ Set(r, Answer(q, 200, d))
    BY DEF configFileOverrideVisitor
  <1>4. SeenFrom(q.table, s) /\ q.entries = DOMAIN q.table /\ q.entries # {} /\ IsTable(q.wanted, s)
    BY <1>1, <1>3 DEF Collected, IsRequest, Listed
  <1>5. ASSUME NEW n \in ItemNames, percentEncode(n) \in q.entries
        PROVE  there(percentEncode(n)) # {} /\ value(percentEncode(n)) = Plain(n, s)
    <2> DEFINE f == percentEncode(n)
               H == Having(n, s)
    <2>1. H # {} /\ q.table[f] = H
      BY <1>4, <1>5 DEF SeenFrom, IsListing
    <2>2. H \subseteq Scopes /\ \A t \in H : store[t][n] # NotFound
      BY HavingFacts DEF Having
    <2>3. Nearest(H) \in H
      BY <2>1, <2>2, Ends5
    <2>4. \A t \in H : InodeAt(t, f) # 0 /\ text(f, t) = store[t][n] /\ store[t][n] \in Bodies
      BY <1>2, <2>2
    <2>5. \A b \in Bodies : b # NoData
      BY ObjectFacts
    <2>6. Plain(n, s) = store[Nearest(H)][n]
      BY <2>1 DEF Plain
    <2> HIDE DEF H, text
    <2>7. there(f) = H /\ good(f) = H
      BY <2>1, <2>4, <2>5
    <2> HIDE DEF good, there
    <2> QED
      BY <2>1, <2>3, <2>4, <2>6, <2>7
  <1> HIDE DEF value, there
  <1>6. names = q.entries
    <2>1. \A f \in q.entries : \E n \in ItemNames : f = percentEncode(n)
      BY <1>4 DEF SeenFrom, IsListing, FileNames
    <2> QED
      BY <1>5, <2>1
  <1>7. DOMAIN d = DOMAIN q.table /\ d = [f \in DOMAIN d |-> d[f]]
    BY <1>4, <1>6
  <1>8. \A n \in ItemNames : percentEncode(n) \in DOMAIN d => d[percentEncode(n)] = Plain(n, s)
    BY <1>5, <1>6
  <1> HIDE DEF d
  <1>9. d = q.wanted /\ q.wanted # NotFound
    BY <1>1, <1>4, <1>7, <1>8, CollectedAll
  <1> DEFINE c == 200
  <1>10. Set(r, Answer(q, c, d)) /\ c = IF q.wanted = NotFound THEN 204 ELSE 200
    BY <1>3, <1>9
  <1> HIDE DEF c
  <1> QED
    BY <1>9, <1>10, AnswerAll

-----------------------------------------------------------------------------
(* GET of the names                                                        *)

LEMMA getFileListingRight ==
  ASSUME TypeInv, WholeInv, QuietInv, NEW r \in Requests, NEW s \in Scopes, NEW a \in Scopes,
         QuietAll(req[r], s, a), req[r].op = "list", IsListing(req[r].wanted, s), getFileListing(r)
  PROVE  \E p : req' = [req EXCEPT ![r] = p] /\ Done(p) /\ Right(p)
PROOF
  <1> DEFINE q == req[r]
             d == {f \in FileNames : \E t \in s .. Plugin : InodeAt(t, f) # 0}
             c == 200
             p == Answer(q, c, d)
  <1>1. IsRequest(q) /\ Busy(q) /\ q.gone = 0 /\ q.scope = s /\ s .. Plugin \subseteq Scopes
    BY FolderReads
  <1>2. \A t \in Scopes, n \in ItemNames : InodeAt(t, percentEncode(n)) = 0 <=> store[t][n] = NotFound
    BY FolderReads
  <1>3. Set(r, p)
    BY <1>1 DEF getFileListing
  <1>4. \A n \in ItemNames : percentEncode(n) \in d <=> Having(n, s) # {}
    BY <1>1, <1>2 DEF Having, FileNames
  <1>5. IsListing(d, s)
    BY <1>4 DEF IsListing
  <1>6. d = q.wanted /\ q.wanted # NotFound
    BY <1>5, ListingFacts
  <1>7. c = IF q.wanted = NotFound THEN 204 ELSE 200
    BY <1>6
  <1> HIDE DEF c, d
  <1>8. p.pc = "done" /\ Right(p)
    BY <1>1, <1>6, <1>7, AnswerRight
  <1> HIDE DEF p
  <1> QED
    BY <1>3, <1>8 DEF Set, Done

LEMMA AllSame ==
  ASSUME StoreType, NEW q, NEW s \in Scopes, NEW a \in Scopes, policy' = policy,
         \A t \in Scopes, n \in ItemNames : store'[t][n] = store[t][n],
         \A n \in ItemNames : LeftAlone(getPathForScope(a, percentEncode(n)))
  PROVE  /\ \A w : IsListing(w, s) => IsListing(w, s)'
         /\ Collected(q, s, a) => Collected(q, s, a)'
PROOF
  <1>1. \A b \in Nat : b .. Plugin \subseteq Scopes =>
          \A n \in ItemNames : Having(n, b)' = Having(n, b) /\ Plain(n, b)' = Plain(n, b)
    BY ChainKept
  <1>2. s \in Nat /\ s .. Plugin \subseteq Scopes
    BY ScopeOrder
  <1>3. \A n \in ItemNames : Having(n, s)' = Having(n, s) /\ Plain(n, s)' = Plain(n, s)
    BY <1>1, <1>2
  <1> DEFINE b == a + 1
  <1>4. \A n \in ItemNames : Having(n, b)' = Having(n, b)
    <2>1. b \in Nat /\ b .. Plugin \subseteq Scopes
      BY ScopeOrder
    <2> HIDE DEF b
    <2> QED
      BY <1>1, <2>1
  <1>5. \A w : IsListing(w, s)' <=> IsListing(w, s)
    BY <1>3 DEF IsListing
  <1>6. \A w : IsListing(w, b)' <=> IsListing(w, b)
    BY <1>4 DEF IsListing
  <1>7. \A w : IsTable(w, s)' <=> IsTable(w, s)
    BY <1>3, <1>5 DEF IsTable
  <1>8. \A t : (SeenFrom(t, s)' <=> SeenFrom(t, s)) /\ (SeenFrom(t, b)' <=> SeenFrom(t, b))
    BY <1>3, <1>4, <1>5, <1>6 DEF SeenFrom
  <1>9. \A f \in FileNames : /\ InodeAt(a, f)' = InodeAt(a, f)
                             /\ InodeAt(a, f) # 0 => inode'[InodeAt(a, f)] = inode[InodeAt(a, f)]
    BY DEF LeftAlone, InodeAt, FileNames
  <1> QED
    BY <1>3, <1>5, <1>7, <1>8, <1>9 DEF Collected

-----------------------------------------------------------------------------
(* Merging                                                                 *)

\* Joining sequences.
Then(x, y) == x \o y
Nothing == <<>>

LEMMA ThenFacts ==
  ASSUME NEW U
  PROVE  /\ \A x, y \in Seq(U) : Then(x, y) \in Seq(U)
         /\ \A x \in Seq(U) : Then(x, Nothing) = x /\ Then(Nothing, x) = x
         /\ \A x, y, z \in Seq(U) : Then(Then(x, y), z) = Then(x, Then(y, z))
         /\ Nothing \in Seq(U)
PROOF
  <1>1. ASSUME NEW x \in Seq(U), NEW y \in Seq(U) PROVE Then(x, y) \in Seq(U)
    BY ConcatProperties DEF Then
  <1>2. ASSUME NEW x \in Seq(U) PROVE Then(x, Nothing) = x /\ Then(Nothing, x) = x
    BY ConcatEmptySeq DEF Then, Nothing
  <1>3. ASSUME NEW x \in Seq(U), NEW y \in Seq(U), NEW z \in Seq(U) PROVE (x \o y) \o z = x \o (y \o z)
    BY ConcatAssociative, SMT
  <1>4. Nothing \in Seq(U)
    BY DEF Nothing
  <1>5. ASSUME NEW x \in Seq(U), NEW y \in Seq(U), NEW z \in Seq(U) PROVE Then(Then(x, y), z) = Then(x, Then(y, z))
    BY <1>3, Zenon DEF Then
  <1> QED
    BY <1>1, <1>2, <1>4, <1>5, Zenon

LEMMA ThenFive ==
  ASSUME NEW T, \A x, y \in T : Then(x, y) \in T,
         \A x, y, w \in T : Then(Then(x, y), w) = Then(x, Then(y, w))
  PROVE  \A a, b, c, d, z \in T :
           /\ Then(Then(Then(Then(a, b), c), d), z) = Then(a, Then(b, Then(c, Then(d, z))))
           /\ Then(a, Then(b, Then(c, Then(d, z)))) \in T
PROOF
  <1> TAKE a, b, c, d, z \in T
  <1>1. Then(a, b) \in T /\ Then(d, z) \in T
    OBVIOUS
  <1>2. Then(Then(a, b), c) \in T /\ Then(c, Then(d, z)) \in T
    BY <1>1
  <1>3. Then(b, Then(c, Then(d, z))) \in T
    BY <1>2
  <1>4. Then(Then(Then(Then(a, b), c), d), z) = Then(Then(Then(a, b), c), Then(d, z))
    BY <1>2
  <1>5. Then(Then(Then(a, b), c), Then(d, z)) = Then(Then(a, b), Then(c, Then(d, z)))
    BY <1>1
  <1>6. Then(Then(a, b), Then(c, Then(d, z))) = Then(a, Then(b, Then(c, Then(d, z))))
    BY <1>2
  <1> QED
    BY <1>3, <1>4, <1>5, <1>6

\* Joining a sequence for each scope.
LEMMA JoinFive ==
  ASSUME NEW U, NEW e \in [Scopes -> Seq(U)]
  PROVE  /\ FlattenSeq(e) = Then(e[1], Then(e[2], Then(e[3], Then(e[4], e[5]))))
         /\ FlattenSeq(e) \in Seq(U)
PROOF
  <1>1. Scopes = 1 .. 5 /\ e[1] \in Seq(U) /\ e[2] \in Seq(U) /\ e[3] \in Seq(U) /\ e[4] \in Seq(U) /\ e[5] \in Seq(U)
    BY ScopeOrder
  <1>2. e \in Seq(Seq(U)) /\ Len(e) = 5
    <2> DEFINE T == Seq(U)
    <2>1. e \in [1 .. 5 -> T] /\ 5 \in Nat
      BY <1>1
    <2> HIDE DEF T
    <2>2. e \in UNION {[1 .. n -> T] : n \in Nat}
      BY <2>1
    <2>3. e \in Seq(T)
      BY <2>2, SeqDef
    <2>4. DOMAIN e = 1 .. Len(e) /\ Len(e) \in Nat
      BY <2>3, LenProperties
    <2>5. DOMAIN e = 1 .. 5
      BY <2>1
    <2> DEFINE k == Len(e)
    <2>6. k \in Nat /\ 1 .. k = 1 .. 5
      BY <2>4, <2>5
    <2> HIDE DEF k
    <2>7. 5 \in 1 .. k
      BY <2>6
    <2>8. k \in Nat /\ k >= 5
      BY <2>6, <2>7
    <2>10. k \in 1 .. k
      BY <2>8
    <2>11. k \in 1 .. 5
      BY <2>6, <2>10, Zenon
    <2>9. k = 5
      BY <2>8, <2>11
    <2> QED
      BY <2>3, <2>9 DEF T, k
  <1>3. PICK p : Joins(p, e, U) /\ FlattenSeq(e) = p[Len(e)]
    BY <1>2, FlattenSteps
  <1>4. p[0] = Nothing /\ \A i \in 1 .. 5 : p[i] = Then(p[i - 1], e[i])
    BY <1>2, <1>3 DEF Joins, Then, Nothing
  <1>5. /\ p[1] = Then(p[0], e[1]) /\ p[2] = Then(p[1], e[2]) /\ p[3] = Then(p[2], e[3])
        /\ p[4] = Then(p[3], e[4]) /\ p[5] = Then(p[4], e[5])
    BY <1>4
  <1>6. FlattenSeq(e) = p[5]
    BY <1>2, <1>3
  <1> DEFINE T == Seq(U)
  <1>7. /\ \A x, y \in T : Then(x, y) \in T
        /\ \A x \in T : Then(x, Nothing) = x /\ Then(Nothing, x) = x
        /\ \A x, y, z \in T : Then(Then(x, y), z) = Then(x, Then(y, z))
    BY ThenFacts
  <1>8. e[1] \in T /\ e[2] \in T /\ e[3] \in T /\ e[4] \in T /\ e[5] \in T
    BY <1>1
  <1> HIDE DEF T
  <1>9. p[5] = Then(Then(Then(Then(e[1], e[2]), e[3]), e[4]), e[5])
    <2>1. p[1] = e[1]
      BY <1>4, <1>5, <1>7, <1>8
    <2> QED
      BY <1>5, <2>1
  <1> DEFINE a == e[1]
             b == e[2]
             c == e[3]
             d == e[4]
             z == e[5]
             l == p[5]
  <1>10. a \in T /\ b \in T /\ c \in T /\ d \in T /\ z \in T /\ l = Then(Then(Then(Then(a, b), c), d), z)
    BY <1>8, <1>9
  <1> HIDE DEF a, b, c, d, z, l
  <1>12. \A u, v, w, x, y \in T :
           /\ Then(Then(Then(Then(u, v), w), x), y) = Then(u, Then(v, Then(w, Then(x, y))))
           /\ Then(u, Then(v, Then(w, Then(x, y)))) \in T
    BY <1>7, ThenFive, Zenon
  <1>11. l = Then(a, Then(b, Then(c, Then(d, z)))) /\ l \in T
    BY <1>10, <1>12
  <1> QED
    BY <1>6, <1>11 DEF T, a, b, c, d, z, l

\* One sequence more at the front.
LEMMA JoinStep ==
  ASSUME NEW U, NEW e \in [Scopes -> Seq(U)], NEW f \in [Scopes -> Seq(U)], NEW s \in Scopes,
         \A t \in Scopes : t < s => e[t] = <<>>, \A t \in Scopes : t <= s => f[t] = <<>>,
         \A t \in Scopes : s < t => f[t] = e[t]
  PROVE  FlattenSeq(e) = e[s] \o FlattenSeq(f)
PROOF
  <1> DEFINE J(g) == Then(g[1], Then(g[2], Then(g[3], Then(g[4], g[5]))))
  <1>1. Scopes = 1 .. 5
    BY ScopeOrder
  <1>2. FlattenSeq(e) = J(e) /\ FlattenSeq(f) = J(f)
    BY JoinFive
  <1>3. \A t \in 1 .. 5 : /\ t < s => e[t] = Nothing
                          /\ t <= s => f[t] = Nothing
                          /\ s < t => f[t] = e[t]
    BY <1>1 DEF Nothing
  <1> DEFINE T == Seq(U)
  <1>4. \A t \in 1 .. 5 : e[t] \in T /\ f[t] \in T
    BY <1>1
  <1>5. e[1] \in T /\ e[2] \in T /\ e[3] \in T /\ e[4] \in T /\ e[5] \in T
    BY <1>4
  <1>11. /\ \A x, y \in T : Then(x, y) \in T
         /\ \A x \in T : Then(x, Nothing) = x /\ Then(Nothing, x) = x
         /\ Nothing \in T
    BY ThenFacts
  <1> HIDE DEF T
  <1>6. CASE s = 1
    <2>1. f[1] = Nothing /\ f[2] = e[2] /\ f[3] = e[3] /\ f[4] = e[4] /\ f[5] = e[5]
      BY <1>3, <1>6
    <2>2. J(e) = Then(e[1], J(f))
      BY <1>5, <1>11, <2>1
    <2> QED
      BY <1>2, <1>6, <2>2 DEF Then
  <1>7. CASE s = 2
    <2>1. e[1] = Nothing /\ f[1] = Nothing /\ f[2] = Nothing /\ f[3] = e[3] /\ f[4] = e[4] /\ f[5] = e[5]
      BY <1>3, <1>7
    <2>2. J(e) = Then(e[2], J(f))
      BY <1>5, <1>11, <2>1
    <2> QED
      BY <1>2, <1>7, <2>2 DEF Then
  <1>8. CASE s = 3
    <2>1. e[1] = Nothing /\ e[2] = Nothing /\ f[1] = Nothing /\ f[2] = Nothing /\ f[3] = Nothing /\ f[4] = e[4] /\ f[5] = e[5]
      BY <1>3, <1>8
    <2>2. J(e) = Then(e[3], J(f))
      BY <1>5, <1>11, <2>1
    <2> QED
      BY <1>2, <1>8, <2>2 DEF Then
  <1>9. CASE s = 4
    <2>1. /\ e[1] = Nothing /\ e[2] = Nothing /\ e[3] = Nothing
          /\ f[1] = Nothing /\ f[2] = Nothing /\ f[3] = Nothing /\ f[4] = Nothing /\ f[5] = e[5]
      BY <1>3, <1>9
    <2>2. J(e) = Then(e[4], J(f))
      BY <1>5, <1>11, <2>1
    <2> QED
      BY <1>2, <1>9, <2>2 DEF Then
  <1>10. CASE s = 5
    <2>1. /\ e[1] = Nothing /\ e[2] = Nothing /\ e[3] = Nothing /\ e[4] = Nothing
          /\ f[1] = Nothing /\ f[2] = Nothing /\ f[3] = Nothing /\ f[4] = Nothing /\ f[5] = Nothing
      BY <1>3, <1>10
    <2>2. J(e) = Then(e[5], J(f))
      BY <1>5, <1>11, <2>1
    <2> QED
      BY <1>2, <1>10, <2>2 DEF Then
  <1>12. s = 1 \/ s = 2 \/ s = 3 \/ s = 4 \/ s = 5
    BY <1>1
  <1> HIDE DEF J
  <1> QED
    BY <1>12, <1>6, <1>7, <1>8, <1>9, <1>10

\* What a property is merged to.
MergedValue(n, s, k) == IF Lists(n, s, k) = {} THEN Property(n, s, k) ELSE Joined(n, s, k)

LEMMA MergedIs ==
  ASSUME NEW n, NEW s
  PROVE  Merged(n, s) = IF Having(n, s) = {} THEN NotFound
                        ELSE [k \in DOMAIN Plain(n, s) |-> MergedValue(n, s, k)]
  BY DEF Merged, PerProperty, MergedValue

\* The values of the property k of the objects under the name n.
Valued(n, k) == \A t \in Scopes : store[t][n] # NotFound => store[t][n][k] \in Scalars \cup Seq(Elements)

LEMMA ScalarFacts ==
  /\ Absent \in Scalars /\ Falsy \in Scalars
  /\ \A v \in Seq(Elements) : v \notin Scalars
  BY ConfigAssumption

\* One more scope: a list is one more that is joined, a scalar ends the lists, and
\* a falsy value is none of them.
LEMMA ListsStep ==
  ASSUME NEW s \in Scopes, NEW n, NEW k
  PROVE  LET v == store[s][n][k]
             l == Lists(n, s, k)
             m == Lists(n, s + 1, k) IN
         /\ store[s][n] = NotFound => l = m
         /\ store[s][n] # NotFound /\ v \in {Absent, Falsy} => l = m
         /\ store[s][n] # NotFound /\ v \in Scalars \ {Absent, Falsy} => l = {}
         /\ store[s][n] # NotFound /\ v \notin Scalars => l = {s} \cup m
         /\ \A t \in m : s < t
         /\ l \subseteq Having(n, s) /\ Having(n, s) \subseteq Scopes
         /\ \A t \in l : store[t][n][k] \notin Scalars
PROOF
  <1> DEFINE v == store[s][n][k]
             scalar(t) == store[t][n][k] \in Scalars \ {Absent, Falsy}
             H == Having(n, s)
             G == Having(n, s + 1)
             l == Lists(n, s, k)
             m == Lists(n, s + 1, k)
  <1>1. /\ H \subseteq Scopes /\ G \subseteq Scopes
        /\ H = IF store[s][n] # NotFound THEN {s} \cup G ELSE G
        /\ \A t \in G : s < t
    BY HavingFacts
  <1>2. /\ l = {t \in H : store[t][n][k] \notin Scalars /\ \A u \in H : scalar(u) => t < u}
        /\ m = {t \in G : store[t][n][k] \notin Scalars /\ \A u \in G : scalar(u) => t < u}
    BY DEF Lists
  <1>3. \A t \in Scopes : t \in Nat
    BY ScopeOrder
  <1>4. scalar(s) <=> v \in Scalars \ {Absent, Falsy}
    OBVIOUS
  <1>5. Absent \in Scalars /\ Falsy \in Scalars
    BY ScalarFacts
  <1> HIDE DEF scalar, H, G, l, m
  <1>6. CASE store[s][n] = NotFound
    BY <1>1, <1>2, <1>6 DEF v, H, G, l, m
  <1>7. CASE store[s][n] # NotFound /\ v \in {Absent, Falsy}
    <2>1. H = {s} \cup G /\ ~scalar(s) /\ store[s][n][k] \in Scalars
      BY <1>1, <1>4, <1>5, <1>7
    <2>2. l = m
      BY <1>2, <2>1
    <2> QED
      BY <1>1, <1>2, <1>5, <1>7, <2>2 DEF v, H, G, l, m
  <1>8. CASE store[s][n] # NotFound /\ v \in Scalars \ {Absent, Falsy}
    <2>1. H = {s} \cup G /\ scalar(s) /\ store[s][n][k] \in Scalars
      BY <1>1, <1>4, <1>8
    <2>2. l = {}
      BY <1>1, <1>2, <1>3, <2>1
    <2> QED
      BY <1>1, <1>2, <1>8, <2>2 DEF v, H, G, l, m
  <1>9. CASE store[s][n] # NotFound /\ v \notin Scalars
    <2>1. H = {s} \cup G /\ ~scalar(s) /\ store[s][n][k] \notin Scalars
      BY <1>1, <1>4, <1>9
    <2>2. l = {s} \cup m
      BY <1>1, <1>2, <2>1
    <2> QED
      BY <1>1, <1>2, <1>5, <1>9, <2>2 DEF v, H, G, l, m
  <1> QED
    BY <1>6, <1>7, <1>8, <1>9

\* Without a list the property is no list, else the joined lists are one.
LEMMA MergedType ==
  ASSUME NEW s \in Nat, NEW n, NEW k, Valued(n, k), Having(n, s) \subseteq Scopes
  PROVE  /\ Lists(n, s, k) = {} => Property(n, s, k) \in Scalars
         /\ Joined(n, s, k) \in Seq(Elements) /\ Joined(n, s, k) \notin Scalars
PROOF
  <1> DEFINE H == Having(n, s)
             some == Given(n, s, k, {Absent, Falsy})
             any == Given(n, s, k, {Absent})
             l == Lists(n, s, k)
             scalar(t) == store[t][n][k] \in Scalars \ {Absent, Falsy}
             x == Property(n, s, k)
  <1>1. /\ l = {t \in H : store[t][n][k] \notin Scalars /\ \A u \in H : scalar(u) => t < u}
        /\ \A t \in H : t \in Scopes /\ store[t][n] # NotFound
    BY DEF Lists, Having
  <1>2. /\ some = {t \in H : store[t][n][k] \notin {Absent, Falsy}} /\ some \subseteq Scopes
        /\ any = {t \in H : store[t][n][k] \notin {Absent}} /\ any \subseteq Scopes
    BY DEF Given
  <1>3. x = IF some # {} THEN store[Nearest(some)][n][k]
            ELSE IF any # {} THEN store[Widest(any)][n][k] ELSE Absent
    BY PropertyIs
  <1>4. ASSUME l = {} PROVE x \in Scalars
    <2> HIDE DEF H, some, any, l, x, scalar
    <2>1. CASE some # {}
      <3>1. Nearest(some) \in some /\ \A t \in some : Nearest(some) <= t
        BY <1>2, <2>1, Ends5
      <3> DEFINE t == Nearest(some)
      <3>2. t \in H /\ store[t][n][k] \notin {Absent, Falsy} /\ \A u \in H : scalar(u) => u \in some
        BY <1>2, <3>1 DEF scalar
      <3>3. \A u \in some : t <= u
        BY <3>1
      <3> HIDE DEF t
      <3>4. \A u \in H : scalar(u) => t <= u
        BY <3>2, <3>3
      <3>5. ASSUME store[t][n][k] \notin Scalars PROVE FALSE
        <4>1. \A u \in H : scalar(u) => t # u
          BY <3>5 DEF scalar
        <4>2. \A u \in H : u \in Nat
          BY <1>1, ScopeOrder
        <4>3. \A u \in H : scalar(u) => t < u
          BY <3>2, <3>4, <4>1, <4>2
        <4> QED
          BY <1>1, <1>4, <3>2, <3>5, <4>3
      <3> QED
        BY <1>3, <2>1, <3>5 DEF t
    <2>2. CASE some = {} /\ any # {}
      <3>1. Widest(any) \in any
        BY <1>2, <2>2, Ends5
      <3>2. \A t \in any : store[t][n][k] \in {Absent, Falsy}
        BY <1>2, <2>2
      <3>3. x \in {Absent, Falsy}
        BY <1>3, <2>2, <3>1, <3>2
      <3> QED
        BY <3>3, ScalarFacts
    <2>3. CASE some = {} /\ any = {}
      BY <1>3, <2>3, ScalarFacts
    <2> QED
      BY <2>1, <2>2, <2>3
  <1> DEFINE e == [t \in Scopes |-> IF t \in l THEN store[t][n][k] ELSE <<>>]
  <1>5. e \in [Scopes -> Seq(Elements)]
    <2>1. ASSUME NEW t \in Scopes PROVE (IF t \in l THEN store[t][n][k] ELSE <<>>) \in Seq(Elements)
      <3>1. t \in l => store[t][n][k] \notin Scalars /\ store[t][n] # NotFound
        BY <1>1
      <3> HIDE DEF l
      <3>2. t \in l => store[t][n][k] \in Seq(Elements)
        BY <3>1 DEF Valued
      <3>3. <<>> \in Seq(Elements)
        OBVIOUS
      <3> QED
        BY <3>2, <3>3, Zenon
    <2> QED
      BY <2>1
  <1>6. Joined(n, s, k) = FlattenSeq(e)
    BY DEF Joined
  <1> HIDE DEF e
  <1>7. Joined(n, s, k) \in Seq(Elements)
    BY <1>5, <1>6, JoinFive
  <1> QED
    BY <1>4, <1>7, ScalarFacts

\* The lists of a scope are joined before those of the broader ones.
LEMMA JoinedStep ==
  ASSUME NEW s \in Scopes, NEW n, NEW k, Valued(n, k)
  PROVE  /\ Lists(n, s, k) = Lists(n, s + 1, k) => Joined(n, s, k) = Joined(n, s + 1, k)
         /\ Lists(n, s, k) = {s} \cup Lists(n, s + 1, k) => Joined(n, s, k) = Then(store[s][n][k], Joined(n, s + 1, k))
         /\ Lists(n, s + 1, k) = {} => Joined(n, s + 1, k) = <<>>
PROOF
  <1> DEFINE l == Lists(n, s, k)
             m == Lists(n, s + 1, k)
             part(S) == [t \in Scopes |-> IF t \in S THEN store[t][n][k] ELSE <<>>]
             e == part(l)
             f == part(m)
  <1>1. Joined(n, s, k) = FlattenSeq(e) /\ Joined(n, s + 1, k) = FlattenSeq(f)
    BY DEF Joined
  <1>2. l = m => Joined(n, s, k) = Joined(n, s + 1, k)
    BY DEF Joined
  <1>3. /\ l \subseteq Having(n, s) /\ Having(n, s) \subseteq Scopes
        /\ \A t \in l : store[t][n][k] \notin Scalars
        /\ \A t \in m : s < t
    BY ListsStep
  <1>4. /\ m \subseteq Having(n, s + 1) /\ Having(n, s + 1) \subseteq Having(n, s)
        /\ \A t \in m : store[t][n][k] \notin Scalars
    BY HavingFacts DEF Lists
  <1>5. \A t \in Having(n, s) : store[t][n] # NotFound
    BY DEF Having
  <1> HIDE DEF l, m
  <1>6. ASSUME NEW t \in l \cup m PROVE store[t][n][k] \in Seq(Elements)
    BY <1>3, <1>4, <1>5, <1>6 DEF Valued
  <1>7. e \in [Scopes -> Seq(Elements)] /\ f \in [Scopes -> Seq(Elements)]
    <2>1. <<>> \in Seq(Elements)
      OBVIOUS
    <2> DEFINE T == Seq(Elements)
               no == <<>>
    <2>2. no \in T /\ \A t \in l \cup m : store[t][n][k] \in T
      BY <1>6, <2>1
    <2> HIDE DEF T, no
    <2>3. [t \in Scopes |-> IF t \in l THEN store[t][n][k] ELSE no] \in [Scopes -> T]
      BY <2>2
    <2>4. [t \in Scopes |-> IF t \in m THEN store[t][n][k] ELSE no] \in [Scopes -> T]
      BY <2>2
    <2> QED
      BY <2>3, <2>4 DEF T, no
  <1>8. ASSUME l = {s} \cup m PROVE FlattenSeq(e) = Then(store[s][n][k], FlattenSeq(f))
    <2>0. \A t \in Scopes : t \in Nat
      BY ScopeOrder
    <2>1. s \in l /\ e[s] = store[s][n][k]
      BY <1>8
    <2>2. \A t \in Scopes : t < s => t \notin l
      BY <1>3, <1>8, <2>0
    <2>3. \A t \in Scopes : t <= s => t \notin m
      BY <1>3, <2>0
    <2>4. \A t \in Scopes : s < t => (t \in m <=> t \in l)
      BY <1>8, <2>0
    <2>5. /\ \A t \in Scopes : t < s => e[t] = <<>>
          /\ \A t \in Scopes : t <= s => f[t] = <<>>
          /\ \A t \in Scopes : s < t => f[t] = e[t]
      BY <2>2, <2>3, <2>4
    <2> HIDE DEF e, f
    <2>6. FlattenSeq(e) = e[s] \o FlattenSeq(f)
      BY <1>7, <2>5, JoinStep
    <2> QED
      BY <2>1, <2>6 DEF Then
  <1>9. ASSUME m = {} PROVE FlattenSeq(f) = <<>>
    <2>1. f[1] = Nothing /\ f[2] = Nothing /\ f[3] = Nothing /\ f[4] = Nothing /\ f[5] = Nothing
      BY <1>9, ScopeOrder DEF Nothing
    <2> HIDE DEF e, f
    <2>2. FlattenSeq(f) = Then(f[1], Then(f[2], Then(f[3], Then(f[4], f[5]))))
      BY <1>7, JoinFive
    <2>3. Then(Nothing, Nothing) = Nothing
      BY ThenFacts
    <2> QED
      BY <2>1, <2>2, <2>3 DEF Nothing
  <1> QED
    BY <1>1, <1>2, <1>8, <1>9 DEF l, m

\* One more scope is merged into the broader ones.
LEMMA MergedValueStep ==
  ASSUME NEW s \in Scopes, NEW n, NEW k, Valued(n, k)
  PROVE  LET v == store[s][n][k]
             w == MergedValue(n, s + 1, k) IN
         MergedValue(n, s, k) =
           IF store[s][n] = NotFound THEN w
           ELSE IF v \notin Scalars /\ w \notin Scalars THEN Then(v, w)
           ELSE IF v \in {Absent, Falsy} /\ w # Absent THEN w ELSE v
PROOF
  <1> DEFINE v == store[s][n][k]
             l == Lists(n, s, k)
             m == Lists(n, s + 1, k)
             x == Property(n, s, k)
             y == Property(n, s + 1, k)
             i == Joined(n, s, k)
             j == Joined(n, s + 1, k)
             w == MergedValue(n, s + 1, k)
             u == MergedValue(n, s, k)
             vj == Then(v, j)
  <1>1. u = (IF l = {} THEN x ELSE i) /\ w = (IF m = {} THEN y ELSE j)
    BY DEF MergedValue
  <1>2. x = IF store[s][n] = NotFound \/ (v \in {Absent, Falsy} /\ y # Absent) THEN y ELSE v
    BY PropertyStep
  <1>3. /\ store[s][n] = NotFound => l = m
        /\ store[s][n] # NotFound /\ v \in {Absent, Falsy} => l = m
        /\ store[s][n] # NotFound /\ v \in Scalars \ {Absent, Falsy} => l = {}
        /\ store[s][n] # NotFound /\ v \notin Scalars => l = {s} \cup m
    BY ListsStep
  <1>4. /\ l = m => i = j
        /\ l = {s} \cup m => i = vj
        /\ m = {} => j = <<>>
    BY JoinedStep
  <1>5. Having(n, s + 1) \subseteq Scopes /\ s + 1 \in Nat
    BY HavingFacts, ScopeOrder
  <1>6. (m = {} => y \in Scalars) /\ j \in Seq(Elements) /\ j \notin Scalars
    BY <1>5, MergedType
  <1>7. Absent \in Scalars /\ Falsy \in Scalars
    BY ScalarFacts
  <1>8. store[s][n] # NotFound /\ v \notin Scalars /\ m = {} => vj = v
    <2> SUFFICES ASSUME store[s][n] # NotFound, v \notin Scalars, m = {} PROVE vj = v
      OBVIOUS
    <2>1. v \in Seq(Elements)
      BY DEF Valued
    <2>2. j = <<>>
      BY <1>4
    <2> HIDE DEF v, j
    <2> QED
      BY <2>1, <2>2, ConcatEmptySeq DEF Then
  <1>9. Then(v, w) = IF m = {} THEN Then(v, y) ELSE vj
    BY <1>1
  <1> HIDE DEF v, l, m, x, y, i, j, w, u, vj
  <1>10. CASE store[s][n] = NotFound
    BY <1>1, <1>2, <1>3, <1>4, <1>10 DEF v, w, u
  <1>11. CASE store[s][n] # NotFound /\ v \in {Absent, Falsy}
    <2>1. v \in Scalars /\ l = m /\ i = j
      BY <1>3, <1>4, <1>7, <1>11
    <2>2. m # {} => w = j /\ u = j /\ w # Absent
      BY <1>1, <1>6, <1>7, <2>1
    <2>3. m = {} => w = y /\ u = x
      BY <1>1, <2>1
    <2>4. u = IF v \in {Absent, Falsy} /\ w # Absent THEN w ELSE v
      BY <1>2, <1>11, <2>2, <2>3
    <2> QED
      BY <1>11, <2>1, <2>4 DEF v, w, u
  <1>12. CASE store[s][n] # NotFound /\ v \in Scalars \ {Absent, Falsy}
    <2>1. l = {} /\ u = v
      BY <1>1, <1>2, <1>3, <1>12
    <2> QED
      BY <1>12, <2>1 DEF v, w, u
  <1>13. CASE store[s][n] # NotFound /\ v \notin Scalars
    <2>1. l = {s} \cup m /\ l # {} /\ u = vj
      BY <1>1, <1>3, <1>4, <1>13
    <2>2. m = {} => w \in Scalars /\ u = v
      BY <1>1, <1>6, <1>8, <1>13, <2>1
    <2>3. m # {} => w \notin Scalars /\ u = Then(v, w)
      BY <1>1, <1>6, <1>9, <2>1
    <2>4. v \notin {Absent, Falsy}
      BY <1>7, <1>13
    <2>5. u = IF v \notin Scalars /\ w \notin Scalars THEN Then(v, w)
              ELSE IF v \in {Absent, Falsy} /\ w # Absent THEN w ELSE v
      BY <1>13, <2>2, <2>3, <2>4, Zenon
    <2> QED
      BY <1>13, <2>5 DEF v, w, u
  <1> QED
    BY <1>10, <1>11, <1>12, <1>13

LEMMA MergedValues ==
  ASSUME StoreType, NEW n \in ItemNames, NEW b \in Bodies, NEW k \in DOMAIN b
  PROVE  Valued(n, k)
PROOF
  <1> SUFFICES ASSUME NEW t \in Scopes, store[t][n] # NotFound
               PROVE  store[t][n][k] \in Scalars \cup Seq(Elements)
    BY DEF Valued
  <1>1. store[t][n] \in Bodies
    BY StoreFacts
  <1>2. store[t][n] \in [DOMAIN b -> Values]
    BY <1>1, ObjectFacts
  <1>3. store[t][n][k] \in Values
    BY <1>2
  <1> QED
    BY <1>3, ConfigAssumption

\* What getMergeJson puts together scope by scope is what the chain holds.
LEMMA MergedStep ==
  ASSUME StoreType, NEW s \in Scopes, NEW n \in ItemNames
  PROVE  Merged(n, s) =
           IF store[s][n] = NotFound THEN Merged(n, s + 1)
           ELSE IF Having(n, s + 1) = {} THEN store[s][n]
           ELSE mergeJsonProperties(Merged(n, s + 1), store[s][n])
PROOF
  <1> DEFINE o == Merged(n, s)
             w == Merged(n, s + 1)
             b == store[s][n]
  <1>1. CASE b = NotFound
    <2>1. Having(n, s) = Having(n, s + 1)
      BY <1>1, HavingFacts
    <2>2. Plain(n, s) = Plain(n, s + 1)
      BY <1>1, PlainFacts
    <2>3. CASE Having(n, s) = {}
      BY <1>1, <2>1, <2>3, MergedIs
    <2>4. CASE Having(n, s) # {}
      <3> DEFINE c == Plain(n, s)
      <3>1. c \in Bodies
        BY <2>4, PlainFacts
      <3>2. \A k \in DOMAIN c : Valued(n, k)
        BY <3>1, MergedValues
      <3>3. \A k \in DOMAIN c : MergedValue(n, s, k) = MergedValue(n, s + 1, k)
        BY <1>1, <3>2, MergedValueStep
      <3>4. o = [k \in DOMAIN c |-> MergedValue(n, s, k)]
        BY <2>4, MergedIs
      <3>5. w = [k \in DOMAIN c |-> MergedValue(n, s + 1, k)]
        BY <2>1, <2>2, <2>4, MergedIs
      <3> HIDE DEF c, o, w
      <3>6. o = w
        BY <3>3, <3>4, <3>5
      <3> QED
        BY <1>1, <3>6 DEF o, w
    <2> QED
      BY <2>3, <2>4
  <1>2. CASE b # NotFound
    <2>1. Having(n, s) # {} /\ Plain(n, s) = b /\ b \in Bodies
      BY <1>2, HavingFacts, PlainFacts, StoreFacts
    <2>2. \A k \in DOMAIN b : Valued(n, k)
      BY <2>1, MergedValues
    <2> DEFINE u(k) == MergedValue(n, s, k)
               x(k) == MergedValue(n, s + 1, k)
    <2>3. \A k \in DOMAIN b :
            u(k) = IF b[k] \notin Scalars /\ x(k) \notin Scalars THEN Then(b[k], x(k))
                   ELSE IF b[k] \in {Absent, Falsy} /\ x(k) # Absent THEN x(k) ELSE b[k]
      <3> SUFFICES ASSUME NEW k \in DOMAIN b
                   PROVE u(k) = IF b[k] \notin Scalars /\ x(k) \notin Scalars THEN Then(b[k], x(k))
                                ELSE IF b[k] \in {Absent, Falsy} /\ x(k) # Absent THEN x(k) ELSE b[k]
        OBVIOUS
      <3>1. Valued(n, k) /\ store[s][n] # NotFound
        BY <1>2, <2>2
      <3> QED
        BY <3>1, MergedValueStep
    <2>4. o = [k \in DOMAIN b |-> u(k)]
      BY <2>1, MergedIs
    <2>5. b = [k \in DOMAIN b |-> b[k]]
      BY <2>1, ObjectFacts
    <2>6. CASE Having(n, s + 1) = {}
      <3>1. Lists(n, s + 1, 0) = {} /\ \A k : x(k) = Absent
        BY <2>6 DEF MergedValue, Lists, Property
      <3>2. \A k \in DOMAIN b : u(k) = b[k]
        BY <2>3, <3>1, ScalarFacts
      <3> HIDE DEF u, b, o
      <3>3. o = b
        BY <2>4, <2>5, <3>2
      <3> QED
        BY <1>2, <2>6, <3>3 DEF o, b
    <2>7. CASE Having(n, s + 1) # {}
      <3> DEFINE c == Plain(n, s + 1)
      <3>0. s + 1 \in Scopes
        <4>1. s \in 1 .. 5 /\ Scopes = 1 .. 5 /\ Plugin = 5
          BY ScopeOrder
        <4>2. s # 5
          BY <2>7, <4>1, HavingFacts
        <4> QED
          BY <4>1, <4>2
      <3>1. c \in Bodies
        BY <2>7, <3>0, PlainFacts
      <3>2. DOMAIN c = DOMAIN b
        BY <2>1, <3>1, ObjectFacts
      <3>3. w = [k \in DOMAIN b |-> x(k)]
        BY <2>7, <3>2, MergedIs
      <3> HIDE DEF u, x, b, o, w, c
      <3>4. \A k \in DOMAIN b : w[k] = x(k)
        BY <3>3
      <3>5. mergeJsonProperties(w, b) =
              [k \in DOMAIN b |-> IF b[k] \notin Scalars /\ w[k] \notin Scalars THEN Then(b[k], w[k])
                                  ELSE overrideJsonProperties(w, b)[k]]
        BY DEF mergeJsonProperties, Then
      <3>6. \A k \in DOMAIN b : overrideJsonProperties(w, b)[k] =
              IF b[k] \in {Absent, Falsy} /\ w[k] # Absent THEN w[k] ELSE b[k]
        BY DEF overrideJsonProperties
      <3>7. \A k \in DOMAIN b : mergeJsonProperties(w, b)[k] = u(k)
        BY <2>3, <3>4, <3>5, <3>6
      <3>8. mergeJsonProperties(w, b) = [k \in DOMAIN b |-> mergeJsonProperties(w, b)[k]]
        BY <3>5
      <3>9. mergeJsonProperties(w, b) = o
        BY <2>4, <3>7, <3>8
      <3> QED
        BY <1>2, <2>7, <3>9 DEF o, w, b
    <2> QED
      BY <2>6, <2>7
  <1> QED
    BY <1>1, <1>2

LEMMA MergedThere ==
  ASSUME StoreType, NEW s \in Scopes, NEW n \in ItemNames, Having(n, s) # {}
  PROVE  Merged(n, s) # NotFound /\ Merged(n, s) # NoData
PROOF
  <1> DEFINE b == Plain(n, s)
  <1>1. b \in Bodies
    BY PlainFacts
  <1>2. \A k \in DOMAIN b : MergedValue(n, s, k) \in Scalars \cup Seq(Elements)
    <2> SUFFICES ASSUME NEW k \in DOMAIN b
                 PROVE  MergedValue(n, s, k) \in Scalars \cup Seq(Elements)
      OBVIOUS
    <2>1. Valued(n, k)
      BY <1>1, MergedValues
    <2>2. s \in Nat /\ Having(n, s) \subseteq Scopes
      BY ScopeOrder, HavingFacts
    <2> QED
      BY <2>1, <2>2, MergedType DEF MergedValue
  <1>3. Merged(n, s) = [k \in DOMAIN b |-> MergedValue(n, s, k)]
    BY MergedIs
  <1> HIDE DEF b
  <1> DEFINE T == Scalars \cup Seq(Elements)
  <1>4. Merged(n, s) \in [DOMAIN b -> T]
    BY <1>2, <1>3
  <1>5. {Empty, Mixed, NoData, NotFound} \cap [DOMAIN b -> T] = {}
    BY <1>1, ConfigAssumption
  <1> HIDE DEF T
  <1> QED
    BY <1>4, <1>5

\* Over a chain of whole files getMergeJson reads what is merged.
LEMMA MergesChain ==
  ASSUME StoreType, NEW n \in ItemNames, NEW scope \in Scopes,
         \A s \in Scopes : LET i == InodeAt(s, percentEncode(n)) IN
           /\ i = 0 <=> store[s][n] = NotFound
           /\ i # 0 => Parsed(inode[i].text) = store[s][n]
  PROVE  getMergeJson(n, scope) = Merged(n, scope)
PROOF
  <1> DEFINE i(s) == InodeAt(s, percentEncode(n))
             object(s) == Parsed(inode[i(s)].text)
             D == scope .. Plugin + 1
             Body(g, s) == IF s > Plugin THEN NotFound
                           ELSE IF i(s) = 0 THEN g[s + 1]
                           ELSE IF g[s + 1] = NotFound THEN object(s)
                           ELSE mergeJsonProperties(g[s + 1], object(s))
             Is(g) == g = [s \in D |-> Body(g, s)]
             h == [s \in D |-> Merged(n, s)]
             m == CHOOSE g : Is(g)
  <1>1. getMergeJson(n, scope) = m[scope]
    BY DEF getMergeJson
  <1>2. scope \in 1 .. 5 /\ Plugin = 5 /\ Scopes = 1 .. 5
    BY ScopeOrder
  <1>3. Merged(n, 6) = NotFound
    <2>1. Having(n, 6) = {}
      BY <1>2, HavingFacts
    <2> QED
      BY <2>1, MergedIs
  <1>4. ASSUME NEW s \in Scopes
        PROVE  Merged(n, s) = IF i(s) = 0 THEN Merged(n, s + 1)
                              ELSE IF Merged(n, s + 1) = NotFound THEN object(s)
                              ELSE mergeJsonProperties(Merged(n, s + 1), object(s))
    <2>1. Merged(n, s) = IF store[s][n] = NotFound THEN Merged(n, s + 1)
                         ELSE IF Having(n, s + 1) = {} THEN store[s][n]
                         ELSE mergeJsonProperties(Merged(n, s + 1), store[s][n])
      BY MergedStep
    <2>2. Having(n, s + 1) = {} <=> Merged(n, s + 1) = NotFound
      <3>1. CASE s = 5
        BY <1>2, <1>3, <3>1, HavingFacts
      <3>2. CASE s # 5
        <4>1. s + 1 \in Scopes
          BY <1>2, <3>2
        <4> QED
          BY <4>1, MergedThere, MergedIs
      <3> QED
        BY <3>1, <3>2
    <2>3. (i(s) = 0 <=> store[s][n] = NotFound) /\ (i(s) # 0 => object(s) = store[s][n])
      OBVIOUS
    <2> HIDE DEF i, object
    <2> QED
      BY <2>1, <2>2, <2>3, Zenon
  <1>5. D \subseteq 1 .. 6 /\ scope \in D /\ \A s \in D : s > Plugin <=> s = 6
    BY <1>2
  <1>6. \A s \in D : s # 6 => s \in Scopes /\ s + 1 \in D
    BY <1>2
  <1> HIDE DEF i, object, D
  <1>7. Is(h)
    <2>1. ASSUME NEW s \in D PROVE Merged(n, s) = Body(h, s)
      <3>1. CASE s = 6
        BY <1>3, <1>5, <3>1
      <3>2. CASE s # 6
        <4>1. s \in Scopes /\ s + 1 \in D /\ ~(s > Plugin)
          BY <1>5, <1>6, <3>2
        <4>2. h[s + 1] = Merged(n, s + 1)
          BY <4>1
        <4> HIDE DEF h
        <4> QED
          BY <1>4, <4>1, <4>2, Zenon
      <3> QED
        BY <3>1, <3>2
    <2>2. [s \in D |-> Merged(n, s)] = [s \in D |-> Body(h, s)]
      BY <2>1, Zenon
    <2> QED
      BY <2>2, Zenon
  <1>8. Is(m)
    BY <1>7, Zenon
  <1>9. ASSUME NEW s \in D PROVE m[s] = Body(m, s)
    <2> HIDE DEF m
    <2> DEFINE B(t) == Body(m, t)
    <2>1. m = [t \in D |-> B(t)]
      BY <1>8, Zenon
    <2> HIDE DEF B
    <2>2. m[s] = B(s)
      BY <2>1, Zenon
    <2> QED
      BY <2>2, Zenon DEF B
  <1> HIDE DEF m, h
  <1>10. 6 \in D => m[6] = Merged(n, 6)
    BY <1>3, <1>5, <1>9
  <1>11. ASSUME NEW s \in Scopes, s \in D, m[s + 1] = Merged(n, s + 1) PROVE m[s] = Merged(n, s)
    <2>1. ~(s > Plugin)
      BY <1>2
    <2> QED
      BY <1>4, <1>9, <1>11, <2>1, Zenon
  <1>12. 6 \in D /\ \A s \in 1 .. 5 : s \in D <=> scope <= s
    BY <1>2 DEF D
  <1>13. 5 \in D /\ m[5] = Merged(n, 5)
    BY <1>2, <1>10, <1>11, <1>12
  <1>14. 4 \in D => m[4] = Merged(n, 4)
    BY <1>2, <1>11, <1>13
  <1>15. 3 \in D => 4 \in D /\ m[3] = Merged(n, 3)
    BY <1>2, <1>11, <1>12, <1>14
  <1>16. 2 \in D => 3 \in D /\ m[2] = Merged(n, 2)
    BY <1>2, <1>11, <1>12, <1>15
  <1>17. 1 \in D => 2 \in D /\ m[1] = Merged(n, 1)
    BY <1>2, <1>11, <1>12, <1>16
  <1>18. m[scope] = Merged(n, scope)
    <2>1. scope = 1 \/ scope = 2 \/ scope = 3 \/ scope = 4 \/ scope = 5
      BY <1>2
    <2> QED
      BY <1>5, <1>13, <1>14, <1>15, <1>16, <1>17, <2>1
  <1> QED
    BY <1>1, <1>18

\* A request for the allowed plugins that is left alone.
Allowed(q, n, s) == Busy(q) /\ q.quiet /\ q.op = "allowed" /\ q.name = n /\ q.scope = s
AllowedInv ==
  \A r \in Requests, n \in ItemNames, s \in Scopes :
    Allowed(req[r], n, s) => req[r].wanted = Merged(n, s)

LEMMA getAllowedPluginsRight ==
  ASSUME TypeInv, WholeInv, QuietInv, AllowedInv, NEW r \in Requests, Busy(req[r]), req[r].quiet,
         getAllowedPlugins(r)
  PROVE  \E p : req' = [req EXCEPT ![r] = p] /\ Right(p)
PROOF
  <1> DEFINE q == req[r]
             n == q.name
             scope == q.scope
             i(s) == InodeAt(s, percentEncode(n))
             file(s) == inode[i(s)]
             found == {s \in scope .. Plugin : i(s) # 0}
             d == getMergeJson(n, scope)
             c == IF found = {} THEN 204 ELSE 200
             p == Answer(q, c, d)
  <1>1. IsRequest(q) /\ q.op = "allowed" /\ q.gone = 0
    BY Sent, GoneFacts DEF getAllowedPlugins
  <1>2. Undisturbed(r) /\ ~Writer(q) /\ n \in Names(q) /\ n \in ItemNames /\ scope \in Scopes
    BY <1>1 DEF QuietInv, Writer, Names, OnFolder, IsRequest
  <1>3. scope .. Plugin \subseteq Scopes
    BY <1>2, ScopeOrder
  <1>4. StoreType
    BY DEF StoreType, TypeInv, FilesType
  <1>5. q.wanted = Merged(n, scope)
    BY <1>1, <1>2 DEF AllowedInv, Allowed
  <1>6. ASSUME NEW s \in Scopes
        PROVE  /\ i(s) = 0 <=> store[s][n] = NotFound
               /\ i(s) # 0 => Parsed(file(s).text) = store[s][n] /\ Parsed(file(s).text) # NoData
    <2> HIDE DEF n
    <2>1. /\ i(s) = 0 <=> store[s][n] = NotFound
          /\ i(s) # 0 => Parsed(file(s).text) = store[s][n] /\ store[s][n] \in Bodies
      BY <1>2, QuietReads
    <2> QED
      BY <2>1, ObjectFacts
  <1>7. \A s \in found : Parsed(file(s).text) # NoData
    BY <1>3, <1>6
  <1>8. Set(r, p)
    BY <1>7 DEF getAllowedPlugins
  <1>9. found = Having(n, scope)
    BY <1>3, <1>6 DEF Having
  <1> HIDE DEF q, n, scope
  <1>10. d = Merged(n, scope)
    BY <1>2, <1>4, <1>6, MergesChain
  <1>11. found = {} <=> Merged(n, scope) = NotFound
    BY <1>2, <1>4, <1>9, MergedThere, MergedIs
  <1> HIDE DEF found, d
  <1>12. d = q.wanted /\ c = IF q.wanted = NotFound THEN 204 ELSE 200
    BY <1>5, <1>10, <1>11
  <1>13. Busy(q)
    BY DEF q
  <1> HIDE DEF c
  <1>14. Right(p)
    BY <1>1, <1>12, <1>13, AnswerRight
  <1> HIDE DEF p
  <1> QED
    BY <1>8, <1>14 DEF Set

-----------------------------------------------------------------------------
(* The invariant of the reads is kept                                      *)

\* A read that was left alone has been answered with what is stored; any other
\* request has been answered.
AnswerInv ==
  \A r \in Requests : LET q == req[r] IN
    Done(q) /\ q.quiet =>
      /\ ~q.thrown
      /\ q.op \in {"get", "list", "allowed"} \/ (q.op = "getFolder" /\ policy # "binary") => Right(q)
ReadInv == ItemInv /\ FolderInv /\ AllowedInv /\ AnswerInv

\* Who only reads leaves the files as they are.
LEMMA ReadersKeep ==
  ASSUME NEW r \in Requests, Works(r), ~Writer(req[r])
  PROVE  UNCHANGED <<policy, store, link, inode>>
PROOF
  <1>1. CASE determineResource(r)
    BY <1>1 DEF determineResource
  <1>2. CASE Reads(r) \/ restCheckModifiedTimestamp(r) \/ putDone(r) \/ checkResourceModifiedTimestamp(r)
    BY <1>2 DEF Reads, restCheckModifiedTimestamp, putDone, checkResourceModifiedTimestamp, ReadOnly
  <1>3. ~openForWriting(r) /\ ~writeCallback(r)
    BY DEF openForWriting, writeCallback, Writer
  <1>4. ~Deletes(r)
    BY DEF Deletes, Writer
  <1> QED
    BY <1>1, <1>2, <1>3, <1>4 DEF Works

LEMMA SameFiles ==
  ASSUME UNCHANGED <<policy, store, link, inode>>
  PROVE  policy' = policy /\ store' = store /\ \A u : LeftAlone(u)
  BY DEF LeftAlone

\* A GET that is left alone, at its own step.
LEMMA OwnItem ==
  ASSUME TypeInv, WholeInv, QuietInv, ItemInv, NEW r \in Requests, Works(r), Handles(r),
         req[r].quiet, req[r].op = "get"
  PROVE  Goes(r, req[r].name, req[r].scope)
PROOF
  <1> DEFINE n == req[r].name
             s == req[r].scope
             a == req[r].at
  <1>1. Busy(req[r]) /\ n \in ItemNames /\ s \in Scopes /\ a \in Scopes
    BY Sent, ScopeOrder DEF Works, IsRequest
  <1>2. Quiet(req[r], n, s, a)
    BY <1>1 DEF Quiet
  <1> HIDE DEF n, s, a
  <1>3. ItemHere(r, n, s, a)
    BY <1>1, <1>2 DEF ItemInv, ItemHere
  <1>4. Goes(r, n, s)
    BY <1>1, <1>3, determineResourceItem, getJsonForAggregationNoneAsyncItem,
       getPathForAggregationNoneAsyncItem, getAggregatedJsonAsyncItem DEF Handles
  <1> QED
    BY <1>4 DEF n, s

\* A GET that is left alone, at any step of another request or of its own.
LEMMA WorksItem ==
  ASSUME TypeInv, WholeInv, QuietInv, ItemInv, NEW r \in Requests, Works(r), Handles(r),
         NEW x \in Requests, NEW n \in ItemNames, NEW s \in Scopes, NEW a \in Scopes,
         NEW q, q = req'[x], Quiet(q, n, s, a), q.op = "get"
  PROVE  Found(q, n, s, a)'
PROOF
  <1>1. Busy(q) /\ q.quiet /\ q.name = n /\ q.scope = s /\ q.at = a
    BY DEF Quiet
  <1>2. StoreType /\ getPathForScope(a, percentEncode(n)) \in Paths /\ DOMAIN req = Requests
    BY DEF StoreType, TypeInv, FilesType, RequestsType, Paths, FileNames, getPathForScope
  <1>3. ~Writer(q)
    BY DEF Writer
  <1>4. CASE x = r
    <2>1. Same(req[r], q)
      BY <1>4, WorksOthers
    <2>2. Goes(r, n, s) /\ ~Writer(req[r])
      BY <1>1, <1>3, <2>1, OwnItem DEF Same, Writer
    <2>3. Found(q, n, s, a)
      BY <1>1, <1>2, <1>4, <2>2 DEF Goes
    <2>4. policy' = policy /\ (\A t \in Scopes : store'[t][n] = store[t][n])
          /\ LeftAlone(getPathForScope(a, percentEncode(n)))
      BY <2>2, ReadersKeep, SameFiles
    <2> QED
      BY <1>2, <2>3, <2>4, ItemSame
  <1>5. CASE x # r
    <2>1. q = req[x]
      BY <1>5, WorksOthers
    <2>2. Found(q, n, s, a)
      BY <2>1 DEF ItemInv
    <2>3. Undisturbed(x) /\ Busy(req[x]) /\ ~Writer(req[x]) /\ n \in Names(req[x]) /\ Busy(req[r])
      BY <1>1, <1>3, <2>1 DEF QuietInv, Names, OnFolder, Works
    <2>4. policy' = policy /\ \A t \in Scopes : store'[t][n] = store[t][n]
      BY <2>3, PolicyKept, StoreKept
    <2>5. LeftAlone(getPathForScope(a, percentEncode(n)))
      BY <1>5, <2>3, WorksPaths, FilesKept
    <2> QED
      BY <1>2, <2>2, <2>4, <2>5, ItemSame
  <1> QED
    BY <1>4, <1>5

\* A GET that has just arrived.
LEMMA SendItem ==
  ASSUME TypeInv, ItemInv, NEW r \in Requests, Send(r),
         NEW x \in Requests, NEW n \in ItemNames, NEW s \in Scopes, NEW a \in Scopes,
         NEW q, q = req'[x], Quiet(q, n, s, a), q.op = "get"
  PROVE  Found(q, n, s, a)'
PROOF
  <1>1. Busy(q) /\ q.quiet /\ q.name = n /\ q.scope = s /\ q.at = a
    BY DEF Quiet
  <1>2. UNCHANGED <<policy, store, link, inode>> /\ StoreType
    BY SendRequests DEF ReadOnly, StoreType, TypeInv, FilesType
  <1>3. policy' = policy /\ (\A t \in Scopes : store'[t][n] = store[t][n])
        /\ LeftAlone(getPathForScope(a, percentEncode(n)))
    BY <1>2, SameFiles
  <1>4. CASE x = r
    <2>1. q.pc = "resolve" /\ q.first = TRUE
      BY <1>4, SendRequests DEF Arrived, Fresh
    <2>2. /\ a = IF policy = "override" THEN Plugin ELSE s
          /\ q.wanted = IF policy = "override" THEN Overridden(n, s) ELSE Plain(n, s)
      BY <1>1, <1>4, SendReads
    <2>3. policy = "override" => Having(n, a + 1) = {}
      BY <2>2 DEF Having, Plugin
    <2>4. policy # "override" => \A t \in s .. Plugin : ~(t < a)
      BY <2>2, ScopeOrder DEF Scopes, User, Plugin
    <2>5. Found(q, n, s, a)
      BY <2>1, <2>2, <2>3, <2>4 DEF Found, Gathered
    <2> QED
      BY <1>2, <1>3, <2>5, ItemSame
  <1>5. CASE x # r
    <2>1. q = req[x]
      BY <1>1, <1>5, SendRequests
    <2>2. Found(q, n, s, a)
      BY <2>1 DEF ItemInv
    <2> QED
      BY <1>2, <1>3, <2>2, ItemSame
  <1> QED
    BY <1>4, <1>5

\* A request for all items, at its own step.
LEMMA OwnFolder ==
  ASSUME TypeInv, WholeInv, QuietInv, FolderInv, NEW r \in Requests, Works(r), Handles(r),
         req[r].quiet, req[r].op = "getFolder", policy # "binary"
  PROVE  GoesAll(r, req[r].scope)
PROOF
  <1> DEFINE s == req[r].scope
             a == req[r].at
  <1>1. Busy(req[r]) /\ s \in Scopes /\ a \in Scopes
    BY Sent, ScopeOrder DEF Works, IsRequest
  <1>2. QuietAll(req[r], s, a)
    BY <1>1 DEF QuietAll
  <1> HIDE DEF s, a
  <1>3. AllHere(r, s, a)
    BY <1>1, <1>2 DEF FolderInv, AllHere
  <1>4. GoesAll(r, s)
    BY <1>1, <1>3, determineResourceAll, getFileListingAsyncAll, configFileVisitorAsyncAll,
       configFileOverrideVisitorAll DEF Handles
  <1> QED
    BY <1>4 DEF s

\* One for their names.
LEMMA OwnListing ==
  ASSUME TypeInv, WholeInv, QuietInv, FolderInv, NEW r \in Requests, Works(r), Handles(r),
         req[r].quiet, req[r].op = "list"
  PROVE  determineResource(r) \/ \E p : req' = [req EXCEPT ![r] = p] /\ Done(p) /\ Right(p)
PROOF
  <1> DEFINE s == req[r].scope
             a == req[r].at
  <1>1. Busy(req[r]) /\ s \in Scopes /\ a \in Scopes
    BY Sent, ScopeOrder DEF Works, IsRequest
  <1>2. QuietAll(req[r], s, a)
    BY <1>1 DEF QuietAll
  <1> HIDE DEF s, a
  <1>3. IsListing(req[r].wanted, s)
    BY <1>1, <1>2 DEF FolderInv
  <1> QED
    BY <1>1, <1>2, <1>3, getFileListingRight DEF Handles

\* What a request for all items, or their names, is to satisfy.
Folder(q, s, a) ==
  /\ q.op = "list" => IsListing(q.wanted, s)
  /\ q.op = "getFolder" /\ policy # "binary" => Collected(q, s, a)

LEMMA FolderSame ==
  ASSUME StoreType, NEW q, NEW s \in Scopes, NEW a \in Scopes, policy' = policy,
         \A t \in Scopes, n \in ItemNames : store'[t][n] = store[t][n],
         \A n \in ItemNames : LeftAlone(getPathForScope(a, percentEncode(n))),
         Folder(q, s, a)
  PROVE  Folder(q, s, a)'
PROOF
  <1>1. /\ \A w : IsListing(w, s) => IsListing(w, s)'
        /\ Collected(q, s, a) => Collected(q, s, a)'
    BY AllSame
  <1>2. IsListing(q.wanted, s) => IsListing(q.wanted, s)'
    BY <1>1
  <1> QED
    BY <1>1, <1>2 DEF Folder

\* A request for all items, or their names, that is left alone, at any step of
\* another request or of its own.
LEMMA WorksFolder ==
  ASSUME TypeInv, WholeInv, QuietInv, FolderInv, NEW r \in Requests, Works(r), Handles(r),
         NEW x \in Requests, NEW s \in Scopes, NEW a \in Scopes,
         NEW q, q = req'[x], QuietAll(q, s, a), q.op \in {"list", "getFolder"}
  PROVE  Folder(q, s, a)'
PROOF
  <1>1. Busy(q) /\ q.quiet /\ q.scope = s /\ q.at = a
    BY DEF QuietAll
  <1>2. StoreType /\ DOMAIN req = Requests
    BY DEF StoreType, TypeInv, FilesType, RequestsType
  <1>3. ~Writer(q)
    BY DEF Writer
  <1>4. CASE x = r
    <2>1. Same(req[r], q) /\ Busy(req[r])
      BY <1>4, WorksOthers
    <2>2. ~Writer(req[r]) /\ req[r].quiet /\ req[r].scope = s /\ req[r].op = q.op /\ req[r].wanted = q.wanted
      BY <1>1, <1>3, <2>1 DEF Same, Writer
    <2>3. q.op = "getFolder" /\ policy # "binary" => Collected(q, s, a)
      <3> SUFFICES ASSUME q.op = "getFolder", policy # "binary" PROVE Collected(q, s, a)
        OBVIOUS
      <3>1. GoesAll(r, s)
        BY <2>2, OwnFolder
      <3> QED
        BY <1>1, <1>2, <1>4, <3>1 DEF GoesAll
    <2>4. IsListing(q.wanted, s) \/ q.op # "list"
      <3>1. req[r].at \in Scopes
        BY <2>1, Sent, ScopeOrder DEF IsRequest
      <3>2. QuietAll(req[r], s, req[r].at)
        BY <2>1, <2>2 DEF QuietAll
      <3> QED
        BY <2>2, <3>1, <3>2 DEF FolderInv
    <2>5. Folder(q, s, a)
      BY <2>3, <2>4 DEF Folder
    <2>6. policy' = policy /\ (\A t \in Scopes, n \in ItemNames : store'[t][n] = store[t][n])
          /\ \A n \in ItemNames : LeftAlone(getPathForScope(a, percentEncode(n)))
      BY <2>2, ReadersKeep, SameFiles
    <2> QED
      BY <1>2, <2>5, <2>6, FolderSame
  <1>5. CASE x # r
    <2>1. q = req[x]
      BY <1>5, WorksOthers
    <2>2. Folder(q, s, a)
      BY <2>1 DEF FolderInv, Folder
    <2>3. Undisturbed(x) /\ Busy(req[x]) /\ ~Writer(req[x]) /\ Names(req[x]) = ItemNames /\ Busy(req[r])
      BY <1>1, <1>3, <2>1 DEF QuietInv, Names, OnFolder, Works
    <2>4. policy' = policy /\ \A t \in Scopes, n \in ItemNames : store'[t][n] = store[t][n]
      BY <2>3, PolicyKept, StoreKept
    <2>5. \A n \in ItemNames : LeftAlone(getPathForScope(a, percentEncode(n)))
      BY <1>5, <2>3, WorksPaths, FilesKept
    <2> QED
      BY <1>2, <2>2, <2>4, <2>5, FolderSame
  <1> QED
    BY <1>4, <1>5

\* One that has just arrived.
LEMMA SendFolder ==
  ASSUME TypeInv, FolderInv, NEW r \in Requests, Send(r),
         NEW x \in Requests, NEW s \in Scopes, NEW a \in Scopes,
         NEW q, q = req'[x], QuietAll(q, s, a), q.op \in {"list", "getFolder"}
  PROVE  Folder(q, s, a)'
PROOF
  <1>1. Busy(q) /\ q.quiet /\ q.scope = s /\ q.at = a
    BY DEF QuietAll
  <1>2. UNCHANGED <<policy, store, link, inode>> /\ StoreType
    BY SendRequests DEF ReadOnly, StoreType, TypeInv, FilesType
  <1>3. policy' = policy /\ (\A t \in Scopes, n \in ItemNames : store'[t][n] = store[t][n])
        /\ \A n \in ItemNames : LeftAlone(getPathForScope(a, percentEncode(n)))
    BY <1>2, SameFiles
  <1>4. CASE x = r
    <2>1. q.pc = "resolve" /\ q.table = <<>>
      BY <1>4, SendRequests DEF Arrived, Fresh
    <2>2. /\ q.op = "getFolder" => a = Plugin
          /\ \E z \in Inputs : q.op = z.op /\ q.scope = z.scope /\ q.wanted = WantedBy(z)
      BY <1>1, <1>4, SendReads
    <2>3. /\ q.op = "list" => IsListing(q.wanted, s)
          /\ q.op = "getFolder" /\ policy # "binary" => IsTable(q.wanted, s)
      BY <1>1, <2>2, WantedAll
    <2>4. q.op = "getFolder" => \A n \in ItemNames : Having(n, a + 1) = {}
      BY <2>2 DEF Having, Plugin
    <2>5. q.op = "getFolder" => SeenFrom(q.table, a + 1)
      <3>1. DOMAIN q.table = {}
        BY <2>1
      <3> QED
        BY <2>4, <3>1 DEF SeenFrom, IsListing
    <2>6. Folder(q, s, a)
      BY <2>1, <2>3, <2>5 DEF Folder, Collected
    <2> QED
      BY <1>2, <1>3, <2>6, FolderSame
  <1>5. CASE x # r
    <2>1. q = req[x]
      BY <1>1, <1>5, SendRequests
    <2>2. Folder(q, s, a)
      BY <2>1 DEF FolderInv, Folder
    <2> QED
      BY <1>2, <1>3, <2>2, FolderSame
  <1> QED
    BY <1>4, <1>5

\* A request for the allowed plugins that is left alone, at any step.
LEMMA WorksAllowed ==
  ASSUME TypeInv, WholeInv, QuietInv, AllowedInv, NEW r \in Requests, Works(r),
         NEW x \in Requests, NEW n \in ItemNames, NEW s \in Scopes,
         NEW q, q = req'[x], Allowed(q, n, s)
  PROVE  q.wanted = Merged(n, s)'
PROOF
  <1>1. Busy(q) /\ q.quiet /\ q.op = "allowed" /\ q.name = n /\ q.scope = s
    BY DEF Allowed
  <1>2. StoreType /\ s \in Nat /\ s .. Plugin \subseteq Scopes
    BY ScopeOrder DEF StoreType, TypeInv, FilesType
  <1>3. CASE x = r
    <2>1. Same(req[r], q) /\ Busy(req[r])
      BY <1>3, WorksOthers
    <2>2. Allowed(req[r], n, s) /\ req[r].wanted = q.wanted /\ ~Writer(req[r])
      BY <1>1, <2>1 DEF Same, Allowed, Writer
    <2>3. store' = store
      BY <2>2, ReadersKeep
    <2> QED
      BY <1>2, <2>2, <2>3, ChainKept DEF AllowedInv
  <1>4. CASE x # r
    <2>1. q = req[x]
      BY <1>4, WorksOthers
    <2>2. q.wanted = Merged(n, s)
      BY <2>1 DEF AllowedInv
    <2>3. Undisturbed(x) /\ Busy(req[x]) /\ ~Writer(req[x]) /\ n \in Names(req[x])
      BY <1>1, <2>1 DEF QuietInv, Names, OnFolder, Writer
    <2>4. \A t \in Scopes : store'[t][n] = store[t][n]
      BY <2>3, StoreKept
    <2> QED
      BY <1>2, <2>2, <2>4, ChainKept
  <1> QED
    BY <1>3, <1>4

\* One that has just arrived.
LEMMA SendAllowed ==
  ASSUME TypeInv, AllowedInv, NEW r \in Requests, Send(r),
         NEW x \in Requests, NEW n \in ItemNames, NEW s \in Scopes,
         NEW q, q = req'[x], Allowed(q, n, s)
  PROVE  q.wanted = Merged(n, s)'
PROOF
  <1>1. Busy(q) /\ q.quiet /\ q.op = "allowed" /\ q.name = n /\ q.scope = s
    BY DEF Allowed
  <1>2. StoreType /\ s \in Nat /\ s .. Plugin \subseteq Scopes /\ store' = store
    BY ScopeOrder, SendRequests DEF StoreType, TypeInv, FilesType, ReadOnly
  <1>3. Merged(n, s)' = Merged(n, s)
    BY <1>2, ChainKept
  <1>4. CASE x = r
    BY <1>1, <1>3, <1>4, SendReads
  <1>5. CASE x # r
    <2>1. q = req[x]
      BY <1>1, <1>5, SendRequests
    <2> QED
      BY <1>3, <2>1 DEF AllowedInv
  <1> QED
    BY <1>4, <1>5

\* What a request that has been answered is to satisfy.
Answered(q) ==
  /\ ~q.thrown
  /\ q.op \in {"get", "list", "allowed"} \/ (q.op = "getFolder" /\ policy # "binary") => Right(q)

LEMMA WorksAnswer ==
  ASSUME TypeInv, WholeInv, QuietInv, ReadInv, NEW r \in Requests, Works(r), Handles(r),
         NEW x \in Requests, NEW q, q = req'[x], Done(q), q.quiet
  PROVE  Answered(q)'
PROOF
  <1>1. policy' = policy /\ DOMAIN req = Requests
    BY PolicyKept DEF TypeInv, RequestsType
  <1>2. CASE x = r
    <2>1. Same(req[r], q) /\ Busy(req[r]) /\ IsRequest(q) /\ Fields \subseteq DOMAIN req[r]
      BY <1>2, WorksOthers, Sent
    <2>2. req[r].op = q.op /\ req[r].quiet
      BY <2>1 DEF Same
    <2>3. ~determineResource(r)
      <3> SUFFICES ASSUME determineResource(r) PROVE FALSE
        OBVIOUS
      <3> DEFINE p == [req[r] EXCEPT !.pc = "start"]
      <3>1. q = p
        BY <1>1, <1>2 DEF determineResource, Set
      <3>2. p.pc = "start"
        BY <2>1 DEF Fields
      <3> HIDE DEF p
      <3> QED
        BY <3>1, <3>2 DEF Done
    <2>4. CASE q.op = "get"
      <3>1. Goes(r, req[r].name, req[r].scope)
        BY <2>2, <2>4, OwnItem DEF ReadInv
      <3>2. Right(q)
        BY <1>1, <1>2, <3>1 DEF Goes
      <3> QED
        BY <2>4, <3>2 DEF Answered, Right
    <2>5. CASE q.op = "list"
      <3>1. \E p : req' = [req EXCEPT ![r] = p] /\ Done(p) /\ Right(p)
        BY <2>2, <2>3, <2>5, OwnListing DEF ReadInv
      <3>2. Right(q)
        BY <1>1, <1>2, <3>1
      <3> QED
        BY <2>5, <3>2 DEF Answered, Right
    <2>6. CASE q.op = "getFolder" /\ policy # "binary"
      <3>1. GoesAll(r, req[r].scope)
        BY <2>2, <2>6, OwnFolder DEF ReadInv
      <3>2. Right(q)
        BY <1>1, <1>2, <3>1 DEF GoesAll
      <3> QED
        BY <2>6, <3>2 DEF Answered, Right
    <2>7. CASE q.op = "allowed"
      <3>1. \E p : req' = [req EXCEPT ![r] = p] /\ Right(p)
        BY <2>1, <2>2, <2>3, <2>7, getAllowedPluginsRight DEF Handles, ReadInv
      <3>2. Right(q)
        BY <1>1, <1>2, <3>1
      <3> QED
        BY <2>7, <3>2 DEF Answered, Right
    <2>8. CASE q.op \notin {"get", "allowed", "list"} /\ ~(q.op = "getFolder" /\ policy # "binary")
      <3>1. ~q.thrown
        BY <2>1, <2>8 DEF IsRequest, Replies, Done
      <3> QED
        BY <1>1, <2>8, <3>1 DEF Answered
    <2> QED
      BY <2>4, <2>5, <2>6, <2>7, <2>8
  <1>3. CASE x # r
    <2>1. q = req[x]
      BY <1>3, WorksOthers
    <2> QED
      BY <1>1, <2>1 DEF ReadInv, AnswerInv, Answered
  <1> QED
    BY <1>2, <1>3

LEMMA SendAnswer ==
  ASSUME TypeInv, ReadInv, NEW r \in Requests, Send(r),
         NEW x \in Requests, NEW q, q = req'[x], Done(q), q.quiet
  PROVE  Answered(q)'
PROOF
  <1>1. policy' = policy /\ q = req[x]
    BY SendRequests DEF ReadOnly, Done
  <1> QED
    BY <1>1 DEF ReadInv, AnswerInv, Answered

LEMMA StepRead ==
  ASSUME TypeInv, WholeInv, QuietInv, ReadInv, [Next]_vars
  PROVE  ReadInv'
PROOF
  <1>1. CASE UNCHANGED vars
    <2>1. policy' = policy /\ req' = req /\ store' = store /\ link' = link /\ inode' = inode
      BY <1>1 DEF vars
    <2>2. StoreType /\ \A u : LeftAlone(u)
      BY <2>1 DEF StoreType, TypeInv, FilesType, LeftAlone
    <2>3. ASSUME NEW x \in Requests, NEW n \in ItemNames, NEW s \in Scopes, NEW a \in Scopes,
                 Quiet(req'[x], n, s, a), req'[x].op = "get"
          PROVE  Found(req[x], n, s, a)'
      <3>1. PICK q : q = req'[x]
        OBVIOUS
      <3>2. Found(q, n, s, a)
        BY <2>1, <2>3, <3>1 DEF ReadInv, ItemInv
      <3>3. Found(q, n, s, a)'
        BY <2>1, <2>2, <3>2, ItemSame
      <3> QED
        BY <3>1, <3>3 DEF Found, Gathered
    <2>4. ASSUME NEW x \in Requests, NEW s \in Scopes, NEW a \in Scopes, QuietAll(req'[x], s, a),
                 req'[x].op \in {"list", "getFolder"}
          PROVE  Folder(req[x], s, a)'
      <3>1. PICK q : q = req'[x]
        OBVIOUS
      <3>2. Folder(q, s, a)
        BY <2>1, <2>4, <3>1 DEF ReadInv, FolderInv, Folder
      <3>3. Folder(q, s, a)'
        BY <2>1, <2>2, <3>2, FolderSame
      <3> QED
        BY <3>1, <3>3 DEF Folder, IsListing, Collected, IsTable, SeenFrom, Visited
    <2>5. AnswerInv'
      BY <2>1 DEF ReadInv, AnswerInv
    <2>6. AllowedInv'
      <3> SUFFICES ASSUME NEW x \in Requests, NEW n \in ItemNames, NEW s \in Scopes,
                          Allowed(req[x], n, s)'
                   PROVE  (req[x].wanted = Merged(n, s))'
        BY DEF AllowedInv
      <3>1. Allowed(req[x], n, s)
        BY <2>1 DEF Allowed, Busy
      <3>2. Merged(n, s)' = Merged(n, s)
        BY <2>1, <2>2, ChainKept, ScopeOrder
      <3> QED
        BY <2>1, <3>1, <3>2 DEF ReadInv, AllowedInv
    <2> QED
      BY <2>3, <2>4, <2>5, <2>6 DEF ReadInv, ItemInv, FolderInv, Folder, Quiet, QuietAll
  <1>2. ASSUME NEW r \in Requests, Send(r) \/ (Works(r) /\ Handles(r)) PROVE ReadInv'
    <2>1. ASSUME NEW x \in Requests, NEW n \in ItemNames, NEW s \in Scopes, NEW a \in Scopes,
                 Quiet(req'[x], n, s, a), req'[x].op = "get"
          PROVE  Found(req[x], n, s, a)'
      <3>1. PICK q : q = req'[x]
        OBVIOUS
      <3>2. Found(q, n, s, a)'
        BY <1>2, <2>1, <3>1, WorksItem, SendItem DEF ReadInv
      <3> QED
        BY <3>1, <3>2 DEF Found, Gathered
    <2>2. ASSUME NEW x \in Requests, NEW s \in Scopes, NEW a \in Scopes, QuietAll(req'[x], s, a),
                 req'[x].op \in {"list", "getFolder"}
          PROVE  Folder(req[x], s, a)'
      <3>1. PICK q : q = req'[x]
        OBVIOUS
      <3>2. Folder(q, s, a)'
        BY <1>2, <2>2, <3>1, WorksFolder, SendFolder DEF ReadInv
      <3> QED
        BY <3>1, <3>2 DEF Folder, IsListing, Collected, IsTable, SeenFrom, Visited
    <2>3. ASSUME NEW x \in Requests, Done(req'[x]), req'[x].quiet PROVE Answered(req[x])'
      <3>1. PICK q : q = req'[x]
        OBVIOUS
      <3>2. Answered(q)'
        BY <1>2, <2>3, <3>1, WorksAnswer, SendAnswer
      <3> QED
        BY <3>1, <3>2 DEF Answered, Right
    <2>4. ItemInv' /\ AnswerInv'
      BY <2>1, <2>3 DEF ItemInv, AnswerInv, Answered
    <2>5. FolderInv'
      BY <2>2 DEF FolderInv, Folder
    <2>6. AllowedInv'
      <3> SUFFICES ASSUME NEW x \in Requests, NEW n \in ItemNames, NEW s \in Scopes,
                          Allowed(req[x], n, s)'
                   PROVE  (req[x].wanted = Merged(n, s))'
        BY DEF AllowedInv
      <3>1. PICK q : q = req'[x]
        OBVIOUS
      <3>2. Allowed(q, n, s)
        BY <3>1 DEF Allowed, Busy
      <3>3. q.wanted = Merged(n, s)'
        BY <1>2, <3>1, <3>2, WorksAllowed, SendAllowed DEF ReadInv
      <3> QED
        BY <3>1, <3>3
    <2> QED
      BY <2>4, <2>5, <2>6 DEF ReadInv
  <1> QED
    BY <1>1, <1>2, StepHandles

-----------------------------------------------------------------------------
(* The theorems                                                            *)

ReadsInv == TypeInv /\ WholeInv /\ QuietInv /\ ReadInv

\* TypeInv for the requests, WholeInv and QuietInv for the files they find, and
\* ReadInv for how far they have come.
LEMMA ReadsInvariant == Spec => []ReadsInv
PROOF
  <1>1. Init => ReadsInv
    <2> SUFFICES ASSUME Init PROVE ReadsInv
      OBVIOUS
    <2>1. \A r \in Requests : req[r].pc = "unsent"
      BY DEF Init
    <2>2. TypeInv /\ LinksApart /\ FileWhole
      BY InitType, InitFiles
    <2>3. WriterInv /\ QuietInv
      BY <2>1 DEF WriterInv, Writing, QuietInv, Busy
    <2>4. ReadInv
      BY <2>1 DEF ReadInv, ItemInv, FolderInv, AllowedInv, AnswerInv, Quiet, QuietAll, Allowed, Busy, Done
    <2> QED
      BY <2>2, <2>3, <2>4 DEF WholeInv, ReadsInv
  <1>2. ReadsInv /\ [Next]_vars => ReadsInv'
    BY StepType, StepWhole, StepQuiet, StepRead DEF ReadsInv
  <1> QED
    BY <1>1, <1>2, PTL DEF Spec

\* Every request is answered once, except that the deletion of a folder answers
\* for every entry that vanishes, and that an aggregating read throws, and never
\* answers, only when a file it reads is written meanwhile or damaged.
THEOREM AnsweredAll == Spec => []AnsweredOnce
PROOF
  <1>1. ReadsInv => AnsweredOnce
    <2> SUFFICES ASSUME TypeInv, AnswerInv, NEW r \in Requests
                 PROVE  LET q == req[r] IN
                        /\ Busy(q) /\ q.gone = 0 => q.answers = <<>>
                        /\ Done(q) => \/ Len(q.answers) = (IF q.gone > 1 THEN q.gone ELSE 1) /\ ~q.thrown
                                      \/ q.answers = <<>> /\ q.thrown /\ ~q.quiet
      BY DEF ReadsInv, ReadInv, AnsweredOnce
    <2> DEFINE q == req[r]
    <2>1. ASSUME Busy(q) \/ Done(q) PROVE Replies(q)
      BY <2>1 DEF TypeInv, RequestsType, Busy, Done, IsRequest
    <2>2. ASSUME Busy(q), q.gone = 0 PROVE q.answers = <<>>
      <3>1. q.answers \in Seq({Failure}) /\ Len(q.answers) = 0
        BY <2>1, <2>2 DEF Replies
      <3> QED
        BY <3>1
    <2>3. Done(q) => ~(q.quiet /\ q.thrown)
      BY DEF AnswerInv
    <2>4. ASSUME Done(q)
          PROVE  \/ Len(q.answers) = (IF q.gone > 1 THEN q.gone ELSE 1) /\ ~q.thrown
                 \/ q.answers = <<>> /\ q.thrown
      BY <2>1, <2>4 DEF Replies, Done
    <2> HIDE DEF q
    <2> QED
      BY <2>2, <2>3, <2>4 DEF q
  <1> QED
    BY <1>1, ReadsInvariant, PTL

\* A read during which nobody writes to the same names is answered with what the
\* chain of scopes holds: without a policy the narrowest file from the asked scope
\* on, under override every property from the narrowest scope that gives it a
\* value, merged with its arrays joined, for all items every name there is with
\* its narrowest file; however the reads interleave with one another and with
\* requests for other names.
THEOREM ReadsAreRight == Spec => []ReadsRight
PROOF
  <1>1. ReadsInv => ReadsRight
    <2> SUFFICES ASSUME TypeInv, AnswerInv, NEW r \in Requests,
                        Done(req[r]), ~Writer(req[r]), req[r].quiet,
                        ~(req[r].op = "getFolder" /\ policy = "binary")
                 PROVE  Right(req[r])
      BY DEF ReadsInv, ReadInv, ReadsRight, Right
    <2>1. IsRequest(req[r])
      BY DEF TypeInv, RequestsType, Done
    <2>2. req[r].op \in {"get", "allowed", "list", "getFolder"}
      BY <2>1 DEF IsRequest, Writer
    <2> QED
      BY <2>2 DEF AnswerInv
  <1> QED
    BY <1>1, ReadsInvariant, PTL
=============================================================================
