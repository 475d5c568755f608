--------------------------- MODULE ConfigService ---------------------------
(***************************************************************************)
(* The configuration service (plugins/config/lib/configService.js): REST   *)
(* requests on one leaf resource of a plugin.  Every call of fs is a step,  *)
(* so that the requests interleave at each of them; only open with fstat,   *)
(* and fstat or read with close, are one step.                              *)
(*                                                                         *)
(* The resource has a directory per scope; its files hold JSON objects, or  *)
(* bytes if the resource is binary.  It is a subresource of one that has no  *)
(* other.                                                                   *)
(* Scopes are numbered along the chain, the narrowest first; groups are     *)
(* not used by the code.                                                    *)
(***************************************************************************)
EXTENDS Naturals, Sequences, FiniteSets, SequencesExt

CONSTANTS Requests,    \* bound: the requests, each sent once
          ItemNames,   \* names the clients use: sequences of characters
          Bodies,      \* JSON objects the clients write: [Keys -> Values]
          Absent,      \* the value of a property an object does not have
          Falsy,       \* stands for false, 0, "" and null
          Scalars,     \* those two and the other values that are no arrays
          Policies,    \* aggregationPolicy of the resource, or "binary"
          Stores,      \* what the directories hold at first
          Empty,       \* text of a file just truncated
          Mixed,       \* text that is neither empty nor one JSON object
          NoData,      \* null: what JSON.parse could not read
          NotFound,    \* no file
          MaxFailures  \* bound: writes that fail

User == 1
Instance == 2
Site == 3
Product == 4
Plugin == 5
Scopes == User .. Plugin
WritableScopes == {User, Instance}  \* and Site, which adds no case

Values == UNION {{b[k] : k \in DOMAIN b} : b \in Bodies}
Elements == UNION {{v[i] : i \in DOMAIN v} : v \in Values \ Scalars}

\* Names and the values that are no scalars are sequences; objects have the same
\* keys, and what stands for something else is no object.
ASSUME ConfigAssumption ==
  /\ IsFiniteSet(ItemNames) /\ ItemNames # {}
  /\ \A n \in ItemNames : n \in Seq({n[i] : i \in DOMAIN n})
  /\ {Absent, Falsy} \subseteq Scalars /\ Scalars \cap Seq(Elements) = {}
  /\ Values \subseteq Scalars \cup Seq(Elements)
  /\ \A b \in Bodies :
       /\ Bodies \subseteq [DOMAIN b -> Values]
       /\ {Empty, Mixed, NoData, NotFound} \cap [DOMAIN b -> Scalars \cup Seq(Elements)] = {}
  /\ NoData \notin {Empty, Mixed, NotFound} /\ NotFound \notin {Empty, Mixed}
  /\ Policies \subseteq {"none", "override", "binary"}
  /\ MaxFailures \in Nat
  /\ Stores \subseteq [Scopes -> [ItemNames -> Bodies \cup {NotFound}]]

VARIABLES
  policy,  \* aggregationPolicy, or "binary"
  inode,   \* files by the order of creation: text, modification time, and all
           \* the times a client may have read
  link,    \* the directories: the file a path names, or 0
  dir,     \* by scope: the times the directory was modified, {} if there is none
  clock,   \* modification times are distinct
  req,     \* the requests
  faults,  \* failures so far
  store,   \* specification: what was written last under a scope and a name
  torn     \* history: files opened by two writers at once, or with a failure

vars == <<policy, inode, link, dir, clock, req, faults, store, torn>>

(***************************************************************************)
(* Names and paths.                                                        *)
(***************************************************************************)
\* (mutant: the escape character is not escaped)
EncodeAllButPercent(value) ==
  FlattenSeq([i \in DOMAIN value |->
    IF value[i] = " " THEN <<"%", "2", "0">> ELSE <<value[i]>>])

\* The special characters are represented by a space.
Encoded(c) ==
  IF c = " " THEN <<"%", "2", "0">> ELSE IF c = "%" THEN <<"%", "2", "5">> ELSE <<c>>

percentEncode(value) == FlattenSeq([i \in DOMAIN value |-> Encoded(value[i])])

FileNames == {percentEncode(n) : n \in ItemNames}

\* What stands for no file is neither a list of names nor a table of files.
ASSUME NoFileAssumption ==
  \A names \in SUBSET FileNames : NotFound # names /\ NotFound \notin [names -> Bodies]

getPathForScope(scope, filename) == <<scope, filename>>
getNextBroadestScope(scope) == IF scope = Plugin THEN 0 ELSE scope + 1
getNextNarrowestScope(scope) == scope - 1

(***************************************************************************)
(* Aggregation.                                                            *)
(***************************************************************************)
\* (mutant: the broader scope wins)
OverrideByOriginal(original, override) ==
  [k \in DOMAIN override |->
     IF original[k] # Absent THEN original[k] ELSE override[k]]

\* A property of the override wins unless its value is falsy.
overrideJsonProperties(original, override) ==
  [k \in DOMAIN override |->
     IF override[k] \in {Absent, Falsy} /\ original[k] # Absent
     THEN original[k] ELSE override[k]]

\* Arrays are joined, the narrower one first.
mergeJsonProperties(original, override) ==
  [k \in DOMAIN override |->
     IF override[k] \notin Scalars /\ original[k] \notin Scalars
     THEN override[k] \o original[k]
     ELSE overrideJsonProperties(original, override)[k]]

\* What a read at a scope is for.  Without a policy it is the file of the
\* narrowest scope from the asked one on; under override every property from
\* the narrowest scope, up to the asked one, that gives it a value that is not
\* falsy; merged, an array is joined with those of the broader scopes up to the
\* first that has neither an array nor a falsy value.  A read of all items gives
\* the narrowest file of each, also under override, where data.yaml promises more:
\* see CollectionAggregated.
Having(n, from) == {s \in from .. Plugin : store[s][n] # NotFound}
Nearest(S) == CHOOSE s \in S : \A t \in S : s <= t
Widest(S) == CHOOSE s \in S : \A t \in S : s >= t
Plain(n, scope) ==
  IF Having(n, scope) = {} THEN NotFound ELSE store[Nearest(Having(n, scope))][n]
PerProperty(n, scope, Value(_)) ==
  IF Having(n, scope) = {} THEN NotFound ELSE [k \in DOMAIN Plain(n, scope) |-> Value(k)]
Property(n, scope, k) ==
  LET given(without) == {s \in Having(n, scope) : store[s][n][k] \notin without}
      from(S) == store[Nearest(S)][n][k] IN
  IF given({Absent, Falsy}) # {} THEN from(given({Absent, Falsy}))
  ELSE IF given({Absent}) # {} THEN store[Widest(given({Absent}))][n][k] ELSE Absent
Overridden(n, scope) ==
  LET value(k) == Property(n, scope, k) IN PerProperty(n, scope, value)
Lists(n, scope, k) ==
  LET scalars == {s \in Having(n, scope) : store[s][n][k] \in Scalars \ {Absent, Falsy}} IN
  {s \in Having(n, scope) : store[s][n][k] \notin Scalars /\ \A t \in scalars : s < t}
Joined(n, scope, k) ==
  FlattenSeq([s \in Scopes |-> IF s \in Lists(n, scope, k) THEN store[s][n][k] ELSE <<>>])
Merged(n, scope) ==
  LET value(k) == IF Lists(n, scope, k) = {} THEN Property(n, scope, k) ELSE Joined(n, scope, k)
  IN  PerProperty(n, scope, value)

(***************************************************************************)
(* Requests.                                                               *)
(***************************************************************************)
InodeAt(s, f) == link[getPathForScope(s, f)]
Busy(rq) == rq.pc \notin {"unsent", "done"}
OnFolder(rq) == rq.op \in {"getFolder", "list", "deleteFolder", "deleteTree"}
Writer(rq) == rq.op \in {"put", "delete", "deleteFolder", "deleteTree"}
Names(rq) == IF OnFolder(rq) THEN ItemNames ELSE {rq.name}
Clash(a, b) == (Writer(a) \/ Writer(b)) /\ Names(a) \cap Names(b) # {}

\* quiet: no request that writes to the same name runs meanwhile; wanted: what
\* it is to read; missed: the time stamp was not checked, there was no file.
New(op, scope, n, body) ==
  [op |-> op, pc |-> "resolve", scope |-> scope, name |-> n, body |-> body,
   lastmod |-> 0, at |-> scope, fd |-> 0, seen |-> 0, first |-> TRUE,
   data |-> NoData, entries |-> {}, table |-> <<>>, gone |-> 0, answers |-> <<>>,
   quiet |-> TRUE, wanted |-> NoData, missed |-> FALSE, thrown |-> FALSE]

Init ==
  /\ policy \in Policies
  /\ store \in Stores
  /\ LET files == SetToSeq({p \in Scopes \X ItemNames : store[p[1]][p[2]] # NotFound})
         path(i) == getPathForScope(files[i][1], percentEncode(files[i][2]))
     IN  /\ inode = [i \in DOMAIN files |->
                      [text |-> store[files[i][1]][files[i][2]], time |-> i, times |-> {i}]]
         /\ link = [p \in Scopes \X FileNames |->
                      IF \E i \in DOMAIN files : path(i) = p
                      THEN CHOOSE i \in DOMAIN files : path(i) = p ELSE 0]
         /\ clock = Len(files) + 1
  /\ dir = [s \in Scopes |-> IF \E n \in ItemNames : store[s][n] # NotFound
                             THEN {clock} ELSE {}]
  /\ req = [r \in Requests |-> [pc |-> "unsent"]]
  /\ faults = 0 /\ torn = {}

\* router, dispatchByMethod, handleGet, handlePut, handleDelete and
\* getAllowedPlugins ("allowed").  lastmod is a time the file of that scope had,
\* or the directory; a folder request has no name, "deleteTree" is on the parent
\* resource with recursive=true.  "allowed" is for a caller that knows where the
\* plugin is; webapp.js passes an undefined location, and the plugin's defaults
\* are then not read.
Times(s, n) == LET i == InodeAt(s, percentEncode(n)) IN
               {0} \cup (IF i = 0 THEN {} ELSE inode[i].times)
Inputs ==
  LET n0 == CHOOSE n \in ItemNames : TRUE
      b0 == CHOOSE b \in Bodies : TRUE
      at(rq) == [rq EXCEPT !.at = IF rq.op = "get" /\ policy # "override" THEN rq.scope ELSE Plugin]
      timed(op, s, n, b) == {[New(op, s, n, b) EXCEPT !.lastmod = t] : t \in Times(s, n)}
      tree(s) == {[New("deleteTree", s, n0, b0) EXCEPT !.lastmod = t] : t \in {0} \cup dir[s]}
  IN  (UNION {timed("put", s, n, b) : s \in WritableScopes, n \in ItemNames, b \in Bodies})
      \cup (UNION {timed("delete", s, n, b0) : s \in WritableScopes, n \in ItemNames})
      \cup {at(New("get", s, n, b0)) : s \in {User, Instance, Plugin}, n \in ItemNames}
      \cup {New("allowed", s, n0, b0) : s \in WritableScopes}
      \cup {New("list", s, n0, b0) : s \in WritableScopes}
      \cup (UNION {tree(s) : s \in WritableScopes})
      \cup {New("deleteFolder", s, n0, b0) : s \in WritableScopes}
      \cup {at(New("getFolder", s, n0, b0)) : s \in WritableScopes}

LatestTime(times) == IF times = {} THEN 0 ELSE CHOOSE t \in times : \A u \in times : u <= t
WantedBy(rq) ==
  CASE rq.op = "get" /\ policy # "override" -> Plain(rq.name, rq.scope)
    [] rq.op = "get" /\ policy = "override" -> Overridden(rq.name, rq.scope)
    [] rq.op = "allowed" -> Merged(rq.name, rq.scope)
    [] rq.op = "list" -> {percentEncode(n) : n \in {m \in ItemNames : Having(m, rq.scope) # {}}}
    [] rq.op = "deleteTree" -> LatestTime(dir[rq.scope])
    [] rq.op = "getFolder" /\ policy = "binary" -> NoData
    [] rq.op = "getFolder" ->
         LET names == {n \in ItemNames : Having(n, rq.scope) # {}} IN
         IF names = {} THEN NotFound
         ELSE [f \in {percentEncode(n) : n \in names} |->
                 Plain(CHOOSE n \in names : percentEncode(n) = f, rq.scope)]
    [] OTHER -> NoData

Send(r) ==
  /\ req[r].pc = "unsent"
  /\ \E rq \in Inputs :
       LET clash(x) == Busy(req[x]) /\ Clash(req[x], rq)
           broken == \E s \in Scopes, n \in Names(rq) : InodeAt(s, percentEncode(n)) \in torn
       IN  req' = [x \in Requests |->
             IF x = r
             THEN [rq EXCEPT !.wanted = WantedBy(rq),
                             !.quiet = ~broken /\ \A y \in Requests : ~clash(y)]
             ELSE IF clash(x) THEN [req[x] EXCEPT !.quiet = FALSE] ELSE req[x]]
  /\ UNCHANGED <<policy, inode, link, dir, clock, faults, store, torn>>

Set(r, rq) == req' = [req EXCEPT ![r] = rq]
Answer(rq, code, data) ==
  [rq EXCEPT !.pc = "done", !.answers = Append(@, [code |-> code, data |-> data])]
Thrown(rq) == [rq EXCEPT !.pc = "done", !.thrown = TRUE]
ReadOnly == UNCHANGED <<policy, inode, link, dir, clock, faults, store, torn>>

\* determineResource with createMissingFoldersAsync, also for a read: a directory
\* is never removed, so the mkdirs of a request are one step.  For a recursive
\* deletion the code makes that of the parent resource only; making the empty one
\* below it as well deletes nothing more.
determineResource(r) ==
  LET missing == {s \in WritableScopes : dir[s] = {}} IN
  /\ req[r].pc = "resolve"
  /\ Set(r, [req[r] EXCEPT !.pc = "start"])
  /\ clock' = IF missing = {} THEN clock ELSE clock + 1
  /\ dir' = [s \in Scopes |-> IF s \in missing THEN {clock + 1} ELSE dir[s]]
  /\ UNCHANGED <<policy, inode, link, faults, store, torn>>

(***************************************************************************)
(* Reading one file.                                                       *)
(***************************************************************************)
\* open and fstat of getJSONFromFileAsync: size and time are those of now
Open(rq, f) == [rq EXCEPT !.fd = InodeAt(rq.at, f), !.pc = "read",
                          !.seen = inode[InodeAt(rq.at, f)].time]

\* read, close and JSON.parse.  A file written since fstat has another size as
\* a rule: the text is cut, or filled up with zeros, and does not parse.
Parsed(text) == IF text \in {Empty, Mixed} THEN NoData ELSE text
Readings(rq) ==
  LET file == inode[rq.fd] IN
  IF file.time = rq.seen THEN {Parsed(file.text)} ELSE {NoData, Parsed(file.text)}

(***************************************************************************)
(* GET of an item.                                                         *)
(***************************************************************************)
\* getJsonForAggregationNoneAsync: the first file on the way to the plugin's
\* defaults, also when it cannot be parsed
getJsonForAggregationNoneAsync(r) ==
  LET rq == req[r]
      f == percentEncode(rq.name) IN
  /\ rq.op = "get" /\ policy = "none"
  /\ \/ /\ rq.pc = "start"
        /\ IF InodeAt(rq.at, f) # 0 THEN Set(r, Open(rq, f))
           ELSE IF getNextBroadestScope(rq.at) # 0
           THEN Set(r, [rq EXCEPT !.at = getNextBroadestScope(rq.at)])
           ELSE Set(r, Answer(rq, 204, NotFound))
     \/ /\ rq.pc = "read"
        /\ \E data \in Readings(rq) : Set(r, Answer(rq, 200, data))
  /\ ReadOnly

\* getPathForAggregationNoneAsync with isFileReadableAsync, then sendFile opens
\* the path again: 404 if it is gone.
getPathForAggregationNoneAsync(r) ==
  LET rq == req[r]
      i == InodeAt(rq.at, percentEncode(rq.name))
      broader == getNextBroadestScope(rq.at) IN
  /\ rq.op = "get" /\ policy = "binary" /\ rq.pc \in {"start", "send"}
  /\ Set(r, IF rq.pc = "send"
            THEN IF i = 0 THEN Answer(rq, 404, NoData) ELSE Answer(rq, 200, inode[i].text)
            ELSE IF i # 0 THEN [rq EXCEPT !.pc = "send"]
            ELSE IF broader # 0 THEN [rq EXCEPT !.at = broader] ELSE Answer(rq, 204, NotFound))
  /\ ReadOnly

\* getAggregatedJsonAsync with overrideJsonProperties: from the plugin's
\* defaults to the asked scope.  A first file that cannot be parsed is null,
\* and overriding it throws in the callback.
Narrower(rq, first, data) ==
  [rq EXCEPT !.pc = "start", !.at = getNextNarrowestScope(rq.at),
             !.first = first, !.data = data]

\* (mutant: it goes on to the user's scope)
EndAtUser(rq) == User

EndScope(rq) == rq.scope

Aggregated(rq, data) ==
  IF data # NotFound /\ ~rq.first /\ data # NoData /\ rq.data = NoData THEN Thrown(rq)
  ELSE LET all == IF data = NotFound \/ (data = NoData /\ ~rq.first) THEN rq.data
                  ELSE IF rq.first THEN data ELSE overrideJsonProperties(rq.data, data)
           first == rq.first /\ data = NotFound
       IN  IF rq.at # EndScope(rq) THEN Narrower(rq, first, all)
           ELSE IF first THEN Answer(rq, 204, NotFound) ELSE Answer(rq, 200, all)

getAggregatedJsonAsync(r) ==
  LET rq == req[r]
      f == percentEncode(rq.name) IN
  /\ rq.op = "get" /\ policy = "override"
  /\ \/ /\ rq.pc = "start"
        /\ Set(r, IF InodeAt(rq.at, f) = 0 THEN Aggregated(rq, NotFound) ELSE Open(rq, f))
     \/ /\ rq.pc = "read"
        /\ \E data \in Readings(rq) : Set(r, Aggregated(rq, data))
  /\ ReadOnly

\* getMergeJson reads synchronously, in one turn of the event loop: it merges every
\* object into that of the broader scopes, if there is one.
getMergeJson(n, scope) ==
  LET i(s) == InodeAt(s, percentEncode(n))
      object(s) == Parsed(inode[i(s)].text)
      merged[s \in scope .. Plugin + 1] ==
        IF s > Plugin THEN NotFound
        ELSE IF i(s) = 0 THEN merged[s + 1]
        ELSE IF merged[s + 1] = NotFound THEN object(s)
        ELSE mergeJsonProperties(merged[s + 1], object(s))
  IN  merged[scope]

getAllowedPlugins(r) ==
  LET rq == req[r]
      file(s) == inode[InodeAt(s, percentEncode(rq.name))]
      found == {s \in rq.scope .. Plugin : InodeAt(s, percentEncode(rq.name)) # 0} IN
  /\ rq.op = "allowed" /\ rq.pc = "start"
  /\ Set(r, IF Cardinality(found) > 1 /\ \E s \in found : Parsed(file(s).text) = NoData
            THEN Thrown(rq)
            ELSE Answer(rq, IF found = {} THEN 204 ELSE 200, getMergeJson(rq.name, rq.scope)))
  /\ ReadOnly

(***************************************************************************)
(* GET of all items (respondWithFilesInDirectory), or of their names.      *)
(***************************************************************************)
\* respondWithFilenamesInDirectory: getFileListing is synchronous
getFileListing(r) ==
  LET rq == req[r] IN
  /\ rq.op = "list" /\ rq.pc = "start"
  /\ Set(r, Answer(rq, 200, {f \in FileNames :
       \E s \in rq.scope .. Plugin : InodeAt(s, f) # 0}))
  /\ ReadOnly

\* getFileListingAsync: the scopes where each name is seen, one directory after
\* the other
getFileListingAsync(r) ==
  LET rq == req[r]
      here == {f \in FileNames : InodeAt(rq.at, f) # 0}
      before(f) == IF f \in DOMAIN rq.table THEN rq.table[f] ELSE {}
      table == [f \in DOMAIN rq.table \cup here |->
                  before(f) \cup (IF f \in here THEN {rq.at} ELSE {})] IN
  /\ rq.op = "getFolder" /\ rq.pc = "start"
  /\ Set(r, IF policy = "binary" THEN Answer(rq, 400, NoData)
            ELSE IF rq.at # rq.scope
            THEN [Narrower(rq, TRUE, NoData) EXCEPT !.table = table]
            ELSE IF DOMAIN table = {} THEN Answer(rq, 204, NotFound)
            ELSE [rq EXCEPT !.table = table, !.entries = DOMAIN table,
                            !.pc = "entry", !.data = <<>>])
  /\ ReadOnly

\* tableMapForAsyncVisitor with configFileVisitorAsync: the files of the
\* narrowest scopes one by one; one that is gone by then is left out
Collect(rq, f, data) ==
  LET names == DOMAIN rq.data \cup (IF data = NotFound THEN {} ELSE {f})
      all == [rq EXCEPT !.entries = @ \ {f}, !.pc = "entry",
                !.data = [g \in names |-> IF g = f THEN data ELSE rq.data[g]]]
  IN  IF all.entries = {} THEN Answer(all, 200, all.data) ELSE all

configFileVisitorAsync(r) ==
  LET rq == req[r]
      f == CHOOSE g \in rq.entries : TRUE
      there == [rq EXCEPT !.at = Nearest(rq.table[f])] IN
  /\ rq.op = "getFolder" /\ policy = "none"
  /\ \/ /\ rq.pc = "entry"
        /\ Set(r, IF InodeAt(there.at, f) = 0 THEN Collect(rq, f, NotFound) ELSE Open(there, f))
     \/ /\ rq.pc = "read"
        /\ \E data \in Readings(rq) : Set(r, Collect(rq, f, data))
  /\ ReadOnly

\* tableMap with configFileOverrideVisitor, in one turn.  It overrides {data,
\* maccess}, not the objects: the narrowest file that can be parsed wins whole.
configFileOverrideVisitor(r) ==
  LET rq == req[r]
      there(f) == {s \in rq.table[f] : InodeAt(s, f) # 0}
      text(f, s) == Parsed(inode[InodeAt(s, f)].text)
      good(f) == {s \in there(f) : text(f, s) # NoData} IN
  /\ rq.op = "getFolder" /\ rq.pc = "entry" /\ policy = "override"
  /\ Set(r, Answer(rq, 200,
       [f \in {g \in rq.entries : there(g) # {}} |->
          IF good(f) = {} THEN NoData ELSE text(f, Nearest(good(f)))]))
  /\ ReadOnly

(***************************************************************************)
(* PUT of an item.                                                         *)
(***************************************************************************)
Touched(i, text) == [text |-> text, time |-> clock + 1,
                     times |-> {clock + 1} \cup (IF i = 0 THEN {} ELSE inode[i].times)]

\* (mutant: the time stamp is not compared)
ExistingTimestamp(rq, time) == TRUE

\* What the time stamp of a file must be.
SameTimestamp(rq, time) == rq.lastmod = time

\* A mismatch is answered as an internal error: the message of the rejection is
\* not the one the handlers compare with.
restCheckModifiedTimestamp(r) ==
  LET rq == req[r]
      i == InodeAt(rq.scope, percentEncode(rq.name))
      checked == [rq EXCEPT !.pc = "checked"] IN
  /\ rq.op \in {"put", "delete"} /\ rq.pc = "start"
  /\ Set(r, IF rq.lastmod = 0 THEN checked
            ELSE IF i = 0 THEN [checked EXCEPT !.missed = TRUE]
            ELSE IF SameTimestamp(rq, inode[i].time) THEN checked
            ELSE Answer(rq, 500, NoData))
  /\ ReadOnly

\* (mutant: an existing file is not truncated)
OpenedText(i) == IF i = 0 THEN Empty ELSE inode[i].text

\* open with "w"
TextAtOpen(i) == Empty

openForWriting(r) ==
  LET rq == req[r]
      path == getPathForScope(rq.scope, percentEncode(rq.name))
      i == link[path]
      fd == IF i = 0 THEN Len(inode) + 1 ELSE i
      file == Touched(i, TextAtOpen(i)) IN
  /\ rq.op = "put" /\ rq.pc = "checked"
  /\ inode' = IF i = 0 THEN Append(inode, file) ELSE [inode EXCEPT ![i] = file]
  /\ link' = [link EXCEPT ![path] = fd]
  /\ dir' = IF i = 0 THEN [dir EXCEPT ![rq.scope] = @ \cup {clock + 1}] ELSE dir
  /\ clock' = clock + 1
  /\ torn' = IF \E x \in Requests : req[x].pc = "write" /\ req[x].fd = i
             THEN torn \cup {i} ELSE torn \ {i}
  /\ Set(r, [rq EXCEPT !.pc = "write", !.fd = fd])
  /\ UNCHANGED <<policy, faults, store>>

\* From the start of the file.  What is there stays beyond the end.
WrittenOver(text, body) ==
  IF text \in {Empty, body} THEN {body} ELSE {body, Mixed}

writeCallback(r) ==
  LET rq == req[r] IN
  /\ rq.op = "put" /\ rq.pc = "write"
  /\ \/ /\ \E text \in WrittenOver(inode[rq.fd].text, rq.body) :
             inode' = [inode EXCEPT ![rq.fd] = Touched(rq.fd, text)]
        /\ store' = IF InodeAt(rq.scope, percentEncode(rq.name)) = rq.fd
                    THEN [store EXCEPT ![rq.scope][rq.name] = rq.body] ELSE store
        /\ Set(r, [rq EXCEPT !.pc = "stat"])
        /\ UNCHANGED <<faults, torn>>
     \/ /\ faults < MaxFailures
        /\ faults' = faults + 1
        /\ \E text \in {inode[rq.fd].text, Mixed} :
             inode' = [inode EXCEPT ![rq.fd] = Touched(rq.fd, text)]
        /\ torn' = torn \cup {rq.fd}
        /\ Set(r, Answer(rq, 500, NoData))
        /\ UNCHANGED store
  /\ clock' = clock + 1
  /\ UNCHANGED <<policy, link, dir>>

\* fstat and close: the client is told the time of the file
putDone(r) ==
  /\ req[r].op = "put" /\ req[r].pc = "stat"
  /\ Set(r, Answer(req[r], 201, inode[req[r].fd].time))
  /\ ReadOnly

(***************************************************************************)
(* DELETE of an item, and of all items.                                    *)
(***************************************************************************)
Unlink(s, f) ==
  /\ link' = [link EXCEPT ![getPathForScope(s, f)] = 0]
  /\ dir' = [dir EXCEPT ![s] = @ \cup {clock + 1}]
  /\ clock' = clock + 1
  /\ store' = [store EXCEPT ![s] =
       [n \in ItemNames |-> IF percentEncode(n) = f THEN NotFound ELSE @[n]]]

KeepFiles == UNCHANGED <<link, dir, clock, store>>

deleteFile(r) ==
  LET rq == req[r]
      f == percentEncode(rq.name)
      there == InodeAt(rq.scope, f) # 0 IN
  /\ rq.op = "delete"
  /\ \/ /\ rq.pc = "checked"
        /\ Set(r, IF there THEN [rq EXCEPT !.pc = "unlink"] ELSE Answer(rq, 200, NoData))
        /\ KeepFiles
     \/ /\ rq.pc = "unlink" /\ ~there
        /\ Set(r, Answer(rq, 500, NoData))
        /\ KeepFiles
     \/ /\ rq.pc = "unlink" /\ there
        /\ Unlink(rq.scope, f)
        /\ Set(r, Answer(rq, 200, NoData))
  /\ UNCHANGED <<policy, inode, faults, torn>>

\* checkFolderModifiedTimestamp goes down from the parent resource, whose own
\* directory has not changed: one directory, then stat of its files.
FolderModified(rq) == rq.lastmod < LatestTime(dir[rq.scope])

checkResourceModifiedTimestamp(r) ==
  LET rq == req[r]
      here == {f \in FileNames : InodeAt(rq.scope, f) # 0}
      checked == [rq EXCEPT !.pc = "checked"] IN
  /\ rq.op = "deleteTree"
  /\ \/ /\ rq.pc = "start"
        /\ Set(r, IF rq.lastmod = 0 THEN checked
                  ELSE IF FolderModified(rq) THEN Answer(rq, 500, NoData)
                  ELSE IF here = {} THEN checked
                  ELSE [rq EXCEPT !.pc = "check", !.entries = here])
     \/ /\ rq.pc = "check"
        /\ \E f \in rq.entries :
             Set(r, IF f \notin here THEN Answer(rq, 500, NoData)
                    ELSE IF rq.entries = {f} THEN [checked EXCEPT !.entries = {}]
                    ELSE [rq EXCEPT !.entries = @ \ {f}])
  /\ ReadOnly

\* A failure answers at once, for every entry that fails; the entries go on.
EntryFailed(rq, f) ==
  [rq EXCEPT !.entries = @ \ {f}, !.gone = @ + 1,
             !.pc = IF rq.entries = {f} THEN "done" ELSE @,
             !.answers = Append(@, [code |-> 500, data |-> NoData])]

\* (mutant: the last entry reports success although another one has failed)
EntryDoneAnyway(rq, f) ==
  IF rq.entries = {f} THEN Answer([rq EXCEPT !.entries = {}], 200, NoData)
  ELSE [rq EXCEPT !.entries = @ \ {f}]

\* Success is answered when all entries are complete.
EntryDone(rq, f) ==
  LET rest == [rq EXCEPT !.entries = @ \ {f}] IN
  IF rest.entries # {} THEN rest
  ELSE IF rq.gone = 0 THEN Answer(rest, 200, NoData) ELSE [rest EXCEPT !.pc = "done"]

deleteFilesInFolder(r) ==
  LET rq == req[r]
      here == {f \in FileNames : InodeAt(rq.scope, f) # 0}
      to(f, next) == [rq EXCEPT !.table[f] = next] IN
  /\ OnFolder(rq) /\ Writer(rq)
  /\ \/ /\ rq.pc = (IF rq.op = "deleteTree" THEN "checked" ELSE "start")
        /\ Set(r, IF here = {} THEN Answer(rq, 200, NoData)
                  ELSE [rq EXCEPT !.pc = "entry", !.entries = here,
                                  !.table = [f \in here |-> "stat"]])
        /\ KeepFiles
     \/ /\ rq.pc = "entry"
        /\ \E f \in rq.entries :
             \/ /\ rq.table[f] = "stat"
                /\ Set(r, IF f \in here THEN to(f, "access") ELSE EntryFailed(rq, f))
                /\ KeepFiles
             \/ /\ rq.table[f] = "access"
                /\ Set(r, IF f \in here THEN to(f, "unlink") ELSE EntryDone(rq, f))
                /\ KeepFiles
             \/ /\ rq.table[f] = "unlink" /\ f \notin here
                /\ Set(r, EntryFailed(rq, f))
                /\ KeepFiles
             \/ /\ rq.table[f] = "unlink" /\ f \in here
                /\ Unlink(rq.scope, f)
                /\ Set(r, EntryDone(rq, f))
  /\ UNCHANGED <<policy, inode, faults, torn>>

Next ==
  \E r \in Requests :
    \/ Send(r)
    \/ /\ Busy(req[r])
       /\ \/ determineResource(r)
          \/ getJsonForAggregationNoneAsync(r)
          \/ getPathForAggregationNoneAsync(r)
          \/ getAggregatedJsonAsync(r)
          \/ getAllowedPlugins(r)
          \/ getFileListing(r)
          \/ getFileListingAsync(r)
          \/ configFileVisitorAsync(r)
          \/ configFileOverrideVisitor(r)
          \/ restCheckModifiedTimestamp(r)
          \/ openForWriting(r)
          \/ writeCallback(r)
          \/ putDone(r)
          \/ deleteFile(r)
          \/ checkResourceModifiedTimestamp(r)
          \/ deleteFilesInFolder(r)

Spec == Init /\ [][Next]_vars

(***************************************************************************)
(* Properties.                                                             *)
(***************************************************************************)
Done(rq) == rq.pc = "done"

\* Paths name files, modification times are those of the clock, and a read never
\* leaves the scopes from the plugin's defaults to the asked one: a request for
\* the instance's configuration does not see what a user has stored.
TypeOK ==
  /\ policy \in Policies
  /\ link \in [Scopes \X FileNames -> 0 .. Len(inode)]
  /\ \A i \in DOMAIN inode : inode[i].time \in inode[i].times /\ inode[i].times \subseteq 1 .. clock
  /\ \A r \in Requests : req[r].pc # "unsent" => req[r].at \in req[r].scope .. Plugin
  /\ torn \subseteq DOMAIN inode

\* A file nobody is writing holds exactly the object of the last PUT under its
\* scope and name, except when two PUTs had it open at once or its write has
\* failed (replaceOrCreateFile truncates and writes in place), and a name
\* without a file is one never written or deleted since.
FileWhole ==
  \A s \in Scopes, n \in ItemNames :
    LET i == InodeAt(s, percentEncode(n)) IN
    IF i = 0 THEN store[s][n] = NotFound
    ELSE \/ i \in torn
         \/ \E r \in Requests : req[r].pc = "write" /\ req[r].fd = i
         \/ inode[i].text = store[s][n]

\* A read during which nobody writes to the same name gives what the chain of
\* scopes holds under that name: respondWithConfigFile per policy,
\* respondWithFilesInDirectory, getAllowedPlugins; requests for other names, also
\* for names that differ only in escaped characters, do not disturb it.  For a
\* read of all items that is the narrowest file of each name whatever the policy
\* is: what the code gives, not what the API's documentation promises.
ReadsRight ==
  \A r \in Requests :
    LET rq == req[r] IN
    Done(rq) /\ ~Writer(rq) /\ rq.quiet /\ ~(rq.op = "getFolder" /\ policy = "binary") =>
      /\ Len(rq.answers) = 1
      /\ rq.answers[1] = [code |-> IF rq.wanted = NotFound THEN 204 ELSE 200, data |-> rq.wanted]

\* Of two PUTs that were made from the same version of a file (equal lastmod)
\* only one is accepted, unless writers of that name overlapped in time or the
\* file was gone (restCheckModifiedTimestamp passes when there is none).  A
\* recursive deletion made from what a directory held at lastmod is refused when
\* a file has been created in it or removed since; one that was only rewritten
\* does not change the directory's time.
NoLostUpdate ==
  \A q, r \in Requests :
    LET a == req[q]
        b == req[r]
        accepted(x) == Done(x) /\ x.op = "put" /\ x.answers[1].code = 201
                       /\ x.quiet /\ ~x.missed /\ x.lastmod # 0
    IN  /\ q # r /\ accepted(a) /\ accepted(b) /\ a.scope = b.scope /\ a.name = b.name
             => a.lastmod # b.lastmod
        /\ Done(a) /\ a.op = "deleteTree" /\ a.quiet /\ a.lastmod # 0 /\ a.answers[1].code = 200
             => a.lastmod >= a.wanted

\* Every request is answered once, except that the deletion of a folder answers
\* once for every entry that vanishes under it (deleteFilesInFolder), and that an
\* aggregating read throws, and never answers, only when a file it reads is
\* written meanwhile or damaged.
AnsweredOnce ==
  \A r \in Requests :
    LET rq == req[r] IN
    /\ Busy(rq) /\ rq.gone = 0 => rq.answers = <<>>
    /\ Done(rq) => \/ Len(rq.answers) = (IF rq.gone > 1 THEN rq.gone ELSE 1) /\ ~rq.thrown
                   \/ rq.answers = <<>> /\ rq.thrown /\ ~rq.quiet

\* doc/swagger/data.yaml:35 of a read: "Returns a binary or JSON resource or a
\* collection of JSON subresources. JSON resources are aggregated with broader
\* scopes according to plugin definition."  Under override a collection thus holds
\* of every item what a read of that item gives, as long as nobody has written.
\* configFileOverrideVisitor overrides the objects {data, maccess} around the
\* files instead, so that properties only a broader scope has are left out.
CollectionAggregated ==
  \A r \in Requests :
    LET rq == req[r] IN
    /\ Done(rq) /\ rq.op = "getFolder" /\ policy = "override"
    /\ \A x \in Requests : req[x].pc # "unsent" => ~Writer(req[x])
    => \A n \in {m \in ItemNames : Having(m, rq.scope) # {}} :
         rq.answers[1].data[percentEncode(n)] = Overridden(n, rq.scope)
=============================================================================
