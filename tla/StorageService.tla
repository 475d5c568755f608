--------------------------- MODULE StorageService ---------------------------
(***************************************************************************)
(* What a plugin may expect of its storage (IPluginStorage of              *)
(* lib/pluginStorage.ts), whatever location it chooses: each location is a *)
(* map; an operation is a short sequence of requests, each of which is     *)
(* carried out at one instant between the call and its end, in order, each *)
(* at most once; it is resolved only when all of them were carried out,    *)
(* and what it returns is what the map held at that instant.               *)
(*                                                                         *)
(* What it may not expect: that an operation that was given up or whose    *)
(* process ended is not carried out later, or that a rejected one left no  *)
(* trace.                                                                  *)
(***************************************************************************)
EXTENDS Sequences

CONSTANTS
  Caller,       \* those who call operations, one at a time each
  Location,     \* the maps
  Volatile,     \* the locations that are lost with a process
  Key, Value, NoValue

VARIABLES
  map,          \* location -> what is stored there
  call,         \* caller -> its operation
  late          \* requests that nobody waits for any more

vars == <<map, call, late>>

Dict == [Key -> Value \cup {NoValue}]
EmptyDict == [k \in Key |-> NoValue]

Request ==
  [type : {"get", "remove"}, key : Key]
    \cup [type : {"put"}, key : Key, value : Value]
    \cup [type : {"getAll", "clear"}]
    \cup [type : {"replace", "merge"}, dict : Dict]

Merged(m, d) == [k \in Key |-> IF d[k] = NoValue THEN m[k] ELSE d[k]]

Apply(m, q) ==
  CASE q.type = "put"     -> [m EXCEPT ![q.key] = q.value]
    [] q.type = "remove"  -> [m EXCEPT ![q.key] = NoValue]
    [] q.type = "clear"   -> EmptyDict
    [] q.type = "replace" -> q.dict
    [] q.type = "merge"   -> Merged(m, q.dict)
    [] OTHER              -> m

Answers(m, q) ==
  CASE q.type = "get"    -> <<m[q.key]>>
    [] q.type = "getAll" -> <<m>>
    [] OTHER             -> << >>

-----------------------------------------------------------------------------
Init ==
  /\ map = [l \in Location |-> EmptyDict]
  /\ \A c \in Caller : call[c].status = "idle" /\ call[c].todo = << >>
  /\ late = {}

\* A step of one operation: from old to new.
Invoke(old, new) ==
  /\ old.status # "open" /\ new.status = "open"
  /\ new.at \in Location /\ new.answer = << >>
  /\ new.todo \in Seq(Request) /\ new.todo # << >>
  /\ UNCHANGED <<map, late>>

\* The next request of an operation is carried out.
CarryOut(old, new) ==
  /\ old.status = "open" /\ old.todo # << >>
  /\ LET q == Head(old.todo) IN
       /\ map' = [map EXCEPT ![old.at] = Apply(@, q)]
       /\ new = [old EXCEPT !.todo = Tail(@), !.answer = Answers(map[old.at], q)]
  /\ UNCHANGED late

\* All of it was carried out.
Resolve(old, new) ==
  /\ old.status = "open" /\ old.todo = << >>
  /\ new = [old EXCEPT !.status = "resolved"]
  /\ UNCHANGED <<map, late>>

\* All of it was carried out and more turns out to be needed.
Continue(old, new) ==
  /\ old.status = "open" /\ old.todo = << >>
  /\ new.status = "open" /\ new.at = old.at /\ new.answer = << >>
  /\ new.todo \in Seq(Request) /\ new.todo # << >>
  /\ UNCHANGED <<map, late>>

\* What was left to do of an operation, and may still be done.
Left(old) == {[at |-> old.at, request |-> old.todo[i]] : i \in DOMAIN old.todo}

\* It fails (rejected) or is given up (resolved with nothing).
Abandon(old, new) ==
  /\ old.status = "open"
  /\ \E status \in {"resolved", "rejected"} :
       new = [old EXCEPT !.status = status, !.todo = << >>, !.answer = << >>]
  /\ late' \subseteq late \cup Left(old)
  /\ UNCHANGED map

CallStep ==
  \E c \in Caller :
    /\ call'[c] # call[c] /\ \A d \in Caller \ {c} : call'[d] = call[d]
    /\ LET old == call[c]
           new == call'[c]
       IN  \/ Invoke(old, new) \/ CarryOut(old, new) \/ Resolve(old, new)
           \/ Continue(old, new) \/ Abandon(old, new)

\* A synchronous operation is called, carried out and resolved at once.
AtOnce ==
  \E c \in Caller, q \in Request :
    /\ call[c].status # "open" /\ call'[c].status = "resolved"
    /\ call'[c].todo = << >> /\ call'[c].answer = Answers(map[call'[c].at], q)
    /\ map' = [map EXCEPT ![call'[c].at] = Apply(@, q)]
    /\ \A d \in Caller \ {c} : call'[d] = call[d]
    /\ UNCHANGED late

LateRequest ==
  \E x \in late :
    /\ map' \in {map, [map EXCEPT ![x.at] = Apply(@, x.request)]}
    /\ late' \in {late, late \ {x}}
    /\ UNCHANGED call

\* Processes end, and with them their operations and the volatile locations.
ProcessesEnd ==
  /\ \A c \in Caller :
       call'[c] # call[c] => call'[c].status = "idle" /\ call'[c].todo = << >>
  /\ \E L \in SUBSET Volatile :
       map' = [l \in Location |-> IF l \in L THEN EmptyDict ELSE map[l]]
  /\ late' \subseteq late \cup UNION {Left(call[c]) : c \in Caller}

Next == CallStep \/ LateRequest \/ AtOnce \/ ProcessesEnd

Spec == Init /\ [][Next]_vars
=============================================================================
