------------------------ MODULE TerminalDataProofs ------------------------
(***************************************************************************)
(* The data a TerminalProxy relays, for every kind of host and every       *)
(* bound: what the user types, and what the host sends, arrives once and   *)
(* in its order.  It rests on the order of packets and the way to the      *)
(* shell, which TerminalProxyProofs shows.                                 *)
(***************************************************************************)
EXTENDS TerminalProxyProofs

-----------------------------------------------------------------------------
(* The data among packets *)

\* The function of InOrder over the packets.
Collects(upto, n, packets) ==
  upto = [i \in 0 .. n |-> IF i = 0 THEN <<>> ELSE WithData(upto[i - 1], packets[i])]

LEMMA CollectsExists ==
  ASSUME NEW packets, NEW n \in Nat
  PROVE  \E upto : Collects(upto, n, packets)
PROOF
  <1> DEFINE T == {i \in Nat : \E upto : Collects(upto, i, packets)}
  <1>1. 0 \in T
    <2> DEFINE g == [i \in 0 .. 0 |-> <<>>]
    <2>1. g = [i \in 0 .. 0 |-> IF i = 0 THEN <<>> ELSE WithData(g[i - 1], packets[i])]
      OBVIOUS
    <2> HIDE DEF g
    <2>2. Collects(g, 0, packets)
      BY <2>1 DEF Collects
    <2> QED
      BY <2>2
  <1>2. ASSUME NEW k \in Nat, k \in T PROVE k + 1 \in T
    <2>1. PICK g : Collects(g, k, packets)
      BY <1>2
    <2> DEFINE h == [i \in 0 .. k + 1 |-> IF i = k + 1 THEN WithData(g[k], packets[k + 1]) ELSE g[i]]
    <2>2. \A i \in 0 .. k : /\ h[i] = g[i]
                            /\ g[i] = IF i = 0 THEN <<>> ELSE WithData(g[i - 1], packets[i])
      BY <2>1 DEF Collects
    <2>3. h[k + 1] = WithData(g[k], packets[k + 1]) /\ h[k] = g[k]
      BY <2>2
    <2>4. \A i \in 0 .. k + 1 : h[i] = IF i = 0 THEN <<>> ELSE WithData(h[i - 1], packets[i])
      <3> TAKE i \in 0 .. k + 1
      <3> HIDE DEF h
      <3>1. CASE i = k + 1
        BY <2>3, <3>1
      <3>2. CASE i # k + 1
        <4>1. i \in 0 .. k /\ (i # 0 => i - 1 \in 0 .. k)
          BY <3>2
        <4> QED
          BY <2>2, <4>1
      <3> QED
        BY <3>1, <3>2
    <2>5. h = [i \in 0 .. k + 1 |-> h[i]]
      OBVIOUS
    <2> HIDE DEF h
    <2>6. Collects(h, k + 1, packets)
      BY <2>4, <2>5 DEF Collects
    <2> QED
      BY <2>6
  <1> HIDE DEF T
  <1>3. Nat \subseteq T
    BY <1>1, <1>2, SetInduction
  <1> QED
    BY <1>3 DEF T

LEMMA CollectsIs ==
  ASSUME NEW packets, Len(packets) \in Nat
  PROVE  \E upto : Collects(upto, Len(packets), packets) /\ DataIn(packets) = upto[Len(packets)]
PROOF
  <1> DEFINE P(upto) == Collects(upto, Len(packets), packets)
             c == CHOOSE upto : P(upto)
  <1>1. \E upto : P(upto)
    BY CollectsExists
  <1>2. P(c)
    <2> HIDE DEF P
    <2> QED
      BY <1>1
  <1>3. DataIn(packets) = c[Len(packets)]
    BY DEF DataIn, InOrder, Collects
  <1> QED
    BY <1>2, <1>3

\* Two functions that collect the same packets agree on them.
LEMMA CollectsSame ==
  ASSUME NEW k \in Nat, NEW n \in 0 .. k, NEW packets, NEW others, NEW f, NEW g,
         Collects(f, k, packets), Collects(g, n, others), \A i \in 1 .. n : packets[i] = others[i]
  PROVE  f[n] = g[n]
PROOF
  <1> DEFINE T == {i \in 0 .. n : f[i] = g[i]}
  <1>1. /\ f[0] = <<>> /\ \A i \in 1 .. n : f[i] = WithData(f[i - 1], packets[i])
        /\ g[0] = <<>> /\ \A i \in 1 .. n : g[i] = WithData(g[i - 1], others[i])
    BY DEF Collects
  <1>2. 0 \in T
    BY <1>1
  <1>3. \A i \in 1 .. n : i - 1 \in T => i \in T
    BY <1>1
  <1> HIDE DEF T
  <1>4. \A i \in 0 .. n : i \in T
    BY <1>2, <1>3, UptoInduction
  <1>5. n \in T
    BY <1>4
  <1> QED
    BY <1>5 DEF T

\* What data can be among.
Parcels == ClientPackets \cup Messages \cup HostPackets \cup {Plain("rest")}

LEMMA ParcelsHold == \A p \in Parcels : p.x \in Values
  BY DEF Parcels, ClientPackets, Messages, HostPackets, Plain, Packet, Values

LEMMA DataInNone == DataIn(<<>>) = <<>>
PROOF
  <1> DEFINE none == <<>>
  <1>1. Len(none) = 0 /\ Len(none) \in Nat
    OBVIOUS
  <1>2. PICK f : Collects(f, Len(none), none) /\ DataIn(none) = f[Len(none)]
    BY <1>1, CollectsIs
  <1>3. f[0] = <<>>
    BY <1>1, <1>2 DEF Collects
  <1> QED
    BY <1>1, <1>2, <1>3

LEMMA ParcelsAppend ==
  ASSUME NEW n \in Seq(Parcels), NEW p \in Parcels
  PROVE  DataIn(Append(n, p)) = WithData(DataIn(n), p)
PROOF
  <1> DEFINE v == Append(n, p)
             k == Len(n)
  <1>1. /\ Len(v) = k + 1 /\ k \in Nat /\ k + 1 \in Nat /\ v[k + 1] = p /\ \A i \in 1 .. k : v[i] = n[i]
        /\ k \in 0 .. k + 1 /\ k + 1 - 1 = k
    OBVIOUS
  <1> HIDE DEF v, k
  <1>2. PICK f : Collects(f, Len(v), v) /\ DataIn(v) = f[Len(v)]
    BY <1>1, CollectsIs
  <1>3. PICK g : Collects(g, k, n) /\ DataIn(n) = g[k]
    BY <1>1, CollectsIs DEF k
  <1>4. f[k] = g[k]
    BY <1>1, <1>2, <1>3, CollectsSame
  <1>5. f[k + 1] = WithData(f[k], v[k + 1])
    BY <1>1, <1>2 DEF Collects
  <1> QED
    BY <1>1, <1>2, <1>3, <1>4, <1>5 DEF v

LEMMA WithDataTyped ==
  ASSUME NEW d \in Seq(Values), NEW p \in Parcels
  PROVE  WithData(d, p) \in Seq(Values)
PROOF
  <1>1. p.x \in Values
    BY ParcelsHold
  <1>2. Append(d, p.x) \in Seq(Values)
    BY <1>1
  <1> QED
    BY <1>2 DEF WithData

LEMMA ParcelsTyped ==
  ASSUME NEW m \in Seq(Parcels)
  PROVE  DataIn(m) \in Seq(Values)
PROOF
  <1>1. Len(m) \in Nat /\ <<>> \in Seq(Values) /\ \A i \in 1 .. Len(m) : m[i] \in Parcels
    OBVIOUS
  <1>2. PICK f : Collects(f, Len(m), m) /\ DataIn(m) = f[Len(m)]
    BY <1>1, CollectsIs
  <1> DEFINE T == {i \in 0 .. Len(m) : f[i] \in Seq(Values)}
  <1>3. f[0] = <<>> /\ \A i \in 1 .. Len(m) : f[i] = WithData(f[i - 1], m[i])
    BY <1>1, <1>2 DEF Collects
  <1>4. 0 \in T
    <2>1. f[0] \in Seq(Values) /\ 0 \in 0 .. Len(m)
      BY <1>1, <1>3
    <2> QED
      BY <2>1
  <1>5. \A i \in 1 .. Len(m) : i - 1 \in T => i \in T
    <2> TAKE i \in 1 .. Len(m)
    <2>1. i \in 0 .. Len(m) /\ m[i] \in Parcels /\ f[i] = WithData(f[i - 1], m[i])
      BY <1>1, <1>3
    <2>2. f[i - 1] \in Seq(Values) => f[i] \in Seq(Values)
      BY <2>1, WithDataTyped
    <2> QED
      BY <2>1, <2>2
  <1> HIDE DEF T
  <1>6. \A i \in 0 .. Len(m) : i \in T
    BY <1>1, <1>4, <1>5, UptoInduction
  <1>7. Len(m) \in T
    BY <1>1, <1>6
  <1> QED
    BY <1>2, <1>7 DEF T

LEMMA WithDataJoins ==
  ASSUME NEW d \in Seq(Values), NEW e \in Seq(Values), NEW p \in Parcels
  PROVE  WithData(d \o e, p) = d \o WithData(e, p)
PROOF
  <1>1. p.x \in Values
    BY ParcelsHold
  <1> DEFINE x == p.x
  <1> HIDE DEF x
  <1>2. x \in Values
    BY <1>1 DEF x
  <1>3. Append(d \o e, x) = d \o Append(e, x)
    BY <1>2
  <1> QED
    BY <1>3 DEF WithData, x

\* The data of packets that follow others follow theirs.
LEMMA ParcelsJoin ==
  ASSUME NEW m \in Seq(Parcels), NEW n \in Seq(Parcels)
  PROVE  /\ DataIn(m) \in Seq(Values) /\ DataIn(n) \in Seq(Values)
         /\ DataIn(m \o n) = DataIn(m) \o DataIn(n)
PROOF
  <1> DEFINE first(i) == SubSeq(n, 1, i)
             T == {i \in 0 .. Len(n) : DataIn(m \o first(i)) = DataIn(m) \o DataIn(first(i))}
  <1>0. DataIn(m) \in Seq(Values) /\ DataIn(n) \in Seq(Values)
    BY ParcelsTyped
  <1>1. \A w \in Seq(Parcels) :
          /\ Len(w) \in Nat /\ SubSeq(w, 1, 0) = <<>> /\ SubSeq(w, 1, Len(w)) = w
          /\ \A i \in 0 .. Len(w) : SubSeq(w, 1, i) \in Seq(Parcels)
          /\ \A i \in 1 .. Len(w) :
               w[i] \in Parcels /\ SubSeq(w, 1, i) = Append(SubSeq(w, 1, i - 1), w[i])
    <2> TAKE w \in Seq(Parcels)
    <2>1. Len(w) \in Nat /\ SubSeq(w, 1, 0) = <<>> /\ SubSeq(w, 1, Len(w)) = w
      OBVIOUS
    <2>2. \A i \in 0 .. Len(w) : SubSeq(w, 1, i) \in Seq(Parcels)
      OBVIOUS
    <2>3. ASSUME NEW i \in 1 .. Len(w)
          PROVE  w[i] \in Parcels /\ SubSeq(w, 1, i) = Append(SubSeq(w, 1, i - 1), w[i])
      <3> DEFINE a == SubSeq(w, 1, i)
                 b == SubSeq(w, 1, i - 1)
      <3>1. /\ w[i] \in Parcels /\ i \in Nat /\ i - 1 \in 0 .. Len(w)
            /\ a \in Seq(Parcels) /\ Len(a) = i /\ \A j \in 1 .. i : a[j] = w[j]
            /\ b \in Seq(Parcels) /\ Len(b) = i - 1 /\ \A j \in 1 .. i - 1 : b[j] = w[j]
        BY <2>1
      <3> HIDE DEF a, b
      <3>2. Append(b, w[i]) \in Seq(Parcels) /\ Len(Append(b, w[i])) = i
            /\ \A j \in 1 .. i : Append(b, w[i])[j] = w[j]
        BY <3>1
      <3>3. Len(a) = Len(Append(b, w[i])) /\ \A j \in 1 .. Len(a) : a[j] = Append(b, w[i])[j]
        BY <3>1, <3>2
      <3>4. a = Append(b, w[i])
        BY <3>1, <3>2, <3>3, SameSequence
      <3> QED
        BY <3>1, <3>4 DEF a, b
    <2> QED
      BY <2>1, <2>2, <2>3
  <1>2. m \o <<>> = m /\ DataIn(m) \o <<>> = DataIn(m)
    BY <1>0
  <1>3. 0 \in T
    <2>1. first(0) = <<>> /\ 0 \in 0 .. Len(n)
      BY <1>1
    <2> HIDE DEF first
    <2> QED
      BY <1>2, <2>1, DataInNone
  <1>4. ASSUME NEW i \in 1 .. Len(n), i - 1 \in T PROVE i \in T
    <2> DEFINE a == first(i - 1)
               d == DataIn(m)
               e == DataIn(a)
    <2>1. /\ a \in Seq(Parcels) /\ n[i] \in Parcels /\ first(i) = Append(a, n[i])
          /\ i \in 0 .. Len(n)
      <3>1. i - 1 \in 0 .. Len(n) /\ i \in 0 .. Len(n)
        BY <1>1
      <3> QED
        BY <1>1, <3>1
    <2>2. d \in Seq(Values) /\ e \in Seq(Values) /\ DataIn(m \o a) = d \o e
      BY <1>0, <1>4, <2>1, ParcelsTyped
    <2> HIDE DEF first, a, T
    <2>3. m \o Append(a, n[i]) = Append(m \o a, n[i]) /\ m \o a \in Seq(Parcels)
      BY <2>1
    <2>4. DataIn(first(i)) = WithData(e, n[i])
      BY <2>1, ParcelsAppend
    <2>5. DataIn(m \o first(i)) = WithData(DataIn(m \o a), n[i])
      BY <2>1, <2>3, ParcelsAppend
    <2> HIDE DEF d, e
    <2>6. WithData(d \o e, n[i]) = d \o WithData(e, n[i])
      BY <2>1, <2>2, WithDataJoins
    <2> QED
      BY <2>1, <2>2, <2>4, <2>5, <2>6 DEF T, d
  <1> HIDE DEF T, first
  <1>5. \A i \in 0 .. Len(n) : i \in T
    BY <1>1, <1>3, <1>4, UptoInduction
  <1>6. Len(n) \in T /\ first(Len(n)) = n
    BY <1>1, <1>5 DEF first
  <1> QED
    BY <1>0, <1>6 DEF T

\* The same for packets to the host.
LEMMA ClientParcels ==
  ASSUME NEW n \in Seq(ClientPackets)
  PROVE  n \in Seq(Parcels)
PROOF
  <1>1. ClientPackets \subseteq Parcels
    BY DEF Parcels
  <1> QED
    BY <1>1

LEMMA DataInAppend ==
  ASSUME NEW n \in Seq(ClientPackets), NEW p \in ClientPackets
  PROVE  DataIn(Append(n, p)) = WithData(DataIn(n), p)
PROOF
  <1>1. n \in Seq(Parcels) /\ p \in Parcels
    BY ClientParcels DEF Parcels
  <1> QED
    BY <1>1, ParcelsAppend

LEMMA DataInTyped ==
  ASSUME NEW n \in Seq(ClientPackets)
  PROVE  DataIn(n) \in Seq(Values)
  BY ClientParcels, ParcelsTyped

LEMMA DataInJoin ==
  ASSUME NEW m \in Seq(ClientPackets), NEW n \in Seq(ClientPackets)
  PROVE  /\ DataIn(m) \in Seq(Values) /\ DataIn(n) \in Seq(Values)
         /\ DataIn(m \o n) = DataIn(m) \o DataIn(n)
PROOF
  <1>1. m \in Seq(Parcels) /\ n \in Seq(Parcels)
    BY ClientParcels
  <1> QED
    BY <1>1, ParcelsJoin

-----------------------------------------------------------------------------
(* What the user typed, on its way *)

Pieces == {"CHANNEL_DATA", "RAW"}
\* The data of a result: sent, or still waiting for the keys.
Due(q) == DataIn(q.out) \o DataIn(q.s.queue)

\* A packet of another kind adds no data.
LEMMA OtherPacket ==
  ASSUME NEW o \in Seq(ClientPackets), NEW p \in ClientPackets, p.code \notin Pieces
  PROVE  Append(o, p) \in Seq(ClientPackets) /\ DataIn(Append(o, p)) = DataIn(o)
PROOF
  <1>1. DataIn(Append(o, p)) = WithData(DataIn(o), p)
    BY DataInAppend
  <1>2. Append(o, p) \in Seq(ClientPackets)
    OBVIOUS
  <1> QED
    BY <1>1, <1>2 DEF WithData, Pieces

LEMMA NoneLeftOver ==
  ASSUME NEW d \in Seq(Values), NEW e, e = <<>>
  PROVE  DataIn(e) = <<>> /\ d \o DataIn(e) = d /\ DataIn(e) \o d = d
PROOF
  <1>1. DataIn(e) = <<>>
    BY DataInNone
  <1> QED
    BY <1>1

\* The handling of a packet of the host sends what waited once the keys are
\* there, and neither drops data nor adds any.
LEMMA HandleDelivers ==
  ASSUME NEW q \in Results, NEW p \in HostPackets, NEW channel \in Nat
  PROVE  Due(Handle(q, p, channel)) = Due(q)
PROOF
  <1> DEFINE h == Handle(q, p, channel)
  <1>1. h \in Results /\ Outcomes(h, q, p, channel)
    BY HandleOutcome
  <1>2. /\ q.out \in Seq(ClientPackets) /\ q.s.queue \in Seq(ClientPackets)
        /\ p.x \in Values /\ channel \in Values /\ 0 \in Values
    BY DEF Results, Session, HostPackets, Values
  <1> HIDE DEF h
  <1> SUFFICES Due(h) = Due(q)
    BY DEF h
  <1>3. ASSUME h.s.queue = q.s.queue, NEW x \in ClientPackets, x.code \notin Pieces,
               h.out = q.out \/ h.out = Append(q.out, x)
        PROVE  Due(h) = Due(q)
    <2>1. DataIn(Append(q.out, x)) = DataIn(q.out)
      BY <1>2, <1>3, OtherPacket
    <2> QED
      BY <1>3, <2>1 DEF Due
  <1>4. CASE (p.code \in ToProxy \cup {"VERSION"} /\ Passes(h, q, p)) \/ Fails(h, q)
             \/ (p.code = "GEX_REPLY" /\ TakesReply(h, q))
    BY <1>4 DEF Passes, Fails, TakesReply, SameMain, Due
  <1>5. CASE p.code = "USERAUTH_SUCCESS" /\ LogsIn(h, q, channel)
    <2> DEFINE x == Packet("CHANNEL_OPEN", 0, channel)
    <2>1. x \in ClientPackets /\ x.code \notin Pieces
      BY <1>2, PacketsTyped DEF ClientCodes, Packet, Pieces
    <2> HIDE DEF x
    <2>2. h.s.queue = q.s.queue /\ h.out = Append(q.out, x)
      BY <1>5 DEF LogsIn, x
    <2> QED
      BY <1>3, <2>1, <2>2
  <1>6. CASE p.code = "OPEN_CONFIRMATION" /\ OpensChannel(h, q, p, channel)
    <2> DEFINE x == Packet("pty-req", p.x, 0)
    <2>1. x \in ClientPackets /\ x.code \notin Pieces
      BY <1>2, PacketsTyped DEF ClientCodes, Packet, Pieces
    <2> HIDE DEF x
    <2>2. h.s.queue = q.s.queue /\ h.out = Append(q.out, x)
      BY <1>6 DEF OpensChannel, x
    <2> QED
      BY <1>3, <2>1, <2>2
  <1>7. CASE p.code = "CHANNEL_SUCCESS" /\ Succeeds(h, q, channel)
    <2> DEFINE x == Packet("shell", 0, 0)
    <2>1. x \in ClientPackets /\ x.code \notin Pieces
      BY <1>2, PacketsTyped DEF ClientCodes, Packet, Pieces
    <2> HIDE DEF x
    <2>2. h.s.queue = q.s.queue /\ (h.out = q.out \/ h.out = Append(q.out, x))
      BY <1>7 DEF Succeeds, x
    <2> QED
      BY <1>3, <2>1, <2>2
  <1>8. CASE p.code = "GEX_GROUP" /\ TakesGroup(h, q)
    <2> DEFINE x == Plain("GEX_INIT")
    <2>1. x \in ClientPackets /\ x.code \notin Pieces
      BY <1>2, PacketsTyped DEF ClientCodes, Packet, Plain, Pieces
    <2> HIDE DEF x
    <2>2. h.s.queue = q.s.queue /\ (h.out = q.out \/ h.out = Append(q.out, x))
      BY <1>8 DEF TakesGroup, x
    <2> QED
      BY <1>3, <2>1, <2>2
  <1>9. CASE p.code = "KEXINIT" /\ Rekeys(h, q, p)
    <2> DEFINE x == Plain("KEXINIT")
               y == Plain(h.s.sent)
               o == IF q.s.initSent THEN q.out ELSE Append(q.out, x)
    <2>1. h.s.sent \in {"GEX_REQUEST", "GEX_REQUEST_OLD"} /\ h.s.queue = q.s.queue /\ h.out = Append(o, y)
      BY <1>9 DEF Rekeys
    <2>2. x \in ClientPackets /\ x.code \notin Pieces /\ y \in ClientPackets /\ y.code \notin Pieces
      BY <1>2, <2>1, PacketsTyped DEF ClientCodes, Packet, Plain, Pieces
    <2> HIDE DEF x, y
    <2>3. Append(q.out, x) \in Seq(ClientPackets) /\ DataIn(Append(q.out, x)) = DataIn(q.out)
      BY <1>2, <2>2, OtherPacket
    <2>4. o \in Seq(ClientPackets) /\ DataIn(o) = DataIn(q.out)
      BY <1>2, <2>3
    <2> HIDE DEF o
    <2>5. DataIn(Append(o, y)) = DataIn(o)
      BY <2>2, <2>4, OtherPacket
    <2> QED
      BY <2>1, <2>4, <2>5 DEF Due
  <1>10. CASE p.code = "NEWKEYS" /\ TakesKeys(h, q)
    <2> DEFINE x == Plain("NEWKEYS")
               y == Plain("SERVICE_REQUEST")
               o == Append(q.out, x)
               w == IF q.s.kex THEN o \o q.s.queue ELSE o
    <2>1. /\ h.s.queue = (IF q.s.kex THEN <<>> ELSE q.s.queue)
          /\ h.out = w \/ h.out = Append(w, y)
      BY <1>10 DEF TakesKeys, Keyed
    <2>2. x \in ClientPackets /\ x.code \notin Pieces /\ y \in ClientPackets /\ y.code \notin Pieces
      BY <1>2, PacketsTyped DEF ClientCodes, Packet, Plain, Pieces
    <2> HIDE DEF x, y
    <2>3. o \in Seq(ClientPackets) /\ DataIn(o) = DataIn(q.out)
      BY <1>2, <2>2, OtherPacket
    <2> HIDE DEF o
    <2>4. /\ DataIn(o) \in Seq(Values) /\ DataIn(q.s.queue) \in Seq(Values)
          /\ DataIn(o \o q.s.queue) = DataIn(o) \o DataIn(q.s.queue)
      BY <1>2, <2>3, DataInJoin
    <2>5. w \in Seq(ClientPackets)
      BY <1>2, <2>3
    <2>6. DataIn(h.out) = DataIn(w)
      <3> HIDE DEF w
      <3> QED
        BY <2>1, <2>2, <2>5, OtherPacket
    <2>7. CASE q.s.kex
      <3> DEFINE d == DataIn(o) \o DataIn(q.s.queue)
      <3>1. h.s.queue = <<>> /\ DataIn(w) = d
        BY <2>1, <2>4, <2>7
      <3>2. d \in Seq(Values)
        BY <2>4
      <3>3. d = Due(q)
        BY <2>3 DEF Due
      <3> HIDE DEF d
      <3>4. d \o DataIn(h.s.queue) = d
        BY <3>1, <3>2, NoneLeftOver
      <3> QED
        BY <2>6, <3>1, <3>3, <3>4 DEF Due
    <2>8. CASE ~q.s.kex
      BY <2>1, <2>3, <2>6, <2>8 DEF Due
    <2> QED
      BY <2>7, <2>8
  <1> QED
    BY <1>1, <1>4, <1>5, <1>6, <1>7, <1>8, <1>9, <1>10 DEF Outcomes

\* A chunk of the host.
LEMMA ChunkDelivers ==
  ASSUME NEW s \in Session, NEW st \in Seq(HostUnits), NEW n \in 1 .. Len(st),
         Whole(s.incomplete \o st), Ended(s.incomplete \o st)
  PROVE  Due(processEncryptedData(s, SubSeq(st, 1, n))) = DataIn(s.queue)
PROOF
  <1> DEFINE channel == CurrentChannel(s)
             j == Joined(s, SubSeq(st, 1, n))
             full == s.incomplete \o st
             due == DataIn(s.queue)
             P == {g \in Results \X Seq(HostUnits) : Due(g[1]) = due}
  <1>1. full \in Seq(HostUnits) /\ SubSeq(st, 1, n) \in Seq(HostUnits)
    <2>1. s.incomplete \in Seq(HostUnits)
      BY DEF Session
    <2> QED
      BY <2>1
  <1>2. /\ j \in Results /\ SameMain(j.s, s)
        /\ j.out \in {<<>>, <<Packet("WINDOW_ADJUST", 0, 0)>>}
    BY <1>1, JoinedFacts DEF Kept
  <1>3. channel \in Nat
    BY ResultTyped
  <1> HIDE DEF channel, j, due
  <1>4. ASSUME NEW q \in Results, NEW t \in Session, SameMain(t, q.s)
        PROVE  LET r == [q EXCEPT !.s = t] IN r \in Results /\ Due(r) = Due(q)
    <2> DEFINE r == [q EXCEPT !.s = t]
    <2>1. r \in Results /\ r.s = t /\ r.out = q.out
      BY DEF Results
    <2> HIDE DEF r
    <2>2. t.queue = q.s.queue
      BY <1>4 DEF SameMain
    <2> QED
      BY <2>1, <2>2 DEF Due, r
  <1>5. <<j, full>> \in P
    <2> DEFINE w == Packet("WINDOW_ADJUST", 0, 0)
    <2>1. w \in ClientPackets /\ w.code \notin Pieces
      BY PacketsTyped DEF ClientCodes, Values, Packet, Pieces
    <2> HIDE DEF w
    <2>2. Append(<<>>, w) = <<w>> /\ <<>> \in Seq(ClientPackets)
      OBVIOUS
    <2>3. DataIn(<<w>>) = DataIn(<<>>)
      BY <2>1, <2>2, OtherPacket
    <2>4. DataIn(j.out) = <<>>
      BY <1>2, <2>3, DataInNone DEF w
    <2>5. j.s.queue = s.queue
      BY <1>2 DEF SameMain
    <2>6. due \in Seq(Values)
      <3>1. s.queue \in Seq(ClientPackets)
        BY DEF Session
      <3> QED
        BY <3>1, DataInTyped DEF due
    <2>7. Due(j) = due
      <3>1. <<>> \o due = due
        BY <2>6
      <3> QED
        BY <2>4, <2>5, <3>1 DEF Due, due
    <2> QED
      BY <1>1, <1>2, <2>7
  <1>6. \A q \in Results, u \in Seq(HostUnits) : <<q, u>> \in P <=> Due(q) = due
    OBVIOUS
  <1>7. P \subseteq Results \X Seq(HostUnits)
    OBVIOUS
  <1> HIDE DEF P
  <1>8. ASSUME NEW q \in Results, NEW u \in Seq(HostUnits), NEW t \in Session, <<q, u>> \in P, ~q.error
        PROVE  /\ Kept(t, q.s) => <<[q EXCEPT !.s = t], u>> \in P
               /\ Kept(t, q.s) /\ q.s.encrypted /\ u # <<>> /\ u[1].k # 1 => <<Fail([q EXCEPT !.s = t]), u>> \in P
               /\ \A d \in {1, 2} :
                    /\ d <= Len(u) /\ u[1].k = 1 /\ Counts(t, q.s, u[1].p) /\ Whole(u) /\ Ended(u)
                    /\ d = 2 => u[2] = [p |-> u[1].p, k |-> 2]
                    /\ q.s.encrypted => d = u[1].p.len
                    => <<Handle([q EXCEPT !.s = t], u[1].p, channel), SubSeq(u, d + 1, Len(u))>> \in P
    <2> DEFINE r == [q EXCEPT !.s = t]
    <2>1. SameMain(t, q.s) => r \in Results /\ Due(r) = due
      BY <1>4, <1>6, <1>8
    <2> HIDE DEF r
    <2>2. Kept(t, q.s) => <<r, u>> \in P
      BY <1>6, <2>1 DEF Kept
    <2>3. Kept(t, q.s) => <<Fail(r), u>> \in P
      <3> SUFFICES ASSUME Kept(t, q.s) PROVE <<Fail(r), u>> \in P
        OBVIOUS
      <3>1. r \in Results /\ Due(r) = due
        BY <2>1 DEF Kept
      <3>2. Fail(r) \in Results /\ Fail(r).s = r.s /\ Fail(r).out = r.out
        BY <3>1, FailIs
      <3>3. Due(Fail(r)) = due
        BY <3>1, <3>2 DEF Due
      <3> QED
        BY <1>6, <3>2, <3>3
    <2>4. ASSUME NEW d \in {1, 2}, d <= Len(u), u[1].k = 1, Counts(t, q.s, u[1].p)
          PROVE  <<Handle(r, u[1].p, channel), SubSeq(u, d + 1, Len(u))>> \in P
      <3> DEFINE p == u[1].p
                 h == Handle(r, p, channel)
                 v == SubSeq(u, d + 1, Len(u))
      <3>1. u[1] \in HostUnits
        BY <2>4
      <3>2. p \in HostPackets
        BY <3>1 DEF HostUnits
      <3>3. v \in Seq(HostUnits)
        BY <2>4
      <3>4. r \in Results /\ Due(r) = due
        BY <2>1, <2>4 DEF Counts
      <3> HIDE DEF p, v
      <3>5. h \in Results /\ Due(h) = due
        BY <1>3, <3>2, <3>4, HandleTyped, HandleDelivers
      <3> QED
        BY <1>6, <3>3, <3>5 DEF p, v
    <2> QED
      BY <2>2, <2>3, <2>4 DEF r
  <1>9. Packets(P, channel)
    BY <1>7, <1>8, ZenonT(60) DEF Packets
  <1>10. PICK u \in Seq(HostUnits) : <<processEncryptedData(s, SubSeq(st, 1, n)), u>> \in P
    BY <1>5, <1>9, PacketRule DEF channel, j
  <1>11. processEncryptedData(s, SubSeq(st, 1, n)) \in Results
    BY <1>1, ProcessIs
  <1> QED
    BY <1>6, <1>10, <1>11 DEF due

\* A command of the user: a keystroke comes after the ones before it.
LEMMA SendDelivers ==
  ASSUME NEW s \in Session, NEW code \in UserCodes, NEW x \in Values
  PROVE  (code = "CHANNEL_DATA" => HasChannel(s, s.primary))
           => Due(sendSSHData(s, code, x)) =
                IF code = "CHANNEL_DATA" THEN Append(DataIn(s.queue), x) ELSE DataIn(s.queue)
PROOF
  <1> DEFINE r == sendSSHData(s, code, x)
  <1>1. /\ r \in Results /\ r.msgs = <<>> /\ r.error = FALSE /\ SameReading(r.s, s)
        /\ SameKeys(r.s, s) /\ SameChannels(r.s, s) /\ r.s.expected = s.expected
        /\ r.s.authenticated = s.authenticated /\ r.s.window = s.window
        /\ \/ /\ code \in {"CHANNEL_DATA", "CHANNEL_REQUEST"} /\ ~HasChannel(s, s.primary)
              /\ r.out = <<>> /\ r.s = s
           \/ \E p \in ClientPackets :
                /\ p.code = code /\ p.x = x
                /\ code \in {"CHANNEL_DATA", "CHANNEL_REQUEST"} => HasChannel(s, s.primary)
                /\ IF s.kex THEN r.out = <<>> /\ r.s.queue = Append(s.queue, p)
                   ELSE r.out = Append(s.queue, p) /\ r.s.queue = <<>>
    BY SendIsOne
  <1> DEFINE d == DataIn(s.queue)
             new == IF code = "CHANNEL_DATA" THEN Append(d, x) ELSE d
  <1>2. s.queue \in Seq(ClientPackets) /\ d \in Seq(Values) /\ r \in Results
    <2>1. s.queue \in Seq(ClientPackets)
      BY DEF Session
    <2>2. r \in Results
      BY <1>1
    <2> QED
      BY <2>1, <2>2, DataInTyped
  <1> HIDE DEF r
  <1> SUFFICES ASSUME code = "CHANNEL_DATA" => HasChannel(s, s.primary) PROVE Due(r) = new
    BY DEF r
  <1>3. CASE code # "CHANNEL_DATA" /\ r.out = <<>> /\ r.s = s
    <2>1. DataIn(r.out) \o d = d
      BY <1>2, <1>3, NoneLeftOver
    <2> QED
      BY <1>3, <2>1 DEF Due
  <1>4. ASSUME NEW p \in ClientPackets, p.code = code, p.x = x,
               IF s.kex THEN r.out = <<>> /\ r.s.queue = Append(s.queue, p)
               ELSE r.out = Append(s.queue, p) /\ r.s.queue = <<>>
        PROVE  Due(r) = new
    <2>1. DataIn(Append(s.queue, p)) = new
      <3>1. DataIn(Append(s.queue, p)) = WithData(d, p)
        BY <1>2, DataInAppend
      <3> HIDE DEF d
      <3>2. WithData(d, p) = new
        BY <1>4 DEF WithData, UserCodes
      <3> QED
        BY <3>1, <3>2
    <2>2. new \in Seq(Values)
      <3> HIDE DEF d
      <3> QED
        BY <1>2
    <2> HIDE DEF new, d
    <2>3. CASE s.kex
      <3>1. DataIn(r.out) \o new = new
        BY <1>4, <2>2, <2>3, NoneLeftOver
      <3> QED
        BY <1>4, <2>1, <2>3, <3>1 DEF Due
    <2>4. CASE ~s.kex
      <3>1. new \o DataIn(r.s.queue) = new
        BY <1>4, <2>2, <2>4, NoneLeftOver
      <3> QED
        BY <1>4, <2>1, <2>4, <3>1 DEF Due
    <2> QED
      BY <2>3, <2>4
  <1> QED
    BY <1>1, <1>3, <1>4

\* The sequences an input goes through, taken together in two ways.
LEMMA OneMoreAtTheEnd ==
  ASSUME NEW g \in Seq(Values), NEW w \in Seq(Values), NEW x \in Values
  PROVE  g \o Append(w, x) = Append(g \o w, x)
  OBVIOUS

LEMMA NothingBehind ==
  ASSUME NEW g \in Seq(Values)
  PROVE  g \o <<>> = g /\ <<>> \o g = g /\ <<>> \in Seq(Values)
  OBVIOUS

LEMMA JoinedInThree ==
  ASSUME NEW g \in Seq(Values), NEW n \in Seq(Values), NEW w \in Seq(Values)
  PROVE  (g \o n) \o w = g \o (n \o w) /\ g \o n \in Seq(Values)
  OBVIOUS

\* The same of an operator that the provers leave closed.
Followed(g, n) == g \o n
LEMMA FollowedThree ==
  \A g, n, w \in Seq(Values) :
    Followed(Followed(g, n), w) = Followed(g, Followed(n, w)) /\ Followed(g, n) \in Seq(Values)
  BY JoinedInThree DEF Followed

\* What is with the host, on the socket, and waiting for the keys.
InAll(g, n, s) == (g \o DataIn(n)) \o (IF s.exists THEN DataIn(s.queue) ELSE <<>>)

LEMMA InAllIs == srv.got \o DataIn(net) \o DataIn(QueueData) = InAll(srv.got, net, ssh)
  BY DataInNone DEF InAll, QueueData

LEMMA WaitingTyped ==
  ASSUME NEW s, IsSsh(s)
  PROVE  (IF s.exists THEN DataIn(s.queue) ELSE <<>>) \in Seq(Values)
PROOF
  <1>1. CASE s = NoSession
    BY <1>1, SessionFacts, NothingBehind
  <1>2. CASE s \in Session
    <2>1. s.exists = TRUE /\ s.queue \in Seq(ClientPackets)
      BY <1>2, SessionFacts DEF Session
    <2> QED
      BY <2>1, DataInTyped
  <1> QED
    BY <1>1, <1>2 DEF IsSsh

\* Packets that go out together with what waits after them.
LEMMA SentOut ==
  ASSUME NEW g \in Seq(Values), NEW n \in Seq(ClientPackets), NEW r \in Results
  PROVE  InAll(g, n \o r.out, r.s) = (g \o DataIn(n)) \o Due(r)
PROOF
  <1>1. r.out \in Seq(ClientPackets) /\ r.s.queue \in Seq(ClientPackets) /\ r.s.exists = TRUE
    <2>1. r.out \in Seq(ClientPackets) /\ r.s \in Session
      BY DEF Results
    <2>2. r.s.queue \in Seq(ClientPackets)
      BY <2>1 DEF Session
    <2> QED
      BY <2>1, <2>2, SessionFacts
  <1> DEFINE o == DataIn(r.out)
             w == DataIn(r.s.queue)
             d == DataIn(n)
  <1>2. DataIn(n \o r.out) = d \o o
    BY <1>1, DataInJoin
  <1>3. o \in Seq(Values) /\ w \in Seq(Values) /\ d \in Seq(Values)
    BY <1>1, DataInTyped
  <1>4. InAll(g, n \o r.out, r.s) = (g \o DataIn(n \o r.out)) \o w
    BY <1>1 DEF InAll
  <1>5. Due(r) = o \o w
    BY DEF Due
  <1> HIDE DEF o, w, d
  <1>6. (g \o d) \o o = g \o (d \o o) /\ g \o d \in Seq(Values)
    BY <1>3, JoinedInThree
  <1>7. ((g \o d) \o o) \o w = (g \o d) \o (o \o w)
    BY <1>3, <1>6, JoinedInThree
  <1> QED
    BY <1>2, <1>4, <1>5, <1>6, <1>7 DEF d

\* A packet that is read.
LEMMA ReadOne ==
  ASSUME NEW g \in Seq(Values), NEW n \in Seq(ClientPackets), n # <<>>, NEW s
  PROVE  InAll(WithData(g, Head(n)), Tail(n), s) = InAll(g, n, s)
PROOF
  <1> DEFINE p == Head(n)
             rest == Tail(n)
  <1>1. p \in ClientPackets /\ rest \in Seq(ClientPackets) /\ n = <<p>> \o rest
    BY HeadTailProperties, NothingBehind
  <1> HIDE DEF p, rest
  <1>2. <<>> \in Seq(ClientPackets) /\ Append(<<>>, p) = <<p>> /\ <<p>> \in Seq(ClientPackets)
    BY <1>1
  <1>3. DataIn(<<p>>) = WithData(<<>>, p)
    BY <1>1, <1>2, DataInAppend, DataInNone
  <1>4. DataIn(<<p>>) \in Seq(Values) /\ DataIn(rest) \in Seq(Values)
        /\ DataIn(n) = DataIn(<<p>>) \o DataIn(rest)
    BY <1>1, <1>2, DataInJoin
  <1>5. WithData(g, p) = g \o DataIn(<<p>>)
    <2>1. WithData(g \o <<>>, p) = g \o WithData(<<>>, p)
      <3>1. p \in Parcels
        BY <1>1 DEF Parcels
      <3> QED
        BY <3>1, NothingBehind, WithDataJoins
    <2> QED
      BY <1>3, <2>1, NothingBehind
  <1> DEFINE a == DataIn(<<p>>)
             b == DataIn(rest)
  <1>6. WithData(g, p) = g \o a /\ DataIn(n) = a \o b /\ a \in Seq(Values) /\ b \in Seq(Values)
    BY <1>4, <1>5
  <1> HIDE DEF a
  <1>7. WithData(g, p) \o DataIn(rest) = g \o DataIn(n)
    <2> HIDE DEF b
    <2>1. (g \o a) \o b = g \o (a \o b)
      BY <1>6, JoinedInThree
    <2> QED
      BY <1>6, <2>1 DEF b
  <1> QED
    BY <1>7 DEF InAll, p, rest

LEMMA GotTyped ==
  ASSUME Good
  PROVE  /\ Typed /\ IsSsh(ssh) /\ net \in Seq(ClientPackets) /\ stream \in Seq(HostUnits)
         /\ srv \in Servers /\ srv.got \in Seq(Values) /\ DataIn(net) \in Seq(Values)
         /\ SeenFields \subseteq DOMAIN seen /\ seen.inputs \in Nat
PROOF
  <1>1. /\ Typed /\ IsSsh(ssh) /\ net \in Seq(ClientPackets) /\ stream \in Seq(HostUnits)
        /\ srv \in Servers /\ SeenFields \subseteq DOMAIN seen /\ seen.inputs \in Nat
    BY DEF Good, Typed, IsHistory
  <1>2. srv.got \in Seq(Values)
    BY <1>1 DEF Servers
  <1> QED
    BY <1>1, <1>2, DataInTyped

\* A command of the user under SSH.
LEMMA InputSent ==
  ASSUME Good, SshReady, NEW code \in UserCodes, NEW x \in Values, sendToHost(code, x),
         code = "CHANNEL_DATA" => HasChannel(ssh, ssh.primary)
  PROVE  InAll(srv.got, net', ssh') =
           IF code = "CHANNEL_DATA" THEN Append(InAll(srv.got, net, ssh), x)
           ELSE InAll(srv.got, net, ssh)
PROOF
  <1> DEFINE r == sendSSHData(ssh, code, x)
             d == DataIn(ssh.queue)
             g == srv.got \o DataIn(net)
  <1>1. code \in ClientCodes
    BY DEF UserCodes, ClientCodes
  <1>2. ssh \in Session /\ r \in Results /\ ssh' = r.s /\ net' = net \o r.out
    BY <1>1, GotTyped, SendToHostOutcome
  <1>3. Due(r) = IF code = "CHANNEL_DATA" THEN Append(d, x) ELSE d
    BY <1>2, SendDelivers
  <1>4. ssh.exists = TRUE /\ d \in Seq(Values)
    <2>1. ssh.queue \in Seq(ClientPackets)
      BY <1>2 DEF Session
    <2> QED
      BY <1>2, <2>1, SessionFacts, DataInTyped
  <1>5. srv.got \in Seq(Values) /\ net \in Seq(ClientPackets) /\ DataIn(net) \in Seq(Values)
    BY GotTyped
  <1>6. InAll(srv.got, net, ssh) = g \o d
    BY <1>4 DEF InAll
  <1>7. g \in Seq(Values)
    BY <1>5, JoinedInThree
  <1> HIDE DEF r, d
  <1>8. InAll(srv.got, net', ssh') = g \o Due(r)
    BY <1>2, <1>5, SentOut
  <1> HIDE DEF g
  <1>9. g \o Append(d, x) = Append(g \o d, x)
    BY <1>4, <1>7, OneMoreAtTheEnd
  <1> QED
    BY <1>3, <1>6, <1>8, <1>9

\* A chunk of the host under SSH.
LEMMA InputsHeard ==
  ASSUME Good, OrderInv, Live, NEW n \in 1 .. Len(stream)
  PROVE  LET r == processEncryptedData(ssh, SubSeq(stream, 1, n)) IN
         r \in Results => InAll(srv.got, net \o r.out, r.s) = InAll(srv.got, net, ssh)
PROOF
  <1> DEFINE r == processEncryptedData(ssh, SubSeq(stream, 1, n))
             g == srv.got \o DataIn(net)
             w == IF ssh.exists THEN DataIn(ssh.queue) ELSE <<>>
  <1>1. IsSsh(ssh) /\ stream \in Seq(HostUnits) /\ srv.got \in Seq(Values) /\ net \in Seq(ClientPackets)
    BY GotTyped
  <1>2. InAll(srv.got, net, ssh) = g \o w
    BY DEF InAll
  <1>3. Due(r) = w
    <2>1. CASE ssh = NoSession
      <3>1. r.s = NewSession /\ r.out = <<Plain("VERSION")>> /\ w = <<>>
        BY <2>1, FirstChunk, SessionFacts
      <3>2. NewSession.queue = <<>>
        BY DEF NewSession
      <3> DEFINE p == Plain("VERSION")
      <3>3. p \in ClientPackets /\ p.code \notin Pieces
        BY PacketsTyped DEF ClientCodes, Values, Packet, Plain, Pieces
      <3> HIDE DEF p
      <3>4. Append(<<>>, p) = <<p>> /\ <<>> \in Seq(ClientPackets)
        OBVIOUS
      <3>5. DataIn(<<p>>) = <<>>
        BY <3>3, <3>4, OtherPacket, DataInNone
      <3> HIDE DEF r
      <3>6. Due(r) = <<>> \o <<>>
        BY <3>1, <3>2, <3>5, DataInNone DEF Due, p
      <3> QED
        BY <3>1, <3>6, NothingBehind
    <2>2. CASE ssh \in Session
      <3>1. KeptBack(ssh) = ssh.incomplete /\ ssh.exists = TRUE
        BY <2>2, SessionFacts
      <3>2. Whole(ssh.incomplete \o stream) /\ Ended(ssh.incomplete \o stream)
        BY <3>1 DEF OrderInv, InStep, HostSide
      <3> QED
        BY <1>1, <2>2, <3>1, <3>2, ChunkDelivers
    <2> QED
      BY <1>1, <2>1, <2>2 DEF IsSsh
  <1> HIDE DEF r
  <1>4. r \in Results => InAll(srv.got, net \o r.out, r.s) = g \o Due(r)
    BY <1>1, SentOut
  <1> QED
    BY <1>2, <1>3, <1>4 DEF r

\* What the server does otherwise leaves what it got as it is.
LEMMA SpeaksKeepsGot ==
  ASSUME Good, NEW sv \in Servers, sv.got = srv.got, NEW code \in HostCodes, NEW x \in Values,
         ServerSpeaks(sv, code, x)
  PROVE  srv'.got = srv.got
PROOF
  <1> DEFINE a == [code |-> code, x |-> x]
             codes == <<a>>
             e == Emit(sv, stream, codes)
  <1>1. srv' = e.srv
    BY DEF ServerSpeaks
  <1>2. a \in Commands
    BY CodeTyped
  <1> HIDE DEF a
  <1>3. \E b \in Commands : codes = <<b>>
    BY <1>2
  <1> HIDE DEF codes
  <1>4. SameServer(e.srv, sv)
    BY <1>3, GotTyped, EmitKeeps
  <1> QED
    BY <1>1, <1>4 DEF SameServer

\* The server that reads a packet gets its data.
LEMMA ServerGets ==
  ASSUME Good, serverReads
  PROVE  /\ Head(net) \in ClientPackets /\ net # <<>> /\ net' = Tail(net) /\ UNCHANGED <<ssh, seen, conn>>
         /\ Head(net).code # "RAW" => srv'.got = WithData(srv.got, Head(net))
PROOF
  <1> DEFINE p == Head(net)
             read == ReadBy(p)
  <1>1. /\ p \in ClientPackets /\ net # <<>> /\ net' = Tail(net) /\ UNCHANGED <<ssh, seen, conn>>
    BY GotTyped, ServerReadsOutcome DEF client
  <1>2. PICK answer \in Answers(p) :
          LET e == Emit(Greets(read, answer), stream, answer) IN
          e \in Emissions /\ srv' = e.srv /\ stream' = e.stream
    BY GotTyped, ServerReadsOutcome
  <1> DEFINE sv == Greets(read, answer)
             e == Emit(sv, stream, answer)
  <1>3. read \in Servers /\ read.got = IF p.code = "CHANNEL_DATA" THEN Append(srv.got, p.x) ELSE srv.got
    BY <1>1, GotTyped, ReadByFacts
  <1>4. \/ answer = <<>>
        \/ \E a \in Commands : answer = <<a>>
        \/ \E a, b \in Commands : answer = <<a, b>>
    BY GotTyped, AnswersTyped
  <1> HIDE DEF p, read
  <1>5. sv \in Servers /\ sv.got = read.got
    BY <1>3, GreetsFacts
  <1> HIDE DEF sv
  <1>6. SameServer(e.srv, sv)
    BY <1>4, <1>5, GotTyped, EmitKeeps
  <1>7. srv'.got = read.got
    BY <1>2, <1>5, <1>6 DEF SameServer, sv
  <1>8. p.code # "RAW" => srv'.got = WithData(srv.got, p)
    BY <1>3, <1>7 DEF WithData
  <1> QED
    BY <1>1, <1>8 DEF p

\* An input outside SSH, or before the host spoke.
LEMMA InputWritten ==
  ASSUME NEW g \in Seq(Values), NEW n \in Seq(ClientPackets), NEW x \in Values
  PROVE  InAll(g, Append(n, Packet("RAW", 0, x)), NoSession) = Append(InAll(g, n, NoSession), x)
PROOF
  <1> DEFINE p == Packet("RAW", 0, x)
             d == DataIn(n)
  <1>1. p \in ClientPackets /\ p.code = "RAW" /\ p.x = x
    BY PacketsTyped DEF ClientCodes, Values, Packet
  <1>2. DataIn(Append(n, p)) = Append(d, x)
    BY <1>1, DataInAppend DEF WithData
  <1>3. d \in Seq(Values)
    BY DataInTyped
  <1> HIDE DEF p, d
  <1>4. g \o Append(d, x) = Append(g \o d, x) /\ g \o d \in Seq(Values) /\ Append(d, x) \in Seq(Values)
    BY <1>3, OneMoreAtTheEnd, JoinedInThree
  <1>5. (g \o d) \o <<>> = g \o d /\ Append(g \o d, x) \o <<>> = Append(g \o d, x)
    <2>1. Append(g \o d, x) \in Seq(Values)
      BY <1>4
    <2> QED
      BY <1>4, <2>1, NothingBehind
  <1>6. InAll(g, Append(n, p), NoSession) = (g \o Append(d, x)) \o <<>>
    BY <1>2, SessionFacts DEF InAll
  <1>7. InAll(g, n, NoSession) = (g \o d) \o <<>>
    BY SessionFacts DEF InAll, d
  <1> QED
    BY <1>4, <1>5, <1>6, <1>7 DEF p

LEMMA InAllPrimed == srv'.got \o DataIn(net') \o DataIn(QueueData') = InAll(srv'.got, net', ssh')
  BY DataInNone DEF InAll, QueueData

LEMMA NextInputs == Good /\ OrderInv /\ Shell /\ InputsExactlyOnce /\ [Next]_vars => InputsExactlyOnce'
PROOF
  <1> SUFFICES ASSUME Good, OrderInv, Shell, InputsExactlyOnce, [Next]_vars,
                      conn', cur' = 1, socks'[1] = "up", ~seen'.extra, ~seen'.raw
               PROVE  seen'.typed = InAll(srv'.got, net', ssh')
    BY InAllPrimed DEF InputsExactlyOnce
  <1> DEFINE now == InAll(srv.got, net, ssh)
  <1>0. /\ Typed /\ IsSsh(ssh) /\ net \in Seq(ClientPackets) /\ stream \in Seq(HostUnits)
        /\ srv \in Servers /\ srv.got \in Seq(Values) /\ DataIn(net) \in Seq(Values)
        /\ SeenFields \subseteq DOMAIN seen /\ seen.inputs \in Nat /\ Base
    BY GotTyped DEF Good
  <1>1. CASE connectHandler(1) /\ cur = 1 /\ socks[1] = "connecting"
    <2>1. Untouched
      BY <1>0, <1>1 DEF Base, Unconnected
    <2>2. ssh = NoSession /\ net = <<>> /\ srv.got = <<>> /\ seen.typed = <<>>
      BY <2>1 DEF Untouched, FreshServer, Blank
    <2>3. ssh' = ssh /\ net' = net /\ seen' = seen
      BY <1>1 DEF connectHandler
    <2>4. srv'.got = srv.got
      <3>1. srv' = srv \/ \E eager \in BOOLEAN, method \in {"gex", "old"} :
              srv' = [srv EXCEPT !.kex = eager, !.sent = IF eager THEN 1 ELSE 0, !.method = method]
        BY <1>1 DEF connectHandler
      <3> QED
        BY <1>0, <3>1 DEF Servers
    <2>5. InAll(<<>>, <<>>, NoSession) = <<>>
      <3>1. InAll(<<>>, <<>>, NoSession) = (<<>> \o <<>>) \o <<>>
        BY SessionFacts, DataInNone DEF InAll
      <3> QED
        BY <3>1, NothingBehind
    <2> QED
      BY <2>2, <2>3, <2>4, <2>5
  <1> SUFFICES ASSUME cur = 1, socks[1] = "up", kind' = kind,
                 \/ \E n \in 1 .. Len(stream) : handleData(n) /\ ~closeConnection
                 \/ \E fingerprint, accept \in BOOLEAN : certificateAnswer(fingerprint, accept)
                 \/ clientData \/ authenticationAnswer \/ \E x \in {0, 1} : channelRequest(x)
                 \/ serverReads \/ hostReads \/ hostSends \/ serverRekeys \/ serverDisconnects
                 \/ UNCHANGED <<ssh, asked, net, stream, srv, seen, awaiting, buffered, conn, ws, listeners>>
               PROVE  seen'.typed = InAll(srv'.got, net', ssh')
    BY <1>1, UpSteps
  <1>2. ~seen.extra /\ ~seen.raw /\ (conn => seen.typed = now)
    BY ExtraOnRecord, RawOnRecord, InAllIs DEF InputsExactlyOnce
  <1> HIDE DEF now
  <1>3. ASSUME NEW n \in 1 .. Len(stream), handleData(n), ~closeConnection
        PROVE  seen'.typed = InAll(srv'.got, net', ssh')
    <2>1. CASE kind = "ssh"
      <3> DEFINE r == processEncryptedData(ssh, SubSeq(stream, 1, n))
      <3>1. sshData(SubSeq(stream, 1, n)) /\ Live
        BY <1>3, <2>1 DEF handleData, Live
      <3>2. /\ r \in Results /\ ssh' = r.s /\ net' = net \o r.out /\ conn' = conn /\ srv' = srv
            /\ seen'.typed = seen.typed
        BY <1>0, <1>3, <3>1, SshDataOutcome
      <3>3. InAll(srv.got, net \o r.out, r.s) = InAll(srv.got, net, ssh)
        BY <3>1, <3>2, InputsHeard
      <3> HIDE DEF r
      <3> QED
        BY <1>2, <3>2, <3>3 DEF now
    <2>2. CASE kind # "ssh"
      <3>1. /\ conn' = conn /\ ssh' = ssh /\ net' = net /\ srv' = srv
            /\ seen' = seen \/ \E d : seen' = [seen EXCEPT !.shown = d]
        BY <1>3, <2>2 DEF handleData
      <3>2. seen'.typed = seen.typed
        BY <1>0, <3>1 DEF SeenFields
      <3> QED
        BY <1>2, <3>1, <3>2 DEF now
    <2> QED
      BY <2>1, <2>2
  <1>4. ASSUME NEW fingerprint \in BOOLEAN, NEW accept \in BOOLEAN, certificateAnswer(fingerprint, accept)
        PROVE  seen'.typed = InAll(srv'.got, net', ssh')
    <2>1. conn' = conn /\ ssh' = ssh /\ net' = net /\ srv' = srv
      BY <1>4 DEF certificateAnswer, Idle
    <2>2. seen'.typed = seen.typed
      BY <1>0, <1>4 DEF certificateAnswer, SeenFields
    <2> QED
      BY <1>2, <2>1, <2>2 DEF now
  <1>5. CASE clientData
    <2> DEFINE x == seen.inputs + 1
    <2>1. /\ conn /\ srv' = srv /\ x \in Values
          /\ IF SshReady THEN sendToHost("CHANNEL_DATA", x) /\ ssh.primary # 0
             ELSE net' = Append(net, Packet("RAW", 0, x)) /\ ssh' = ssh
      BY <1>0, <1>5 DEF clientData, Takes, Idle, Values
    <2>2. seen'.typed = Append(seen.typed, x)
          /\ seen'.raw = (seen.raw \/ (kind = "ssh" /\ ~ssh.exists))
      BY <1>0, <1>5 DEF clientData, SeenFields
    <2> HIDE DEF x
    <2>3. CASE SshReady
      <3>1. HasChannel(ssh, ssh.primary)
        BY <1>2, <2>1, <2>3 DEF SshReady, Shell, Home
      <3>2. InAll(srv.got, net', ssh') = Append(InAll(srv.got, net, ssh), x)
        <4>1. "CHANNEL_DATA" \in UserCodes
          BY DEF UserCodes
        <4> QED
          BY <2>1, <2>3, <3>1, <4>1, InputSent
      <3> QED
        BY <1>2, <2>1, <2>2, <3>2 DEF now
    <2>4. CASE ~SshReady
      <3>1. ssh = NoSession
        BY <1>0, <2>2, <2>4, SessionFacts DEF SshReady, Base, IsSsh
      <3>2. InAll(srv.got, net', ssh) = Append(InAll(srv.got, net, ssh), x)
        BY <1>0, <2>1, <2>4, <3>1, InputWritten
      <3> QED
        BY <1>2, <2>1, <2>2, <2>4, <3>2 DEF now
    <2> QED
      BY <2>3, <2>4
  <1>6. ASSUME NEW code \in UserCodes, code # "CHANNEL_DATA", NEW x \in Values, SshReady,
               sendToHost(code, x), conn, srv' = srv, seen'.typed = seen.typed
        PROVE  seen'.typed = InAll(srv'.got, net', ssh')
    <2>1. InAll(srv.got, net', ssh') = InAll(srv.got, net, ssh)
      BY <1>6, InputSent
    <2> QED
      BY <1>2, <1>6, <2>1 DEF now
  <1>7. CASE authenticationAnswer
    <2> DEFINE code == IF asked = "auth" THEN "USERAUTH_REQUEST" ELSE "USERAUTH_INFO_RESPONSE"
    <2>1. SshReady /\ sendToHost(code, 0) /\ conn /\ srv' = srv /\ seen' = seen
      BY <1>7 DEF authenticationAnswer, Takes, Idle
    <2>2. code \in UserCodes /\ code # "CHANNEL_DATA" /\ 0 \in Values
      BY DEF UserCodes, Values
    <2> HIDE DEF code
    <2> QED
      BY <1>6, <2>1, <2>2
  <1>8. ASSUME NEW x \in {0, 1}, channelRequest(x) PROVE seen'.typed = InAll(srv'.got, net', ssh')
    <2>1. SshReady /\ sendToHost("CHANNEL_REQUEST", x) /\ conn /\ srv' = srv
      BY <1>8 DEF channelRequest, Takes, Idle
    <2>2. seen'.typed = seen.typed
      BY <1>0, <1>8 DEF channelRequest, SeenFields
    <2>3. "CHANNEL_REQUEST" \in UserCodes /\ x \in Values
      BY DEF UserCodes, Values
    <2> QED
      BY <1>6, <2>1, <2>2, <2>3
  <1>9. CASE serverReads
    <2> DEFINE p == Head(net)
    <2>1. /\ p \in ClientPackets /\ net # <<>> /\ net' = Tail(net) /\ UNCHANGED <<ssh, seen, conn>>
          /\ p.code # "RAW" => srv'.got = WithData(srv.got, p)
      BY <1>9, ServerGets
    <2>2. p.code # "RAW"
      <3>1. Live
        BY <1>9 DEF serverReads, Live
      <3>2. NoRaw(net)
        BY <1>2, <3>1 DEF OrderInv
      <3>3. 1 \in DOMAIN net /\ p = net[1]
        BY <1>0, <2>1
      <3> QED
        BY <3>2, <3>3 DEF NoRaw
    <2>3. InAll(WithData(srv.got, p), Tail(net), ssh) = InAll(srv.got, net, ssh)
      BY <1>0, <2>1, ReadOne
    <2> HIDE DEF p
    <2> QED
      BY <1>2, <2>1, <2>2, <2>3 DEF now
  <1>10. CASE hostReads
    <2> DEFINE p == Head(net)
    <2>1. /\ kind # "ssh" /\ net # <<>> /\ net' = Tail(net) /\ UNCHANGED <<ssh, seen, conn>>
          /\ srv' = [srv EXCEPT !.got = Append(@, p.x)]
      BY <1>10 DEF hostReads, client
    <2>2. p.code = "RAW"
      <3>1. PlainPackets(net) /\ 1 \in DOMAIN net /\ p = net[1]
        BY <1>0, <2>1 DEF Base
      <3> QED
        BY <3>1 DEF PlainPackets
    <2>3. srv'.got = WithData(srv.got, p)
      BY <1>0, <2>1, <2>2 DEF Servers, WithData
    <2>4. InAll(WithData(srv.got, p), Tail(net), ssh) = InAll(srv.got, net, ssh)
      BY <1>0, <2>1, ReadOne
    <2> HIDE DEF p
    <2> QED
      BY <1>2, <2>1, <2>3, <2>4 DEF now
  <1>11. ASSUME NEW sv \in Servers, sv.got = srv.got, NEW code \in HostCodes, NEW x \in Values,
                ServerSpeaks(sv, code, x), seen'.typed = seen.typed
         PROVE  seen'.typed = InAll(srv'.got, net', ssh')
    <2>1. srv'.got = srv.got
      BY <1>11, SpeaksKeepsGot
    <2>2. ssh' = ssh /\ net' = net /\ conn' = conn
      BY <1>11 DEF ServerSpeaks
    <2> QED
      BY <1>2, <1>11, <2>1, <2>2 DEF now
  <1>12. CASE hostSends
    <2>1. ServerSpeaks(srv, "CHANNEL_DATA", seen.data + 1)
      BY <1>12 DEF hostSends
    <2>2. seen'.typed = seen.typed
      BY <1>0, <1>12 DEF hostSends, SeenFields
    <2>3. "CHANNEL_DATA" \in HostCodes /\ seen.data + 1 \in Values
      BY <1>0 DEF HostCodes, Values, Typed, IsHistory
    <2> QED
      BY <1>0, <1>11, <2>1, <2>2, <2>3
  <1>13. CASE serverRekeys
    <2> DEFINE sv == [srv EXCEPT !.rekeys = @ + 1]
    <2>1. ServerSpeaks(sv, "KEXINIT", srv.method) /\ seen' = seen
      BY <1>13 DEF serverRekeys
    <2>2. sv \in Servers /\ sv.got = srv.got
      <3> DEFINE more == srv.rekeys + 1
      <3>1. more \in Nat /\ sv = [srv EXCEPT !.rekeys = more]
        BY <1>0 DEF Servers
      <3> HIDE DEF more
      <3>2. [srv EXCEPT !.rekeys = more] \in Servers /\ [srv EXCEPT !.rekeys = more].got = srv.got
        BY <1>0, <3>1 DEF Servers
      <3> QED
        BY <3>1, <3>2
    <2>3. srv.method \in Values
      BY <1>0 DEF Servers, Values
    <2>4. "KEXINIT" \in HostCodes
      BY DEF HostCodes
    <2> HIDE DEF sv
    <2> QED
      BY <1>11, <2>1, <2>2, <2>3, <2>4
  <1>14. CASE serverDisconnects
    <2> DEFINE sv == [srv EXCEPT !.over = TRUE]
    <2>1. ServerSpeaks(sv, "DISCONNECT", 0) /\ seen' = seen
      BY <1>14 DEF serverDisconnects
    <2>2. sv \in Servers /\ sv.got = srv.got /\ "DISCONNECT" \in HostCodes /\ 0 \in Values
      BY <1>0 DEF Servers, HostCodes, Values
    <2> HIDE DEF sv
    <2> QED
      BY <1>11, <2>1, <2>2
  <1>15. CASE UNCHANGED <<ssh, asked, net, stream, srv, seen, awaiting, buffered, conn, ws, listeners>>
    BY <1>2, <1>15 DEF now
  <1> QED
    BY <1>3, <1>4, <1>5, <1>7, <1>8, <1>9, <1>10, <1>12, <1>13, <1>14, <1>15

\* What the user typed is with the host, under way, or waiting for the end of a
\* key exchange: in its order, nothing twice and nothing lost, whatever the key
\* exchanges, the pieces TCP cuts and the replies in between.
THEOREM InputsAreKept == Spec => []InputsExactlyOnce
PROOF
  <1>1. Init => InputsExactlyOnce
    BY DEF Init, InputsExactlyOnce
  <1>2. (Good /\ OrderInv /\ TokenInv /\ Shell) /\ InputsExactlyOnce /\ [Next]_vars => InputsExactlyOnce'
    BY NextInputs
  <1> QED
    BY <1>1, <1>2, TokensHold, PTL DEF Spec

-----------------------------------------------------------------------------
(* The data of the host, on their way *)

\* The data a packet adds, and those that end among units.
Bit(a) == IF a.code \in Pieces THEN <<a.x>> ELSE <<>>
Completed(u) == IF u.k = u.p.len THEN u.p ELSE Plain("rest")
Lasts(units) == [i \in DOMAIN units |-> Completed(units[i])]
UnitData(units) == DataIn(Lasts(units))

LEMMA BitIs ==
  ASSUME NEW a \in Parcels
  PROVE  DataIn(<<a>>) = Bit(a) /\ Bit(a) \in Seq(Values) /\ <<a>> \in Seq(Parcels)
PROOF
  <1>1. a.x \in Values /\ <<>> \in Seq(Parcels) /\ Append(<<>>, a) = <<a>> /\ <<a>> \in Seq(Parcels)
    BY ParcelsHold
  <1>2. DataIn(<<a>>) = WithData(<<>>, a)
    BY <1>1, ParcelsAppend, DataInNone
  <1> DEFINE x == a.x
  <1>3. Append(<<>>, x) = <<x>> /\ <<x>> \in Seq(Values) /\ <<>> \in Seq(Values)
    BY <1>1
  <1> QED
    BY <1>1, <1>2, <1>3 DEF WithData, Bit, Pieces

LEMMA TwoInOne ==
  ASSUME NEW S, NEW a \in S, NEW b \in S
  PROVE  <<a>> \in Seq(S) /\ <<b>> \in Seq(S) /\ <<a>> \o <<b>> = <<a, b>>
PROOF
  <1> DEFINE u == <<a>>
             v == <<b>>
             w == u \o v
             z == <<a, b>>
  <1>1. u \in Seq(S) /\ Len(u) = 1 /\ u[1] = a /\ v \in Seq(S) /\ Len(v) = 1 /\ v[1] = b
    OBVIOUS
  <1>2. z \in Seq(S) /\ Len(z) = 2 /\ z[1] = a /\ z[2] = b
    OBVIOUS
  <1> HIDE DEF u, v, z
  <1>3. /\ w \in Seq(S) /\ Len(w) = Len(u) + Len(v)
        /\ \A i \in 1 .. Len(u) : w[i] = u[i]
        /\ \A i \in 1 .. Len(v) : w[Len(u) + i] = v[i]
    BY <1>1, JoinFacts
  <1> HIDE DEF w
  <1>4. Len(w) = 2 /\ w[1] = a /\ w[2] = b
    <2>1. Len(u) = 1 /\ Len(v) = 1 /\ 1 \in 1 .. 1 /\ 1 + 1 = 2
      BY <1>1
    <2> QED
      BY <1>1, <1>3, <2>1
  <1>5. \A i \in 1 .. 2 : w[i] = z[i]
    BY <1>2, <1>4
  <1>6. w = z
    BY <1>2, <1>3, <1>4, <1>5, SameSequence
  <1> QED
    BY <1>1, <1>6 DEF u, v, w, z

LEMMA TwoBits ==
  ASSUME NEW a \in Parcels, NEW b \in Parcels
  PROVE  DataIn(<<a, b>>) = Bit(a) \o Bit(b)
PROOF
  <1>1. <<a>> \in Seq(Parcels) /\ <<b>> \in Seq(Parcels) /\ <<a>> \o <<b>> = <<a, b>>
    BY TwoInOne
  <1>2. DataIn(<<a>> \o <<b>>) = DataIn(<<a>>) \o DataIn(<<b>>)
    BY <1>1, ParcelsJoin
  <1> QED
    BY <1>1, <1>2, BitIs

LEMMA LastsFacts ==
  ASSUME NEW u \in Seq(HostUnits)
  PROVE  /\ Lasts(u) \in Seq(Parcels) /\ Len(Lasts(u)) = Len(u) /\ Len(u) \in Nat
         /\ \A i \in 1 .. Len(u) : Lasts(u)[i] = Completed(u[i])
         /\ UnitData(u) \in Seq(Values)
PROOF
  <1>1. ASSUME NEW i \in 1 .. Len(u) PROVE Completed(u[i]) \in Parcels
    <2>1. u[i] \in HostUnits
      OBVIOUS
    <2> QED
      BY <2>1 DEF HostUnits, Completed, Parcels
  <1>2. DOMAIN u = 1 .. Len(u) /\ Len(u) \in Nat
    OBVIOUS
  <1>3. Lasts(u) = [i \in 1 .. Len(u) |-> Completed(u[i])]
    BY <1>2 DEF Lasts
  <1>4. Lasts(u) \in Seq(Parcels) /\ Len(Lasts(u)) = Len(u) /\ \A i \in 1 .. Len(u) : Lasts(u)[i] = Completed(u[i])
    BY <1>1, <1>2, <1>3
  <1> QED
    BY <1>2, <1>4, ParcelsTyped DEF UnitData

LEMMA UnitsJoined ==
  ASSUME NEW u \in Seq(HostUnits), NEW v \in Seq(HostUnits)
  PROVE  UnitData(u \o v) = UnitData(u) \o UnitData(v)
PROOF
  <1> DEFINE w == u \o v
             a == Lasts(u)
             b == Lasts(v)
             c == Lasts(w)
             m == Len(u)
             n == Len(v)
  <1>1. /\ w \in Seq(HostUnits) /\ Len(w) = m + n /\ m \in Nat /\ n \in Nat
        /\ \A i \in 1 .. m : w[i] = u[i]
        /\ \A i \in 1 .. n : w[m + i] = v[i]
    BY JoinFacts
  <1>2. /\ a \in Seq(Parcels) /\ Len(a) = m /\ \A i \in 1 .. m : a[i] = Completed(u[i])
    BY LastsFacts
  <1>3. /\ b \in Seq(Parcels) /\ Len(b) = n /\ \A i \in 1 .. n : b[i] = Completed(v[i])
    BY LastsFacts
  <1> HIDE DEF w
  <1>4. /\ c \in Seq(Parcels) /\ Len(c) = m + n /\ \A i \in 1 .. m + n : c[i] = Completed(w[i])
    BY <1>1, LastsFacts
  <1> HIDE DEF a, b, c, m, n
  <1>5. /\ a \o b \in Seq(Parcels) /\ Len(a \o b) = m + n
        /\ \A i \in 1 .. m : (a \o b)[i] = a[i]
        /\ \A i \in 1 .. n : (a \o b)[m + i] = b[i]
    <2> DEFINE d == a \o b
    <2>1. /\ d \in Seq(Parcels) /\ Len(d) = Len(a) + Len(b)
          /\ \A i \in 1 .. Len(a) : d[i] = a[i]
          /\ \A i \in 1 .. Len(b) : d[Len(a) + i] = b[i]
      <3>1. a \in Seq(Parcels) /\ b \in Seq(Parcels)
        BY <1>2, <1>3
      <3> QED
        BY <3>1, JoinFacts
    <2> HIDE DEF d
    <2>2. /\ d \in Seq(Parcels) /\ Len(d) = m + n
          /\ \A i \in 1 .. m : d[i] = a[i]
          /\ \A i \in 1 .. n : d[m + i] = b[i]
      BY <1>2, <1>3, <2>1
    <2> QED
      BY <2>2 DEF d
  <1>6. ASSUME NEW i \in 1 .. m + n PROVE c[i] = (a \o b)[i]
    <2>1. CASE i \in 1 .. m
      BY <1>1, <1>2, <1>4, <1>5, <2>1
    <2>2. CASE i \notin 1 .. m
      <3>1. i - m \in 1 .. n /\ m + (i - m) = i
        BY <1>1, <2>2
      <3> DEFINE j == i - m
      <3>2. j \in 1 .. n /\ m + j = i
        BY <3>1
      <3> HIDE DEF j
      <3>3. w[m + j] = v[j] /\ (a \o b)[m + j] = b[j] /\ b[j] = Completed(v[j])
        BY <1>1, <1>3, <1>5, <3>2
      <3> QED
        BY <1>4, <3>2, <3>3
    <2> QED
      BY <2>1, <2>2
  <1>7. c = a \o b
    <2> DEFINE d == a \o b
    <2>1. d \in Seq(Parcels) /\ Len(d) = Len(c) /\ \A i \in 1 .. Len(c) : c[i] = d[i]
      BY <1>4, <1>5, <1>6
    <2> HIDE DEF d
    <2>2. c = d
      BY <1>4, <2>1, SameSequence
    <2> QED
      BY <2>2 DEF d
  <1>8. DataIn(a \o b) = DataIn(a) \o DataIn(b)
    BY <1>2, <1>3, ParcelsJoin
  <1> QED
    BY <1>7, <1>8 DEF UnitData, a, b, c, w

\* One unit, two units of a packet.
LEMMA OneUnit ==
  ASSUME NEW a \in HostUnits
  PROVE  UnitData(<<a>>) = Bit(Completed(a)) /\ Completed(a) \in Parcels /\ <<a>> \in Seq(HostUnits)
PROOF
  <1>1. Completed(a) \in Parcels
    BY DEF HostUnits, Completed, Parcels
  <1>2. <<a>> \in Seq(HostUnits) /\ DOMAIN <<a>> = 1 .. 1 /\ <<a>>[1] = a
    OBVIOUS
  <1>3. Lasts(<<a>>) = <<Completed(a)>>
    <2>2. Lasts(<<a>>) \in Seq(Parcels) /\ Len(Lasts(<<a>>)) = 1 /\ Lasts(<<a>>)[1] = Completed(a)
      <3> DEFINE u == <<a>>
      <3>1. u \in Seq(HostUnits) /\ Len(u) = 1 /\ u[1] = a
        BY <1>2
      <3> HIDE DEF u
      <3>2. Lasts(u) \in Seq(Parcels) /\ Len(Lasts(u)) = 1 /\ Lasts(u)[1] = Completed(a)
        BY <3>1, LastsFacts
      <3> QED
        BY <3>2 DEF u
    <2>3. <<Completed(a)>> \in Seq(Parcels) /\ Len(<<Completed(a)>>) = 1 /\ <<Completed(a)>>[1] = Completed(a)
      BY <1>1
    <2> DEFINE c == Lasts(<<a>>)
               d == <<Completed(a)>>
    <2>4. c \in Seq(Parcels) /\ d \in Seq(Parcels) /\ Len(c) = Len(d) /\ \A i \in 1 .. Len(c) : c[i] = d[i]
      BY <2>2, <2>3
    <2> HIDE DEF c, d
    <2>5. c = d
      BY <2>4, SameSequence
    <2> QED
      BY <2>5 DEF c, d
  <1> QED
    BY <1>1, <1>2, <1>3, BitIs DEF UnitData

LEMMA UnitsOfPacket ==
  ASSUME NEW p \in HostPackets, NEW u \in Seq(HostUnits), NEW d \in {1, 2}, Len(u) = d,
         u[1] = [p |-> p, k |-> 1], d = 2 => u[2] = [p |-> p, k |-> 2],
         p.code = "CHANNEL_DATA" => d = p.len
  PROVE  UnitData(u) = Bit(p)
PROOF
  <1> DEFINE a == [p |-> p, k |-> 1]
             b == [p |-> p, k |-> 2]
  <1>1. a \in HostUnits /\ a.k = 1 /\ a.p = p /\ b \in HostUnits /\ b.k = 2 /\ b.p = p
    BY DEF HostUnits
  <1>2. p.len \in {1, 2} /\ p.x \in Values /\ p.code \in HostCodes /\ p.code # "RAW"
    BY DEF HostPackets, HostCodes
  <1> HIDE DEF a, b
  <1>3. Bit(Plain("rest")) = <<>>
    BY DEF Bit, Plain, Packet, Pieces
  <1>4. p.code # "CHANNEL_DATA" => Bit(p) = <<>>
    BY <1>2 DEF Bit, Pieces
  <1>5. CASE d = 1
    <2>1. u = <<a>>
      BY <1>5 DEF a
    <2>2. UnitData(u) = Bit(Completed(a))
      BY <1>1, <2>1, OneUnit
    <2> QED
      BY <1>1, <1>2, <1>3, <1>4, <1>5, <2>2 DEF Completed
  <1>6. CASE d = 2
    <2>1. u = <<a>> \o <<b>>
      BY <1>1, <1>6 DEF a, b
    <2>2. UnitData(u) = UnitData(<<a>>) \o UnitData(<<b>>)
      <3>1. <<a>> \in Seq(HostUnits) /\ <<b>> \in Seq(HostUnits)
        BY <1>1
      <3> QED
        BY <2>1, <3>1, UnitsJoined
    <2>3. UnitData(u) = Bit(Completed(a)) \o Bit(Completed(b))
      BY <1>1, <2>2, OneUnit
    <2>4. CASE p.code = "CHANNEL_DATA"
      <3>1. Completed(a) = Plain("rest") /\ Completed(b) = p
        BY <1>1, <1>6, <2>4 DEF Completed
      <3>2. Bit(p) \in Seq(Values)
        BY BitIs DEF Parcels
      <3> QED
        BY <1>3, <2>3, <3>1, <3>2, NothingBehind
    <2>5. CASE p.code # "CHANNEL_DATA"
      <3>1. Completed(a) \in {Plain("rest"), p} /\ Completed(b) \in {Plain("rest"), p}
        BY <1>1 DEF Completed
      <3>2. Bit(Completed(a)) = <<>> /\ Bit(Completed(b)) = <<>>
        BY <1>3, <1>4, <2>5, <3>1
      <3> QED
        BY <1>4, <2>3, <2>5, <3>2, NothingBehind
    <2> QED
      BY <2>4, <2>5
  <1> QED
    BY <1>5, <1>6

LEMMA SplitAt ==
  ASSUME NEW S, NEW u \in Seq(S), NEW d \in 0 .. Len(u)
  PROVE  /\ SubSeq(u, 1, d) \in Seq(S) /\ SubSeq(u, d + 1, Len(u)) \in Seq(S)
         /\ u = SubSeq(u, 1, d) \o SubSeq(u, d + 1, Len(u))
PROOF
  <1> DEFINE a == SubSeq(u, 1, d)
             b == SubSeq(u, d + 1, Len(u))
             c == a \o b
             k == Len(u)
  <1>1. /\ d \in Nat /\ k \in Nat /\ d <= k
        /\ a \in Seq(S) /\ Len(a) = d /\ \A i \in 1 .. d : a[i] = u[i]
    OBVIOUS
  <1>2. b \in Seq(S) /\ Len(b) = k - d /\ \A i \in 1 .. k - d : b[i] = u[d + i]
    OBVIOUS
  <1> HIDE DEF a, b, k
  <1>3. /\ c \in Seq(S) /\ Len(c) = Len(a) + Len(b)
        /\ \A i \in 1 .. Len(a) : c[i] = a[i]
        /\ \A i \in 1 .. Len(b) : c[Len(a) + i] = b[i]
    BY <1>1, <1>2, JoinFacts
  <1> HIDE DEF c
  <1>4. ASSUME NEW i \in 1 .. k PROVE c[i] = u[i]
    <2>1. CASE i \in 1 .. d
      BY <1>1, <1>3, <2>1
    <2>2. CASE i \notin 1 .. d
      <3> DEFINE j == i - d
      <3>1. j \in 1 .. k - d /\ i = d + j
        BY <1>1, <2>2
      <3> HIDE DEF j
      <3>2. c[d + j] = b[j] /\ b[j] = u[d + j]
        BY <1>1, <1>2, <1>3, <3>1
      <3> QED
        BY <3>1, <3>2
    <2> QED
      BY <2>1, <2>2
  <1>5. Len(c) = k /\ Len(u) = k
    BY <1>1, <1>2, <1>3 DEF k
  <1>6. u = c
    BY <1>3, <1>4, <1>5, SameSequence
  <1> QED
    BY <1>1, <1>2, <1>6 DEF a, b, c

\* The units of a packet that is taken from the front.
LEMMA UnitsTaken ==
  ASSUME NEW u \in Seq(HostUnits), NEW d \in {1, 2}, d <= Len(u), u[1].k = 1,
         d = 2 => u[2] = [p |-> u[1].p, k |-> 2],
         u[1].p.code = "CHANNEL_DATA" => d = u[1].p.len
  PROVE  UnitData(u) = Bit(u[1].p) \o UnitData(SubSeq(u, d + 1, Len(u)))
PROOF
  <1> DEFINE a == SubSeq(u, 1, d)
             b == SubSeq(u, d + 1, Len(u))
             p == u[1].p
  <1>1. a \in Seq(HostUnits) /\ b \in Seq(HostUnits) /\ u = a \o b /\ Len(a) = d /\ a[1] = u[1]
        /\ (d = 2 => a[2] = u[2])
    <2>1. d \in 0 .. Len(u) /\ d \in Nat
      OBVIOUS
    <2>2. a \in Seq(HostUnits) /\ b \in Seq(HostUnits) /\ u = a \o b
      BY <2>1, SplitAt
    <2>3. Len(a) = d /\ a[1] = u[1] /\ (d = 2 => a[2] = u[2])
      BY <2>1
    <2> QED
      BY <2>2, <2>3
  <1>2. u[1] \in HostUnits
    OBVIOUS
  <1>3. p \in HostPackets /\ u[1] = [p |-> p, k |-> 1]
    BY <1>2 DEF HostUnits
  <1> HIDE DEF a, b, p
  <1>4. UnitData(a) = Bit(p)
    BY <1>1, <1>3, UnitsOfPacket DEF p
  <1>5. UnitData(u) = UnitData(a) \o UnitData(b)
    BY <1>1, UnitsJoined
  <1> QED
    BY <1>4, <1>5 DEF b, p

\* What a packet adds to the data that come.
LEMMA WithDataBit ==
  ASSUME NEW d \in Seq(Values), NEW p \in Parcels
  PROVE  WithData(d, p) = d \o Bit(p)
PROOF
  <1> DEFINE x == p.x
  <1>1. x \in Values
    BY ParcelsHold
  <1> HIDE DEF x
  <1>2. Append(d, x) = d \o <<x>> /\ d \o <<>> = d
    BY <1>1
  <1> QED
    BY <1>2 DEF WithData, Bit, Pieces, x

LEMMA DataInBit ==
  ASSUME NEW n \in Seq(Parcels), NEW p \in Parcels
  PROVE  DataIn(Append(n, p)) = DataIn(n) \o Bit(p) /\ DataIn(n) \in Seq(Values) /\ Bit(p) \in Seq(Values)
  BY ParcelsAppend, ParcelsTyped, WithDataBit, BitIs

LEMMA CommandParcels ==
  ASSUME NEW held \in Seq(Commands)
  PROVE  held \in Seq(Parcels)
PROOF
  <1>1. Commands \subseteq Parcels
    BY DEF Parcels, Messages, Commands
  <1> QED
    BY <1>1

\* What comes: on the way already, and held back by the server.
OnTheWay(inc, e) == UnitData(inc \o e.stream)
Coming(inc, e) == OnTheWay(inc, e) \o DataIn(e.srv.held)

LEMMA JoinedThreeOf ==
  ASSUME NEW S, NEW a \in Seq(S), NEW b \in Seq(S), NEW c \in Seq(S)
  PROVE  (a \o b) \o c = a \o (b \o c)
  OBVIOUS

LEMMA SentData ==
  ASSUME NEW inc \in Seq(HostUnits), NEW e \in Emissions, NEW c \in Commands
  PROVE  /\ OnTheWay(inc, Sent(e, c)) = OnTheWay(inc, e) \o Bit(c)
         /\ OnTheWay(inc, e) \in Seq(Values) /\ Bit(c) \in Seq(Values)
         /\ Sent(e, c) \in Emissions /\ Sent(e, c).srv.held = e.srv.held
PROOF
  <1> DEFINE p == ServerPacket(e.srv, c.code, c.x)
             w == Units(p)
             u == inc \o e.stream
  <1>1. /\ p \in HostPackets /\ p.code = c.code /\ p.x = c.x /\ Sent(e, c).stream = e.stream \o w
        /\ Sent(e, c) \in Emissions /\ Sent(e, c).srv.held = e.srv.held
    BY SentFields
  <1>2. e.stream \in Seq(HostUnits)
    BY DEF Emissions
  <1> HIDE DEF p
  <1>3. w \in Seq(HostUnits) /\ Len(w) = p.len /\ \A k \in 1 .. p.len : w[k] = [p |-> p, k |-> k]
    BY <1>1, UnitsFacts
  <1>4. p.len \in {1, 2}
    BY <1>1 DEF HostPackets
  <1> HIDE DEF w
  <1>5. u \in Seq(HostUnits) /\ inc \o (e.stream \o w) = u \o w
    <2>1. u \in Seq(HostUnits)
      BY <1>2
    <2>2. inc \o (e.stream \o w) = u \o w
      <3> DEFINE a == e.stream
      <3>1. a \in Seq(HostUnits)
        BY <1>2
      <3> HIDE DEF a
      <3>2. (inc \o a) \o w = inc \o (a \o w)
        BY <1>3, <3>1, JoinedThreeOf, SMTT(30)
      <3> QED
        BY <3>2 DEF a
    <2> QED
      BY <2>1, <2>2
  <1>6. UnitData(w) = Bit(p)
    <2> DEFINE d == p.len
    <2>1. d \in {1, 2} /\ Len(w) = d /\ w[1] = [p |-> p, k |-> 1] /\ (d = 2 => w[2] = [p |-> p, k |-> 2])
      BY <1>3, <1>4
    <2>2. p.code = "CHANNEL_DATA" => d = p.len
      OBVIOUS
    <2> HIDE DEF d
    <2> QED
      BY <1>1, <1>3, <2>1, <2>2, UnitsOfPacket
  <1> HIDE DEF u
  <1>7. UnitData(u \o w) = UnitData(u) \o UnitData(w) /\ UnitData(u) \in Seq(Values)
    BY <1>3, <1>5, UnitsJoined, LastsFacts
  <1>8. Bit(p) = Bit(c)
    BY <1>1 DEF Bit
  <1>9. Bit(c) \in Seq(Values)
    <2>1. c \in Parcels
      BY DEF Parcels, Messages, Commands
    <2> QED
      BY <2>1, BitIs
  <1> QED
    BY <1>1, <1>5, <1>6, <1>7, <1>8, <1>9 DEF OnTheWay, u

\* What was held back follows NEWKEYS, in its order.
LEMMA ReleasedData ==
  ASSUME NEW inc \in Seq(HostUnits), NEW k \in Emissions, NEW held \in Seq(Commands), k.srv.held = <<>>
  PROVE  LET f == InOrder(Sent, k, held) IN
         f \in Emissions /\ f.srv.held = <<>> /\ OnTheWay(inc, f) = OnTheWay(inc, k) \o DataIn(held)
PROOF
  <1> DEFINE n == Len(held)
             first(i) == SubSeq(held, 1, i)
             In(d, i) == d.srv.held = <<>> /\ OnTheWay(inc, d) = OnTheWay(inc, k) \o DataIn(first(i))
             S == [i \in 0 .. n |-> {d \in Emissions : In(d, i)}]
             f == InOrder(Sent, k, held)
  <1>1. n \in Nat /\ held \in Seq(Parcels) /\ \A i \in 1 .. n : held[i] \in Commands
    BY CommandParcels
  <1>2. /\ first(0) = <<>> /\ first(n) = held
        /\ \A i \in 0 .. n : first(i) \in Seq(Parcels)
    BY <1>1
  <1>3. \A i \in 1 .. n : first(i) = Append(first(i - 1), held[i])
    <2> TAKE i \in 1 .. n
    <2> DEFINE a == first(i)
               b == first(i - 1)
               c == held[i]
    <2>1. /\ c \in Parcels /\ i \in Nat /\ i - 1 \in 0 .. n
          /\ a \in Seq(Parcels) /\ Len(a) = i /\ \A j \in 1 .. i : a[j] = held[j]
          /\ b \in Seq(Parcels) /\ Len(b) = i - 1 /\ \A j \in 1 .. i - 1 : b[j] = held[j]
      BY <1>1
    <2>2. c = held[i]
      OBVIOUS
    <2> HIDE DEF a, b, c
    <2>3. Append(b, c) \in Seq(Parcels) /\ Len(Append(b, c)) = i
          /\ \A j \in 1 .. i : Append(b, c)[j] = held[j]
      BY <2>1, <2>2
    <2>4. Len(a) = Len(Append(b, c)) /\ \A j \in 1 .. Len(a) : a[j] = Append(b, c)[j]
      BY <2>1, <2>3
    <2>5. a = Append(b, c)
      BY <2>1, <2>3, <2>4, SameSequence
    <2> QED
      BY <2>5 DEF a, b, c
  <1>4. \A d \in Emissions : OnTheWay(inc, d) \in Seq(Values)
    <2> TAKE d \in Emissions
    <2>1. d.stream \in Seq(HostUnits)
      BY DEF Emissions
    <2>2. inc \o d.stream \in Seq(HostUnits)
      BY <2>1
    <2> QED
      BY <2>2, LastsFacts DEF OnTheWay
  <1> HIDE DEF first
  <1>5. In(k, 0)
    BY <1>2, <1>4, DataInNone, NothingBehind
  <1>6. ASSUME NEW i \in 1 .. n, NEW d \in Emissions, In(d, i - 1)
        PROVE  Sent(d, held[i]) \in Emissions /\ In(Sent(d, held[i]), i)
    <2> DEFINE c == held[i]
               a == OnTheWay(inc, k)
               b == DataIn(first(i - 1))
               e == Bit(c)
    <2>1. c \in Commands /\ i - 1 \in 0 .. n
      BY <1>1
    <2>2. /\ OnTheWay(inc, Sent(d, c)) = OnTheWay(inc, d) \o e /\ e \in Seq(Values)
          /\ Sent(d, c) \in Emissions /\ Sent(d, c).srv.held = d.srv.held
      BY <2>1, SentData
    <2>3. c \in Parcels /\ first(i - 1) \in Seq(Parcels) /\ first(i) = Append(first(i - 1), c)
      BY <1>1, <1>2, <1>3, <2>1, SMTT(30)
    <2>4. DataIn(first(i)) = b \o e /\ b \in Seq(Values)
      BY <2>3, DataInBit
    <2>5. a \in Seq(Values) /\ OnTheWay(inc, d) = a \o b
      BY <1>4, <1>6
    <2> HIDE DEF a, b, e, c
    <2>6. (a \o b) \o e = a \o (b \o e)
      BY <2>2, <2>4, <2>5, JoinedInThree
    <2> QED
      BY <1>6, <2>2, <2>4, <2>5, <2>6 DEF a, c
  <1> HIDE DEF In
  <1>7. \A i \in 0 .. n : S[i] = {d \in Emissions : In(d, i)}
    OBVIOUS
  <1> HIDE DEF S, n
  <1>8. k \in S[0]
    BY <1>1, <1>5, <1>7
  <1>9. ASSUME NEW i \in 1 .. n, NEW d \in S[i - 1] PROVE Sent(d, held[i]) \in S[i]
    <2>1. i - 1 \in 0 .. n /\ i \in 0 .. n
      BY <1>1
    <2>2. d \in Emissions /\ In(d, i - 1)
      BY <1>7, <2>1
    <2> QED
      BY <1>6, <1>7, <2>1, <2>2
  <1>10. InOrder(Sent, k, held) \in S[Len(held)]
    <2>1. Len(held) = n
      BY DEF n
    <2> QED
      BY <1>1, <1>8, <1>9, <2>1, SendsRule
  <1>11. n \in 0 .. n /\ n = Len(held)
    BY <1>1 DEF n
  <1> HIDE DEF f
  <1>12. f \in Emissions /\ In(f, n)
    BY <1>7, <1>10, <1>11 DEF f
  <1> QED
    BY <1>2, <1>12 DEF f, In

\* A command of the server adds its data at the end of what comes.
LEMMA EmittedData ==
  ASSUME NEW e \in Emissions, NEW c \in Commands, NEW inc \in Seq(HostUnits), HeldBack(e.srv)
  PROVE  LET f == Emitted(e, c) IN
         /\ f \in Emissions /\ HeldBack(f.srv)
         /\ Coming(inc, f) = Coming(inc, e) \o Bit(c) /\ Coming(inc, e) \in Seq(Values)
PROOF
  <1> DEFINE f == Emitted(e, c)
             held == e.srv.held
             a == OnTheWay(inc, e)
             b == DataIn(held)
             d == Bit(c)
  <1>1. held \in Seq(Commands) /\ held \in Seq(Parcels) /\ c \in Parcels /\ c.code \in HostCodes
        /\ e.srv.kex \in BOOLEAN
    <2>1. held \in Seq(Commands) /\ e.srv.kex \in BOOLEAN
      BY DEF Emissions
    <2>2. held \in Seq(Parcels)
      BY <2>1, CommandParcels
    <2>3. c \in Parcels /\ c.code \in HostCodes
      BY DEF Parcels, Messages, Commands
    <2> QED
      BY <2>1, <2>2, <2>3
  <1>2. /\ OnTheWay(inc, Sent(e, c)) = a \o d /\ a \in Seq(Values) /\ d \in Seq(Values)
        /\ Sent(e, c) \in Emissions /\ Sent(e, c).srv.held = held
    BY SentData
  <1>3. b \in Seq(Values) /\ DataIn(Append(held, c)) = b \o d
    BY <1>1, DataInBit
  <1>4. c.code \in KexCodes => d = <<>>
    BY DEF KexCodes, Bit, Pieces
  <1>5. f \in Emissions
    BY EmittedTyped
  <1>6. /\ \A i \in DOMAIN held : held[i].code \in HostOthers
        /\ ~e.srv.kex => held = <<>>
    BY DEF HeldBack
  <1> HIDE DEF a, b, d
  <1>7. Coming(inc, e) = a \o b /\ a \o b \in Seq(Values)
    BY <1>2, <1>3, JoinedInThree DEF Coming, a, b
  <1>8. CASE /\ e.srv.kex /\ c.code \notin KexCodes
             /\ f.stream = e.stream /\ f.srv.held = Append(held, c) /\ f.srv.kex = e.srv.kex
    <2>1. OnTheWay(inc, f) = a
      BY <1>8 DEF OnTheWay, a
    <2>2. Coming(inc, f) = a \o (b \o d)
      BY <1>3, <1>8, <2>1 DEF Coming
    <2>3. c.code \in HostOthers
      BY <1>1, <1>8 DEF HostOthers
    <2>4. HeldBack(f.srv)
      <3>1. \A i \in DOMAIN Append(held, c) : Append(held, c)[i].code \in HostOthers
        BY <1>1, <1>6, <2>3
      <3> QED
        BY <1>8, <3>1 DEF HeldBack
    <2>5. (a \o b) \o d = a \o (b \o d)
      <3>1. Followed(Followed(a, b), d) = Followed(a, Followed(b, d))
        BY <1>2, <1>3, FollowedThree
      <3> QED
        BY <3>1 DEF Followed
    <2> QED
      BY <1>5, <1>7, <2>2, <2>4, <2>5 DEF d
  <1>9. CASE (~e.srv.kex \/ c.code \in KexCodes) /\ c.code # "NEWKEYS" /\ f = Sent(e, c)
    <2>1. OnTheWay(inc, f) = a \o d /\ f.srv.held = held
      BY <1>2, <1>9
    <2>2. f.srv.kex = (e.srv.kex \/ c.code = "KEXINIT")
      <3>1. Sent(e, c).srv.kex = (e.srv.kex \/ c.code = "KEXINIT")
        BY SentFields
      <3> QED
        BY <1>9, <3>1
    <2> HIDE DEF f, held
    <2>3. HeldBack(f.srv)
      BY <1>1, <1>6, <2>1, <2>2 DEF HeldBack
    <2>4. Coming(inc, f) = (a \o d) \o b
      BY <2>1 DEF Coming, b
    <2>5. (a \o d) \o b = (a \o b) \o d
      <3>1. CASE d = <<>>
        <4>1. a \o <<>> = a /\ (a \o b) \o <<>> = a \o b
          BY <1>2, <1>7, NothingBehind
        <4> QED
          BY <3>1, <4>1
      <3>2. CASE d # <<>>
        <4>1. held = <<>>
          BY <1>1, <1>4, <1>6, <1>9, <3>2
        <4>2. b = <<>>
          BY <4>1, DataInNone DEF b
        <4>3. a \o d \in Seq(Values)
          BY <1>2, JoinedInThree
        <4>4. a \o <<>> = a /\ (a \o d) \o <<>> = a \o d
          BY <1>2, <4>3, NothingBehind
        <4> QED
          BY <4>2, <4>4
      <3> QED
        BY <3>1, <3>2
    <2>6. Coming(inc, f) = Coming(inc, e) \o d
      BY <1>7, <2>4, <2>5
    <2> QED
      BY <1>5, <1>7, <2>3, <2>6 DEF f, d
  <1>10. CASE c.code = "NEWKEYS" /\ f = InOrder(Sent, Keyed0(e, c), held)
    <2> DEFINE k == Keyed0(e, c)
    <2>1. k \in Emissions /\ k.srv.held = <<>> /\ k.stream = Sent(e, c).stream
      <3>1. Sent(e, c).stream = e.stream \o Units(ServerPacket(e.srv, c.code, c.x))
        BY SentFields
      <3>2. /\ Keyed0(e, c) \in Emissions /\ Keyed0(e, c).srv.held = <<>>
            /\ Keyed0(e, c).stream = e.stream \o Units(ServerPacket(e.srv, c.code, c.x))
        BY KeyedFields
      <3> QED
        BY <3>1, <3>2
    <2> HIDE DEF k
    <2>2. d = <<>>
      BY <1>4, <1>10 DEF KexCodes
    <2>3. OnTheWay(inc, k) = a
      <3>1. OnTheWay(inc, k) = OnTheWay(inc, Sent(e, c))
        BY <2>1 DEF OnTheWay
      <3> QED
        BY <1>2, <2>2, <3>1, NothingBehind
    <2>4. LET g == InOrder(Sent, k, held) IN
          g \in Emissions /\ g.srv.held = <<>> /\ OnTheWay(inc, g) = OnTheWay(inc, k) \o DataIn(held)
      BY <1>1, <2>1, ReleasedData
    <2>5. f.srv.held = <<>> /\ OnTheWay(inc, f) = a \o b
      BY <1>10, <2>3, <2>4 DEF k, b
    <2> HIDE DEF f
    <2>6. Coming(inc, f) = a \o b
      <3>1. Coming(inc, f) = (a \o b) \o <<>>
        BY <2>5, DataInNone DEF Coming
      <3> QED
        BY <1>7, <3>1, NothingBehind
    <2>7. Coming(inc, f) = Coming(inc, e) \o d
      <3>1. (a \o b) \o <<>> = a \o b
        BY <1>7, NothingBehind
      <3> QED
        BY <1>7, <2>2, <2>6, <3>1
    <2>8. HeldBack(f.srv)
      BY <2>5 DEF HeldBack
    <2> QED
      BY <1>5, <1>7, <2>7, <2>8 DEF f, d
  <1>11. \/ /\ e.srv.kex /\ c.code \notin KexCodes
            /\ f.stream = e.stream /\ f.srv.held = Append(held, c) /\ f.srv.kex = e.srv.kex
         \/ (~e.srv.kex \/ c.code \in KexCodes) /\ c.code # "NEWKEYS" /\ f = Sent(e, c)
         \/ c.code = "NEWKEYS" /\ f = InOrder(Sent, Keyed0(e, c), held)
    BY EmittedWays
  <1> QED
    BY <1>8, <1>9, <1>10, <1>11

LEMMA EmitData ==
  ASSUME NEW sv \in Servers, NEW st \in Seq(HostUnits), NEW codes, NEW inc \in Seq(HostUnits),
         HeldBack(sv), \/ codes = <<>>
                       \/ \E a \in Commands : codes = <<a>>
                       \/ \E a, b \in Commands : codes = <<a, b>>
  PROVE  LET e == Emit(sv, st, codes) IN
         Coming(inc, e) = (UnitData(inc \o st) \o DataIn(sv.held)) \o DataIn(codes)
PROOF
  <1> DEFINE o == Outcome(sv, st)
             g == UnitData(inc \o st) \o DataIn(sv.held)
  <1>1. o \in Emissions /\ o.srv = sv /\ o.stream = st
    BY EmissionsAre DEF Outcome
  <1> HIDE DEF o
  <1>2. Coming(inc, o) = g
    BY <1>1 DEF Coming, OnTheWay
  <1> HIDE DEF g
  <1>3. \A a \in Commands : a \in Parcels
    BY DEF Parcels, Messages, Commands
  <1>4. g \in Seq(Values)
    <2>1. sv.held \in Seq(Commands) /\ inc \o st \in Seq(HostUnits)
      BY DEF Servers
    <2>2. DataIn(sv.held) \in Seq(Values) /\ UnitData(inc \o st) \in Seq(Values)
      BY <2>1, CommandParcels, ParcelsTyped, LastsFacts
    <2> QED
      BY <2>2, JoinedInThree DEF g
  <1>5. ASSUME codes = <<>> PROVE Coming(inc, Emit(sv, st, codes)) = g \o DataIn(codes)
    <2>1. Emit(sv, st, codes) = o
      BY <1>5, EmitNone DEF o
    <2>2. g \o DataIn(codes) = g
      BY <1>4, <1>5, DataInNone, NothingBehind
    <2> QED
      BY <1>2, <2>1, <2>2
  <1>6. ASSUME NEW a \in Commands, codes = <<a>>
        PROVE  Coming(inc, Emit(sv, st, codes)) = g \o DataIn(codes)
    <2>1. Emit(sv, st, codes) = Emitted(o, a)
      BY <1>6, EmitOne DEF o
    <2>2. Coming(inc, Emitted(o, a)) = g \o Bit(a)
      BY <1>1, <1>2, EmittedData
    <2>3. DataIn(<<a>>) = Bit(a)
      BY <1>3, BitIs
    <2> QED
      BY <1>6, <2>1, <2>2, <2>3
  <1>7. ASSUME NEW a \in Commands, NEW b \in Commands, codes = <<a, b>>
        PROVE  Coming(inc, Emit(sv, st, codes)) = g \o DataIn(codes)
    <2>1. Emit(sv, st, codes) = Emitted(Emitted(o, a), b)
      BY <1>7, EmitTwo DEF o
    <2>2. Emitted(o, a) \in Emissions /\ HeldBack(Emitted(o, a).srv) /\ Coming(inc, Emitted(o, a)) = g \o Bit(a)
      BY <1>1, <1>2, EmittedData
    <2> DEFINE k == Emitted(o, a)
    <2>3. Coming(inc, Emitted(k, b)) = (g \o Bit(a)) \o Bit(b)
      <3>1. k \in Emissions /\ HeldBack(k.srv) /\ Coming(inc, k) = g \o Bit(a)
        BY <2>2
      <3> HIDE DEF k
      <3>2. Coming(inc, Emitted(k, b)) = Coming(inc, k) \o Bit(b)
        BY <3>1, EmittedData
      <3> QED
        BY <3>1, <3>2
    <2>4. DataIn(<<a, b>>) = Bit(a) \o Bit(b) /\ Bit(a) \in Seq(Values) /\ Bit(b) \in Seq(Values)
      BY <1>3, TwoBits, BitIs
    <2>5. (g \o Bit(a)) \o Bit(b) = g \o (Bit(a) \o Bit(b))
      BY <1>4, <2>4, JoinedInThree
    <2> QED
      BY <1>7, <2>1, <2>3, <2>4, <2>5
  <1>8. Coming(inc, Emit(sv, st, codes)) = g \o DataIn(codes)
    BY <1>5, <1>6, <1>7
  <1> QED
    BY <1>8 DEF g

-----------------------------------------------------------------------------
(* Before the keys: nothing but what leads to them *)

EarlyIn == KexCodes \cup {"VERSION", "DISCONNECT"}
EarlyOut == KexCodes \cup {"VERSION", "RAW", "WINDOW_ADJUST"}
EarlyUnits(u) == \A i \in DOMAIN u : u[i].p.code \in EarlyIn
EarlyPackets(n) == \A i \in DOMAIN n : n[i].code \in EarlyOut
EarlyMessages(m) == \A i \in DOMAIN m : m[i].code \in EarlyIn
Alone(s) == s.primary = 0 /\ s.queue = <<>>
Hushed(q, u) == Alone(q.s) /\ EarlyUnits(u) /\ EarlyPackets(q.out) /\ EarlyMessages(q.msgs)

LEMMA EarlyUnitsParts ==
  ASSUME NEW u \in Seq(HostUnits), NEW v \in Seq(HostUnits)
  PROVE  /\ EarlyUnits(u \o v) <=> EarlyUnits(u) /\ EarlyUnits(v)
         /\ EarlyUnits(<<>>)
PROOF
  <1> DEFINE w == u \o v
  <1>1. /\ DOMAIN w = 1 .. Len(u) + Len(v) /\ Len(u) \in Nat /\ Len(v) \in Nat
        /\ DOMAIN u = 1 .. Len(u) /\ DOMAIN v = 1 .. Len(v)
        /\ \A i \in 1 .. Len(u) : w[i] = u[i]
        /\ \A i \in 1 .. Len(v) : w[Len(u) + i] = v[i]
    BY JoinFacts
  <1> HIDE DEF w
  <1>2. ASSUME EarlyUnits(u), EarlyUnits(v) PROVE EarlyUnits(w)
    <2>1. ASSUME NEW i \in DOMAIN w PROVE w[i].p.code \in EarlyIn
      <3>1. CASE i \in 1 .. Len(u)
        BY <1>1, <1>2, <3>1 DEF EarlyUnits
      <3>2. CASE i \notin 1 .. Len(u)
        <4> DEFINE j == i - Len(u)
        <4>1. j \in 1 .. Len(v) /\ i = Len(u) + j
          BY <1>1, <2>1, <3>2
        <4> HIDE DEF j
        <4> QED
          BY <1>1, <1>2, <4>1 DEF EarlyUnits
      <3> QED
        BY <3>1, <3>2
    <2> QED
      BY <2>1 DEF EarlyUnits
  <1>3. ASSUME EarlyUnits(w) PROVE EarlyUnits(u) /\ EarlyUnits(v)
    <2>1. ASSUME NEW i \in DOMAIN u PROVE u[i].p.code \in EarlyIn
      <3>1. i \in DOMAIN w /\ w[i] = u[i]
        BY <1>1
      <3> QED
        BY <1>3, <3>1 DEF EarlyUnits
    <2>2. ASSUME NEW i \in DOMAIN v PROVE v[i].p.code \in EarlyIn
      <3>1. Len(u) + i \in DOMAIN w /\ w[Len(u) + i] = v[i]
        BY <1>1
      <3> QED
        BY <1>3, <3>1 DEF EarlyUnits
    <2> QED
      BY <2>1, <2>2 DEF EarlyUnits
  <1> QED
    BY <1>2, <1>3 DEF w, EarlyUnits

LEMMA EarlyUnitsRest ==
  ASSUME NEW u \in Seq(HostUnits), NEW a \in 1 .. Len(u) + 1, EarlyUnits(u)
  PROVE  EarlyUnits(SubSeq(u, a, Len(u)))
PROOF
  <1> DEFINE v == SubSeq(u, a, Len(u))
  <1>1. DOMAIN u = 1 .. Len(u) /\ Len(u) \in Nat /\ DOMAIN v = 1 .. Len(u) + 1 - a
        /\ \A i \in 1 .. Len(u) + 1 - a : v[i] = u[a + i - 1]
    OBVIOUS
  <1> HIDE DEF v
  <1>2. \A i \in 1 .. Len(u) + 1 - a : a + i - 1 \in 1 .. Len(u)
    BY <1>1
  <1> QED
    BY <1>1, <1>2 DEF EarlyUnits, v

LEMMA EarlyPacketsAdd ==
  ASSUME NEW n \in Seq(ClientPackets), NEW m \in Seq(ClientPackets), EarlyPackets(n), EarlyPackets(m)
  PROVE  EarlyPackets(n \o m)
PROOF
  <1> DEFINE v == n \o m
  <1>1. /\ DOMAIN v = 1 .. Len(n) + Len(m) /\ Len(n) \in Nat /\ Len(m) \in Nat
        /\ DOMAIN n = 1 .. Len(n) /\ DOMAIN m = 1 .. Len(m)
        /\ \A i \in 1 .. Len(n) : v[i] = n[i]
        /\ \A i \in 1 .. Len(m) : v[Len(n) + i] = m[i]
    BY JoinFacts
  <1> HIDE DEF v
  <1>2. ASSUME NEW i \in DOMAIN v PROVE v[i].code \in EarlyOut
    <2>1. CASE i \in 1 .. Len(n)
      BY <1>1, <2>1 DEF EarlyPackets
    <2>2. CASE i \notin 1 .. Len(n)
      <3> DEFINE j == i - Len(n)
      <3>1. j \in 1 .. Len(m) /\ i = Len(n) + j
        BY <1>1, <1>2, <2>2
      <3> HIDE DEF j
      <3>2. v[i] = m[j]
        BY <1>1, <3>1
      <3> QED
        BY <1>1, <3>1, <3>2 DEF EarlyPackets
    <2> QED
      BY <2>1, <2>2
  <1> QED
    BY <1>2 DEF EarlyPackets, v

LEMMA EarlyOneMore ==
  ASSUME NEW n \in Seq(ClientPackets), NEW p \in ClientPackets, EarlyPackets(n), p.code \in EarlyOut
  PROVE  Append(n, p) \in Seq(ClientPackets) /\ EarlyPackets(Append(n, p))
PROOF
  <1>1. <<p>> \in Seq(ClientPackets) /\ Append(n, p) = n \o <<p>> /\ Append(n, p) \in Seq(ClientPackets)
    OBVIOUS
  <1>2. EarlyPackets(<<p>>)
    BY DEF EarlyPackets
  <1> QED
    BY <1>1, <1>2, EarlyPacketsAdd

\* What the handling of a packet of the host shows to the user.
LEMMA HandleShows ==
  ASSUME NEW q \in Results, NEW p \in HostPackets, NEW channel \in Nat, ~Handle(q, p, channel).error
  PROVE  /\ DataIn(Handle(q, p, channel).msgs) = DataIn(q.msgs) \o Bit(p)
         /\ DataIn(q.msgs) \in Seq(Values) /\ Bit(p) \in Seq(Values)
PROOF
  <1> DEFINE h == Handle(q, p, channel)
             d == DataIn(q.msgs)
  <1>1. h \in Results /\ Outcomes(h, q, p, channel) /\ h.error # TRUE
    BY HandleOutcome
  <1>2. q.msgs \in Seq(Messages) /\ p.code \in HostCodes /\ p.x \in Values /\ 0 \in Values
    BY DEF Results, HostPackets, Values
  <1>3. q.msgs \in Seq(Parcels) /\ p \in Parcels /\ \A m \in Messages : m \in Parcels
    <2>1. Messages \subseteq Parcels /\ p \in Parcels
      BY DEF Parcels
    <2> QED
      BY <1>2, <2>1
  <1>4. d \in Seq(Values) /\ Bit(p) \in Seq(Values) /\ d \o <<>> = d
    <2>1. d \in Seq(Values) /\ Bit(p) \in Seq(Values)
      BY <1>3, ParcelsTyped, BitIs
    <2> HIDE DEF d
    <2> QED
      BY <2>1, NothingBehind
  <1> HIDE DEF h
  <1> SUFFICES DataIn(h.msgs) = d \o Bit(p)
    BY <1>4 DEF h
  <1>5. ASSUME Bit(p) = <<>>, h.msgs = q.msgs PROVE DataIn(h.msgs) = d \o Bit(p)
    BY <1>4, <1>5
  <1>6. ASSUME NEW code \in HostCodes, NEW x \in Values, h.msgs = Append(q.msgs, [code |-> code, x |-> x]),
               Bit([code |-> code, x |-> x]) = Bit(p)
        PROVE  DataIn(h.msgs) = d \o Bit(p)
    <2> DEFINE m == [code |-> code, x |-> x]
    <2>1. m \in Parcels
      <3>1. m \in Messages
        BY DEF Messages
      <3> QED
        BY <1>3, <3>1
    <2>2. h.msgs = Append(q.msgs, m) /\ Bit(m) = Bit(p)
      BY <1>6
    <2> HIDE DEF m
    <2> QED
      BY <1>3, <2>1, <2>2, DataInBit
  <1>7. CASE p.code \in ToProxy \cup {"VERSION"} /\ Passes(h, q, p)
    <2>1. CASE p.code \in ToProxy
      <3>1. h.msgs = Append(q.msgs, [code |-> p.code, x |-> p.x])
        BY <1>7, <2>1 DEF Passes
      <3>2. Bit([code |-> p.code, x |-> p.x]) = Bit(p)
        BY DEF Bit
      <3> QED
        BY <1>2, <1>6, <3>1, <3>2
    <2>2. CASE p.code \notin ToProxy
      <3>1. h.msgs = q.msgs /\ Bit(p) = <<>>
        BY <1>7, <2>2 DEF Passes, Bit, Pieces
      <3> QED
        BY <1>5, <3>1
    <2> QED
      BY <2>1, <2>2
  <1>8. CASE p.code = "USERAUTH_SUCCESS" /\ LogsIn(h, q, channel)
    <2>1. h.msgs = Append(q.msgs, [code |-> "USERAUTH_SUCCESS", x |-> 0])
      BY <1>8 DEF LogsIn
    <2>2. Bit([code |-> "USERAUTH_SUCCESS", x |-> 0]) = Bit(p) /\ "USERAUTH_SUCCESS" \in HostCodes
      BY <1>8 DEF Bit, Pieces, HostCodes
    <2> QED
      BY <1>2, <1>6, <2>1, <2>2
  <1>9. CASE p.code \in {"OPEN_CONFIRMATION", "CHANNEL_SUCCESS", "KEXINIT", "GEX_GROUP", "GEX_REPLY", "NEWKEYS"}
             /\ h.msgs = q.msgs
    BY <1>5, <1>9 DEF Bit, Pieces
  <1> QED
    BY <1>1, <1>7, <1>8, <1>9 DEF Outcomes, OpensChannel, Succeeds, Rekeys, TakesGroup, TakesReply, TakesKeys, Fails

\* Before the keys the handling of a packet neither logs in nor opens a channel.
LEMMA HandleHushed ==
  ASSUME NEW q \in Results, NEW p \in HostPackets, NEW channel \in Nat, ~q.s.encrypted,
         Alone(q.s), EarlyPackets(q.out), EarlyMessages(q.msgs), p.code \in EarlyIn
  PROVE  LET h == Handle(q, p, channel) IN
         h.error \/ h.s.encrypted \/ (Alone(h.s) /\ EarlyPackets(h.out) /\ EarlyMessages(h.msgs))
PROOF
  <1> DEFINE h == Handle(q, p, channel)
  <1>1. h \in Results /\ Outcomes(h, q, p, channel)
    BY HandleOutcome
  <1>2. /\ q.msgs \in Seq(Messages) /\ q.out \in Seq(ClientPackets) /\ p.code \in HostCodes
        /\ p.x \in Values
    BY DEF Results, HostPackets
  <1>3. \A code \in {"KEXINIT", "GEX_REQUEST", "GEX_REQUEST_OLD", "GEX_INIT"} :
          Plain(code) \in ClientPackets /\ Plain(code).code \in EarlyOut
    BY DEF Plain, Packet, ClientPackets, ClientCodes, Values, EarlyOut, KexCodes
  <1> HIDE DEF h
  <1> SUFFICES h.error \/ h.s.encrypted \/ (Alone(h.s) /\ EarlyPackets(h.out) /\ EarlyMessages(h.msgs))
    BY DEF h
  <1>4. CASE p.code \in ToProxy \cup {"VERSION"} /\ Passes(h, q, p)
    <2>1. Alone(h.s) /\ EarlyPackets(h.out)
      BY <1>4 DEF Passes, SameMain, SameChannels, Alone
    <2>2. EarlyMessages(h.msgs)
      <3> DEFINE m == [code |-> p.code, x |-> p.x]
      <3>1. m.code \in EarlyIn /\ (h.msgs = Append(q.msgs, m) \/ h.msgs = q.msgs)
        BY <1>4 DEF Passes
      <3> HIDE DEF m
      <3>2. \A i \in DOMAIN Append(q.msgs, m) : Append(q.msgs, m)[i].code \in EarlyIn
        BY <1>2, <3>1 DEF EarlyMessages
      <3> QED
        BY <3>1, <3>2 DEF EarlyMessages
    <2> QED
      BY <2>1, <2>2
  <1>5. CASE p.code = "KEXINIT" /\ Rekeys(h, q, p)
    <2>1. Alone(h.s) /\ EarlyMessages(h.msgs)
      BY <1>5 DEF Rekeys, SameChannels, Alone
    <2> DEFINE o == IF q.s.initSent THEN q.out ELSE Append(q.out, Plain("KEXINIT"))
    <2>2. h.out = Append(o, Plain(h.s.sent)) /\ h.s.sent \in {"GEX_REQUEST", "GEX_REQUEST_OLD"}
      BY <1>5 DEF Rekeys
    <2>3. o \in Seq(ClientPackets) /\ EarlyPackets(o)
      BY <1>2, <1>3, EarlyOneMore
    <2> HIDE DEF o
    <2>4. Plain(h.s.sent) \in ClientPackets /\ Plain(h.s.sent).code \in EarlyOut
      BY <1>3, <2>2
    <2>5. EarlyPackets(h.out)
      BY <2>2, <2>3, <2>4, EarlyOneMore
    <2> QED
      BY <2>1, <2>5
  <1>6. CASE p.code = "GEX_GROUP" /\ TakesGroup(h, q)
    <2>1. Alone(h.s) /\ EarlyMessages(h.msgs) /\ (h.out = q.out \/ h.out = Append(q.out, Plain("GEX_INIT")))
      BY <1>6 DEF TakesGroup, SameChannels, Alone
    <2>2. EarlyPackets(Append(q.out, Plain("GEX_INIT")))
      BY <1>2, <1>3, EarlyOneMore
    <2> QED
      BY <2>1, <2>2
  <1>7. CASE p.code = "GEX_REPLY" /\ TakesReply(h, q)
    BY <1>7 DEF TakesReply, SameChannels, Alone
  <1>8. CASE p.code = "NEWKEYS" /\ TakesKeys(h, q)
    BY <1>8 DEF TakesKeys
  <1>9. CASE Fails(h, q)
    BY <1>9 DEF Fails
  <1>10. p.code \notin {"USERAUTH_SUCCESS", "OPEN_CONFIRMATION", "CHANNEL_SUCCESS"}
    BY DEF EarlyIn, KexCodes
  <1> QED
    BY <1>1, <1>4, <1>5, <1>6, <1>7, <1>8, <1>9, <1>10 DEF Outcomes

LEMMA StaysKeyed ==
  ASSUME NEW q \in Results, NEW p \in HostPackets, NEW channel \in Nat, q.s.encrypted = TRUE,
         ~Handle(q, p, channel).error
  PROVE  Handle(q, p, channel).s.encrypted = TRUE
PROOF
  <1> DEFINE h == Handle(q, p, channel)
  <1>1. Outcomes(h, q, p, channel) /\ h.error # TRUE
    BY HandleOutcome
  <1> HIDE DEF h
  <1>2. h.s.encrypted = TRUE
    BY <1>1 DEF Outcomes, Passes, LogsIn, OpensChannel, Succeeds, Rekeys, TakesGroup, TakesReply, TakesKeys,
                Fails, SameMain, SameKeys
  <1> QED
    BY <1>2 DEF h

\* What a result has shown, with what still comes, and how quiet it is.
Comes(q, u, total) ==
  /\ DataIn(q.msgs) \o UnitData(u) = total
  /\ ~q.s.encrypted => Hushed(q, u)

LEMMA HandleComes ==
  ASSUME NEW q \in Results, NEW u \in Seq(HostUnits), NEW d \in {1, 2}, d <= Len(u), u[1].k = 1,
         d = 2 => u[2] = [p |-> u[1].p, k |-> 2], q.s.encrypted => d = u[1].p.len,
         NEW channel \in Nat, NEW total, Comes(q, u, total), ~Handle(q, u[1].p, channel).error
  PROVE  Comes(Handle(q, u[1].p, channel), SubSeq(u, d + 1, Len(u)), total)
PROOF
  <1> DEFINE p == u[1].p
             h == Handle(q, p, channel)
             v == SubSeq(u, d + 1, Len(u))
  <1>1. u[1] \in HostUnits /\ 1 \in DOMAIN u /\ d + 1 \in 1 .. Len(u) + 1
    OBVIOUS
  <1>2. p \in HostPackets /\ v \in Seq(HostUnits)
    <2>1. v \in Seq(HostUnits)
      BY <1>1
    <2> QED
      BY <1>1, <2>1 DEF HostUnits
  <1>3. q.s.encrypted \in BOOLEAN
    BY DEF Results, Session
  <1>4. ~q.s.encrypted => p.code \in EarlyIn /\ EarlyUnits(v)
    <2>1. EarlyUnits(u) => EarlyUnits(v)
      BY <1>1, EarlyUnitsRest
    <2> HIDE DEF v
    <2>2. EarlyUnits(u) => p.code \in EarlyIn
      BY <1>1 DEF EarlyUnits
    <2> QED
      BY <2>1, <2>2 DEF Comes, Hushed
  <1>5. p.code = "CHANNEL_DATA" => d = p.len
    BY <1>3, <1>4 DEF EarlyIn, KexCodes
  <1>6. UnitData(u) = Bit(p) \o UnitData(v)
    <2> HIDE DEF v
    <2>1. UnitData(u) = Bit(u[1].p) \o UnitData(SubSeq(u, d + 1, Len(u)))
      BY <1>5, UnitsTaken
    <2> QED
      BY <2>1 DEF v
  <1> HIDE DEF v
  <1>7. ~h.error
    OBVIOUS
  <1> HIDE DEF p
  <1>8. DataIn(h.msgs) = DataIn(q.msgs) \o Bit(p) /\ DataIn(q.msgs) \in Seq(Values) /\ Bit(p) \in Seq(Values)
    BY <1>2, <1>7, HandleShows
  <1>9. UnitData(v) \in Seq(Values)
    BY <1>2, LastsFacts
  <1>10. DataIn(h.msgs) \o UnitData(v) = DataIn(q.msgs) \o (Bit(p) \o UnitData(v))
    <2> DEFINE a == DataIn(q.msgs)
               b == Bit(p)
               c == UnitData(v)
    <2>1. a \in Seq(Values) /\ b \in Seq(Values) /\ c \in Seq(Values) /\ DataIn(h.msgs) = a \o b
      BY <1>8, <1>9
    <2> HIDE DEF a, b, c, h
    <2>2. (a \o b) \o c = a \o (b \o c)
      <3>1. Followed(Followed(a, b), c) = Followed(a, Followed(b, c))
        BY <2>1, FollowedThree
      <3> QED
        BY <3>1 DEF Followed
    <2> QED
      BY <2>1, <2>2 DEF a, b, c
  <1>11. h.error \in BOOLEAN /\ h.s.encrypted \in BOOLEAN
    <2>1. h \in Results
      BY <1>2, HandleTyped
    <2> HIDE DEF h
    <2> QED
      BY <2>1 DEF Results, Session
  <1>12. ~h.s.encrypted => Hushed(h, v)
    <2>1. CASE q.s.encrypted
      BY <1>2, <1>3, <1>7, <2>1, StaysKeyed
    <2>2. CASE ~q.s.encrypted
      <3>1. Alone(q.s) /\ EarlyPackets(q.out) /\ EarlyMessages(q.msgs) /\ p.code \in EarlyIn /\ EarlyUnits(v)
        BY <1>4, <2>2 DEF Comes, Hushed
      <3>2. h.error \/ h.s.encrypted \/ (Alone(h.s) /\ EarlyPackets(h.out) /\ EarlyMessages(h.msgs))
        BY <1>2, <2>2, <3>1, HandleHushed
      <3> HIDE DEF h
      <3> QED
        BY <1>7, <3>1, <3>2 DEF Hushed
    <2> QED
      BY <2>1, <2>2
  <1> HIDE DEF h
  <1>13. Comes(h, v, total)
    BY <1>6, <1>10, <1>12 DEF Comes
  <1> QED
    BY <1>13 DEF h, v, p

LEMMA KeptComes ==
  ASSUME NEW q \in Results, NEW t \in Session, SameMain(t, q.s), NEW u, NEW total, Comes(q, u, total)
  PROVE  LET r == [q EXCEPT !.s = t] IN
         r \in Results /\ r.s = t /\ r.error = q.error /\ Comes(r, u, total)
PROOF
  <1> DEFINE r == [q EXCEPT !.s = t]
  <1>1. r \in Results /\ r.s = t /\ r.error = q.error /\ r.out = q.out /\ r.msgs = q.msgs
    BY DEF Results
  <1> HIDE DEF r
  <1>2. t.encrypted = q.s.encrypted /\ t.primary = q.s.primary /\ t.queue = q.s.queue
    BY DEF SameMain, SameKeys, SameChannels
  <1>3. Comes(r, u, total)
    BY <1>1, <1>2 DEF Comes, Hushed, Alone
  <1> QED
    BY <1>1, <1>3 DEF r

\* A chunk of the host: what it shows and what it leaves are what came.
LEMMA ChunkComes ==
  ASSUME NEW s \in Session, NEW st \in Seq(HostUnits), NEW n \in 1 .. Len(st),
         Whole(s.incomplete \o st), Ended(s.incomplete \o st),
         ~s.encrypted => Alone(s) /\ EarlyUnits(s.incomplete \o st)
  PROVE  LET f == processEncryptedData(s, SubSeq(st, 1, n))
             u == f.s.incomplete \o SubSeq(st, n + 1, Len(st)) IN
         ~f.error => Comes(f, u, UnitData(s.incomplete \o st))
PROOF
  <1> DEFINE channel == CurrentChannel(s)
             j == Joined(s, SubSeq(st, 1, n))
             full == s.incomplete \o st
             total == UnitData(full)
             P == {g \in Results \X Seq(HostUnits) : ~g[1].error => Comes(g[1], g[2], total)}
  <1>1. channel \in Nat /\ full \in Seq(HostUnits) /\ SubSeq(st, 1, n) \in Seq(HostUnits)
    <2>1. s.incomplete \in Seq(HostUnits)
      BY DEF Session
    <2> QED
      BY <2>1, ResultTyped
  <1>2. /\ j \in Results /\ SameMain(j.s, s) /\ j.error = FALSE /\ j.msgs = <<>>
        /\ j.out \in {<<>>, <<Packet("WINDOW_ADJUST", 0, 0)>>}
    BY <1>1, JoinedFacts DEF Kept
  <1>3. total \in Seq(Values)
    BY <1>1, LastsFacts
  <1> HIDE DEF channel, j, total
  <1>4. Comes(j, full, total)
    <2>1. DataIn(j.msgs) \o UnitData(full) = total
      <3>1. <<>> \o total = total
        BY <1>3, NothingBehind
      <3> QED
        BY <1>2, <3>1, DataInNone DEF total
    <2>2. EarlyPackets(j.out) /\ EarlyMessages(j.msgs)
      <3>1. EarlyPackets(<<>>) /\ EarlyMessages(<<>>)
        BY DEF EarlyPackets, EarlyMessages
      <3>2. EarlyPackets(<<Packet("WINDOW_ADJUST", 0, 0)>>)
        BY DEF EarlyPackets, EarlyOut, Packet
      <3> QED
        BY <1>2, <3>1, <3>2
    <2>3. j.s.encrypted = s.encrypted /\ (Alone(s) => Alone(j.s))
      BY <1>2 DEF SameMain, SameKeys, SameChannels, Alone
    <2> QED
      BY <2>1, <2>2, <2>3 DEF Comes, Hushed
  <1>5. <<j, full>> \in P
    BY <1>1, <1>2, <1>4
  <1>6. \A q \in Results, u \in Seq(HostUnits) : <<q, u>> \in P <=> (~q.error => Comes(q, u, total))
    OBVIOUS
  <1>7. P \subseteq Results \X Seq(HostUnits)
    OBVIOUS
  <1> HIDE DEF P
  <1>8. ASSUME NEW q \in Results, NEW u \in Seq(HostUnits), NEW t \in Session, <<q, u>> \in P, ~q.error
        PROVE  /\ Kept(t, q.s) => <<[q EXCEPT !.s = t], u>> \in P
               /\ Kept(t, q.s) /\ q.s.encrypted /\ u # <<>> /\ u[1].k # 1 => <<Fail([q EXCEPT !.s = t]), u>> \in P
               /\ \A d \in {1, 2} :
                    /\ d <= Len(u) /\ u[1].k = 1 /\ Counts(t, q.s, u[1].p) /\ Whole(u) /\ Ended(u)
                    /\ d = 2 => u[2] = [p |-> u[1].p, k |-> 2]
                    /\ q.s.encrypted => d = u[1].p.len
                    => <<Handle([q EXCEPT !.s = t], u[1].p, channel), SubSeq(u, d + 1, Len(u))>> \in P
    <2> DEFINE r == [q EXCEPT !.s = t]
    <2>1. Comes(q, u, total) /\ r \in Results
      BY <1>6, <1>8 DEF Results
    <2>2. SameMain(t, q.s) => r.error = q.error /\ r.s = t /\ Comes(r, u, total)
      BY <2>1, KeptComes
    <2> HIDE DEF r
    <2>3. Kept(t, q.s) => <<r, u>> \in P
      BY <1>6, <1>8, <2>1, <2>2 DEF Kept
    <2>4. <<Fail(r), u>> \in P
      <3>1. Fail(r) \in Results /\ Fail(r).error = TRUE
        BY <2>1, FailIs
      <3> QED
        BY <1>6, <3>1
    <2>5. ASSUME NEW d \in {1, 2}, d <= Len(u), u[1].k = 1, Counts(t, q.s, u[1].p),
                 d = 2 => u[2] = [p |-> u[1].p, k |-> 2], q.s.encrypted => d = u[1].p.len
          PROVE  <<Handle(r, u[1].p, channel), SubSeq(u, d + 1, Len(u))>> \in P
      <3> DEFINE p == u[1].p
                 h == Handle(r, p, channel)
                 v == SubSeq(u, d + 1, Len(u))
      <3>1. p \in HostPackets /\ v \in Seq(HostUnits)
        <4>1. u[1] \in HostUnits
          BY <2>5
        <4>2. v \in Seq(HostUnits)
          BY <2>5
        <4> QED
          BY <4>1, <4>2 DEF HostUnits
      <3>2. Comes(r, u, total) /\ r.s.encrypted = q.s.encrypted
        BY <2>2, <2>5 DEF Counts, SameMain, SameKeys
      <3>3. r.s.encrypted => d = u[1].p.len
        BY <2>5, <3>2
      <3> HIDE DEF v
      <3>4. h \in Results
        BY <1>1, <2>1, <3>1, HandleTyped
      <3>5. ~h.error => Comes(h, v, total)
        BY <1>1, <2>1, <2>5, <3>2, <3>3, HandleComes DEF v
      <3> HIDE DEF h
      <3>6. <<h, v>> \in P
        BY <1>6, <3>1, <3>4, <3>5
      <3> QED
        BY <3>6 DEF h, p, v
    <2> QED
      BY <2>3, <2>4, <2>5 DEF r
  <1>9. Packets(P, channel)
    BY <1>7, <1>8, ZenonT(60) DEF Packets
  <1>10. PICK u \in Seq(HostUnits) :
          LET f == processEncryptedData(s, SubSeq(st, 1, n)) IN
           /\ <<f, u>> \in P /\ Whole(u) /\ Ended(u)
           /\ ~f.error => f.s.incomplete \o SubSeq(st, n + 1, Len(st)) = u
    BY <1>5, <1>9, PacketRule DEF channel, j
  <1>11. processEncryptedData(s, SubSeq(st, 1, n)) \in Results
    BY <1>1, ProcessIs
  <1> QED
    BY <1>6, <1>10, <1>11 DEF total

\* Once the session is encrypted it stays so.
LEMMA ChunkStaysKeyed ==
  ASSUME NEW s \in Session, NEW st \in Seq(HostUnits), NEW n \in 1 .. Len(st),
         Whole(s.incomplete \o st), Ended(s.incomplete \o st), s.encrypted = TRUE
  PROVE  LET f == processEncryptedData(s, SubSeq(st, 1, n)) IN ~f.error => f.s.encrypted = TRUE
PROOF
  <1> DEFINE channel == CurrentChannel(s)
             j == Joined(s, SubSeq(st, 1, n))
             full == s.incomplete \o st
             P == {g \in Results \X Seq(HostUnits) : ~g[1].error => g[1].s.encrypted = TRUE}
  <1>1. full \in Seq(HostUnits) /\ SubSeq(st, 1, n) \in Seq(HostUnits)
    <2>1. s.incomplete \in Seq(HostUnits)
      BY DEF Session
    <2> QED
      BY <2>1
  <1>2. j \in Results /\ SameMain(j.s, s)
    BY <1>1, JoinedFacts DEF Kept
  <1>3. channel \in Nat
    BY ResultTyped
  <1> HIDE DEF channel, j
  <1>4. <<j, full>> \in P
    BY <1>1, <1>2 DEF SameMain, SameKeys
  <1>5. \A q \in Results, u \in Seq(HostUnits) : <<q, u>> \in P <=> (~q.error => q.s.encrypted = TRUE)
    OBVIOUS
  <1>6. P \subseteq Results \X Seq(HostUnits)
    OBVIOUS
  <1> HIDE DEF P
  <1>7. ASSUME NEW q \in Results, NEW u \in Seq(HostUnits), NEW t \in Session, <<q, u>> \in P, ~q.error
        PROVE  /\ Kept(t, q.s) => <<[q EXCEPT !.s = t], u>> \in P
               /\ Kept(t, q.s) /\ q.s.encrypted /\ u # <<>> /\ u[1].k # 1 => <<Fail([q EXCEPT !.s = t]), u>> \in P
               /\ \A d \in {1, 2} :
                    /\ d <= Len(u) /\ u[1].k = 1 /\ Counts(t, q.s, u[1].p) /\ Whole(u) /\ Ended(u)
                    /\ d = 2 => u[2] = [p |-> u[1].p, k |-> 2]
                    /\ q.s.encrypted => d = u[1].p.len
                    => <<Handle([q EXCEPT !.s = t], u[1].p, channel), SubSeq(u, d + 1, Len(u))>> \in P
    <2> DEFINE r == [q EXCEPT !.s = t]
    <2>1. r \in Results /\ r.s = t /\ q.s.encrypted = TRUE
      BY <1>5, <1>7 DEF Results
    <2> HIDE DEF r
    <2>2. Kept(t, q.s) => <<r, u>> \in P
      BY <1>5, <2>1 DEF Kept, SameMain, SameKeys
    <2>3. <<Fail(r), u>> \in P
      <3>1. Fail(r) \in Results /\ Fail(r).error = TRUE
        BY <2>1, FailIs
      <3> QED
        BY <1>5, <3>1
    <2>4. ASSUME NEW d \in {1, 2}, d <= Len(u), Counts(t, q.s, u[1].p)
          PROVE  <<Handle(r, u[1].p, channel), SubSeq(u, d + 1, Len(u))>> \in P
      <3> DEFINE p == u[1].p
                 h == Handle(r, p, channel)
                 v == SubSeq(u, d + 1, Len(u))
      <3>1. u[1] \in HostUnits
        BY <2>4
      <3>2. p \in HostPackets
        BY <3>1 DEF HostUnits
      <3>3. v \in Seq(HostUnits)
        BY <2>4
      <3>4. r.s.encrypted = TRUE
        BY <2>1, <2>4 DEF Counts, SameMain, SameKeys
      <3> HIDE DEF p, v
      <3>5. h \in Results /\ (~h.error => h.s.encrypted = TRUE)
        BY <1>3, <2>1, <3>2, <3>4, HandleTyped, StaysKeyed
      <3> HIDE DEF h
      <3>6. <<h, v>> \in P
        BY <1>5, <3>3, <3>5
      <3> QED
        BY <3>6 DEF h, p, v
    <2> QED
      BY <2>2, <2>3, <2>4 DEF r
  <1>8. Packets(P, channel)
    BY <1>6, <1>7, ZenonT(60) DEF Packets
  <1>9. PICK u \in Seq(HostUnits) : <<processEncryptedData(s, SubSeq(st, 1, n)), u>> \in P
    BY <1>4, <1>8, PacketRule DEF channel, j
  <1>10. processEncryptedData(s, SubSeq(st, 1, n)) \in Results
    BY <1>1, ProcessIs
  <1> QED
    BY <1>5, <1>9, <1>10

\* Parcels that are not data hold none.
LEMMA NoDataIn ==
  ASSUME NEW m \in Seq(Parcels), \A i \in 1 .. Len(m) : Bit(m[i]) = <<>>
  PROVE  DataIn(m) = <<>>
PROOF
  <1>1. Len(m) \in Nat /\ \A i \in 1 .. Len(m) : m[i] \in Parcels
    OBVIOUS
  <1>2. PICK f : Collects(f, Len(m), m) /\ DataIn(m) = f[Len(m)]
    BY <1>1, CollectsIs
  <1> DEFINE T == {i \in 0 .. Len(m) : f[i] = <<>>}
  <1>3. f[0] = <<>> /\ \A i \in 1 .. Len(m) : f[i] = WithData(f[i - 1], m[i])
    BY <1>1, <1>2 DEF Collects
  <1>4. 0 \in T
    BY <1>1, <1>3
  <1>5. \A p : Bit(p) = <<>> => p.code \notin Pieces
    BY DEF Bit
  <1>6. \A d, p : p.code \notin Pieces => WithData(d, p) = d
    BY DEF WithData, Pieces
  <1>7. \A i \in 1 .. Len(m) : i - 1 \in T => i \in T
    <2> TAKE i \in 1 .. Len(m)
    <2>1. WithData(f[i - 1], m[i]) = f[i - 1]
      BY <1>5, <1>6
    <2> QED
      BY <1>1, <1>3, <2>1
  <1> HIDE DEF T
  <1>8. \A i \in 0 .. Len(m) : i \in T
    BY <1>1, <1>4, <1>7, UptoInduction
  <1>9. Len(m) \in T
    BY <1>1, <1>8
  <1> QED
    BY <1>2, <1>9 DEF T

LEMMA EarlyShowsNothing ==
  ASSUME NEW u \in Seq(HostUnits), EarlyUnits(u)
  PROVE  UnitData(u) = <<>>
PROOF
  <1> DEFINE l == Lasts(u)
  <1>1. /\ l \in Seq(Parcels) /\ Len(l) = Len(u) /\ Len(u) \in Nat /\ DOMAIN u = 1 .. Len(u)
        /\ \A i \in 1 .. Len(u) : l[i] = Completed(u[i])
    BY LastsFacts
  <1> HIDE DEF l
  <1>2. ASSUME NEW i \in 1 .. Len(l) PROVE Bit(l[i]) = <<>>
    <2>1. l[i] = Completed(u[i]) /\ u[i].p.code \in EarlyIn
      BY <1>1, <1>2 DEF EarlyUnits
    <2>2. Completed(u[i]).code \notin Pieces
      BY <2>1 DEF Completed, Plain, Packet, Pieces, EarlyIn, KexCodes
    <2> QED
      BY <2>1, <2>2 DEF Bit
  <1>3. DataIn(l) = <<>>
    BY <1>1, <1>2, NoDataIn
  <1> QED
    BY <1>3 DEF UnitData, l

LEMMA EarlyPacketUnits ==
  ASSUME NEW p \in HostPackets, p.code \in EarlyIn
  PROVE  Units(p) \in Seq(HostUnits) /\ EarlyUnits(Units(p))
PROOF
  <1> DEFINE u == Units(p)
  <1>1. u \in Seq(HostUnits) /\ Len(u) = p.len /\ \A k \in 1 .. p.len : u[k] = [p |-> p, k |-> k]
    BY UnitsFacts
  <1> HIDE DEF u
  <1>2. \A i \in DOMAIN u : u[i].p = p
    <2>1. DOMAIN u = 1 .. p.len
      BY <1>1
    <2>2. \A i \in DOMAIN u : u[i] = [p |-> p, k |-> i]
      BY <1>1, <2>1
    <2>3. \A i : [p |-> p, k |-> i].p = p
      OBVIOUS
    <2> QED
      BY <2>2, <2>3
  <1> QED
    BY <1>1, <1>2 DEF EarlyUnits, u

LEMMA EarlyAdds ==
  ASSUME NEW inc \in Seq(HostUnits), NEW st \in Seq(HostUnits), NEW p \in HostPackets,
         EarlyUnits(inc \o st), p.code \in EarlyIn
  PROVE  EarlyUnits(inc \o (st \o Units(p)))
PROOF
  <1> DEFINE v == Units(p)
             w == inc \o st
  <1>1. v \in Seq(HostUnits) /\ EarlyUnits(v) /\ w \in Seq(HostUnits)
    BY EarlyPacketUnits
  <1> HIDE DEF v
  <1>2. w \o v = inc \o (st \o v)
    BY <1>1, JoinedThreeOf
  <1> HIDE DEF w
  <1>3. EarlyUnits(w \o v)
    BY <1>1, EarlyUnitsParts DEF w
  <1> QED
    BY <1>2, <1>3 DEF v

\* What a server that keeps nothing back has sent, and still keeps none.
Bare(inc, e) == EarlyUnits(inc \o e.stream) /\ e.srv.held = <<>>

LEMMA ReleasesNothing == \A k : InOrder(Sent, k, <<>>) = k
PROOF
  <1> TAKE k
  <1> DEFINE none == <<>>
             S == [i \in 0 .. 0 |-> {k}]
  <1>1. Len(none) = 0 /\ Len(none) \in Nat /\ k \in S[0] /\ S[0] = {k}
    OBVIOUS
  <1>2. \A i \in 1 .. Len(none) : \A d \in S[i - 1] : Sent(d, none[i]) \in S[i]
    BY <1>1
  <1> HIDE DEF S, none
  <1>3. InOrder(Sent, k, none) \in S[Len(none)]
    BY <1>1, <1>2, SendsRule
  <1> QED
    BY <1>1, <1>3 DEF none

LEMMA BareEmitted ==
  ASSUME NEW e \in Emissions, NEW c \in Commands, NEW inc \in Seq(HostUnits), Bare(inc, e),
         c.code \in EarlyIn, c.code \notin KexCodes => ~e.srv.kex
  PROVE  Emitted(e, c) \in Emissions /\ Bare(inc, Emitted(e, c))
PROOF
  <1> DEFINE f == Emitted(e, c)
             p == ServerPacket(e.srv, c.code, c.x)
  <1>1. e.stream \in Seq(HostUnits) /\ e.srv \in Servers /\ c.code \in HostCodes /\ c.x \in Values
    BY DEF Emissions, Servers, Commands
  <1>2. p \in HostPackets /\ p.code = c.code
    BY <1>1, ServerPacketTyped
  <1>3. f \in Emissions
    BY EmittedTyped
  <1>4. /\ Sent(e, c).stream = e.stream \o Units(p) /\ Sent(e, c).srv.held = e.srv.held
    BY SentFields
  <1>5. /\ Keyed0(e, c).stream = e.stream \o Units(p) /\ Keyed0(e, c).srv.held = <<>>
    BY KeyedFields
  <1>6. \/ e.srv.kex /\ c.code \notin KexCodes
        \/ f = Sent(e, c)
        \/ f = InOrder(Sent, Keyed0(e, c), e.srv.held)
    BY EmittedWays
  <1> HIDE DEF p
  <1>7. EarlyUnits(inc \o (e.stream \o Units(p)))
    BY <1>1, <1>2, EarlyAdds DEF Bare
  <1> HIDE DEF f
  <1>8. CASE f = Sent(e, c)
    BY <1>3, <1>4, <1>7, <1>8 DEF Bare, f
  <1>9. CASE f = InOrder(Sent, Keyed0(e, c), e.srv.held)
    <2>1. f = Keyed0(e, c)
      BY <1>9, ReleasesNothing DEF Bare
    <2> QED
      BY <1>3, <1>5, <1>7, <2>1 DEF Bare, f
  <1> QED
    BY <1>6, <1>8, <1>9

LEMMA BareEmit ==
  ASSUME NEW sv \in Servers, NEW st \in Seq(HostUnits), NEW codes, NEW inc \in Seq(HostUnits),
         EarlyUnits(inc \o st), sv.held = <<>>,
         \/ codes = <<>>
         \/ \E a \in Commands : codes = <<a>> /\ a.code \in EarlyIn /\ (a.code \notin KexCodes => ~sv.kex)
         \/ \E a, b \in Commands : codes = <<a, b>> /\ a.code \in KexCodes /\ b.code \in KexCodes
  PROVE  Bare(inc, Emit(sv, st, codes))
PROOF
  <1> DEFINE o == Outcome(sv, st)
  <1>1. o \in Emissions /\ o.srv = sv /\ o.stream = st
    BY EmissionsAre DEF Outcome
  <1> HIDE DEF o
  <1>2. Bare(inc, o)
    BY <1>1 DEF Bare
  <1>3. CASE codes = <<>>
    BY <1>2, <1>3, EmitNone DEF o
  <1>4. ASSUME NEW a \in Commands, codes = <<a>>, a.code \in EarlyIn, a.code \notin KexCodes => ~sv.kex
        PROVE  Bare(inc, Emit(sv, st, codes))
    <2>1. Emit(sv, st, codes) = Emitted(o, a)
      BY <1>4, EmitOne DEF o
    <2> QED
      BY <1>1, <1>2, <1>4, <2>1, BareEmitted
  <1>5. ASSUME NEW a \in Commands, NEW b \in Commands, codes = <<a, b>>, a.code \in KexCodes, b.code \in KexCodes
        PROVE  Bare(inc, Emit(sv, st, codes))
    <2>1. Emit(sv, st, codes) = Emitted(Emitted(o, a), b)
      BY <1>5, EmitTwo DEF o
    <2>2. a.code \in EarlyIn /\ b.code \in EarlyIn
      BY <1>5 DEF EarlyIn
    <2>3. Emitted(o, a) \in Emissions /\ Bare(inc, Emitted(o, a))
      BY <1>1, <1>2, <1>5, <2>2, BareEmitted
    <2> QED
      BY <1>5, <2>1, <2>2, <2>3, BareEmitted
  <1> QED
    BY <1>3, <1>4, <1>5

\* Before the keys the server answers with what leads to them.
LEMMA EarlyAnswers ==
  ASSUME Typed, NEW p \in ClientPackets, p.code \in EarlyOut, NEW codes \in Answers(p)
  PROVE  \/ codes = <<>>
         \/ \E a \in Commands : codes = <<a>> /\ a.code \in KexCodes
         \/ \E a, b \in Commands : codes = <<a, b>> /\ a.code \in KexCodes /\ b.code \in KexCodes
PROOF
  <1> DEFINE k == [code |-> "KEXINIT", x |-> srv.method]
  <1>1. srv.method \in Values
    BY DEF Typed, Servers, Values
  <1>2. k \in Commands /\ k.code \in KexCodes
    BY <1>1, CodeTyped DEF HostCodes, KexCodes
  <1>3. \A code \in {"GEX_GROUP", "GEX_REPLY", "NEWKEYS"} : Code(code) \in Commands /\ Code(code).code \in KexCodes
    BY CodeTyped DEF Code, HostCodes, KexCodes
  <1>4. p.code \in KexCodes \cup {"VERSION", "RAW", "WINDOW_ADJUST"}
    BY DEF EarlyOut
  <1>5. \/ codes = <<>> \/ codes = <<k>> \/ codes = <<Code("GEX_GROUP")>>
        \/ codes = <<Code("GEX_REPLY"), Code("NEWKEYS")>>
        \/ codes = <<Code("GEX_GROUP"), Code("NEWKEYS")>>
    BY <1>4 DEF Answers, KexCodes
  <1> HIDE DEF k
  <1> QED
    BY <1>2, <1>3, <1>5

\* Without the keys nothing but what leads to them is under way, nothing is
\* asked of the user and nothing waits.
Ciphered(s) == IF s.exists THEN s.encrypted ELSE FALSE
EarlyOn(s, st, nt, sv, ask) ==
  ~Ciphered(s) => /\ EarlyUnits(KeptBack(s) \o st) /\ EarlyPackets(nt) /\ sv.held = <<>> /\ ask = "none"
                  /\ s.exists => Alone(s)
EarlyInv == Live => EarlyOn(ssh, stream, net, srv, asked)

LEMMA EarlyAsks ==
  ASSUME NEW msgs, EarlyMessages(msgs), asked = "none"
  PROVE  Asks(msgs) = "none"
PROOF
  <1>1. \A i \in DOMAIN msgs : msgs[i].code \notin {"SERVICE_ACCEPT", "USERAUTH_FAILURE", "USERAUTH_INFO_REQUEST"}
    BY DEF EarlyMessages, EarlyIn, KexCodes
  <1> QED
    BY <1>1 DEF Asks

LEMMA BeginsEarly ==
  ASSUME Good, Begins
  PROVE  EarlyOn(ssh', stream', net', srv', asked')
PROOF
  <1>1. ssh' = NoSession /\ net' = <<>> /\ srv = FreshServer /\ asked' = "none"
    BY DEF Begins, Untouched
  <1>2. PICK eager \in BOOLEAN, method \in {"gex", "old"} :
          LET first == [id |-> 0, code |-> "VERSION", x |-> method, len |-> 1]
          IN  /\ stream' = Units(first) \o
                   IF eager THEN Units(ServerPacket(srv, "KEXINIT", method)) ELSE <<>>
              /\ srv' = [srv EXCEPT !.kex = eager, !.sent = IF eager THEN 1 ELSE 0, !.method = method]
    BY DEF Begins
  <1> DEFINE first == [id |-> 0, code |-> "VERSION", x |-> method, len |-> 1]
             next == ServerPacket(srv, "KEXINIT", method)
             after == IF eager THEN Units(next) ELSE <<>>
  <1>3. first \in HostPackets /\ first.code \in EarlyIn
    BY DEF HostPackets, HostCodes, Values, EarlyIn
  <1>4. next \in HostPackets /\ next.code \in EarlyIn
    <2>1. srv \in Servers
      BY DEF Good, Typed
    <2>2. "KEXINIT" \in HostCodes /\ method \in Values
      BY DEF HostCodes, Values
    <2>3. next \in HostPackets /\ next.code = "KEXINIT"
      BY <2>1, <2>2, ServerPacketTyped
    <2> QED
      BY <2>3 DEF EarlyIn, KexCodes
  <1>5. stream' = Units(first) \o after
    BY <1>2
  <1>6. srv'.held = <<>>
    BY <1>1, <1>2 DEF FreshServer
  <1> HIDE DEF first, next
  <1>7. /\ Units(first) \in Seq(HostUnits) /\ EarlyUnits(Units(first))
        /\ Units(next) \in Seq(HostUnits) /\ EarlyUnits(Units(next))
        /\ <<>> \in Seq(HostUnits) /\ EarlyUnits(<<>>)
    <2>1. <<>> \in Seq(HostUnits) /\ EarlyUnits(<<>>)
      BY DEF EarlyUnits
    <2> QED
      BY <1>3, <1>4, <2>1, EarlyPacketUnits
  <1> DEFINE f == Units(first)
  <1>8. f \in Seq(HostUnits) /\ after \in Seq(HostUnits) /\ EarlyUnits(f) /\ EarlyUnits(after)
    BY <1>7
  <1> HIDE DEF f, after
  <1>9. f \o after \in Seq(HostUnits) /\ EarlyUnits(f \o after) /\ <<>> \o (f \o after) = f \o after
    <2>1. EarlyUnits(f \o after)
      BY <1>8, EarlyUnitsParts
    <2> QED
      BY <1>8, <2>1
  <1>10. KeptBack(NoSession) = <<>> /\ NoSession.exists = FALSE
    BY SessionFacts
  <1>11. EarlyPackets(<<>>)
    BY DEF EarlyPackets
  <1>12. EarlyUnits(KeptBack(NoSession) \o stream')
    BY <1>5, <1>9, <1>10 DEF f
  <1> QED
    BY <1>1, <1>6, <1>10, <1>11, <1>12 DEF EarlyOn

\* A chunk of the host is read.
LEMMA HearsEarly ==
  ASSUME Good, OrderInv, EarlyInv, Live, NEW n \in 1 .. Len(stream), Hears(n)
  PROVE  EarlyOn(ssh', stream', net', srv', asked')
PROOF
  <1> DEFINE r == processEncryptedData(ssh, SubSeq(stream, 1, n))
             after == SubSeq(stream, n + 1, Len(stream))
  <1>1. /\ r \in Results /\ ssh' = r.s /\ ~r.error /\ net' = net \o r.out /\ stream' = after /\ srv' = srv
        /\ asked' = Asks(r.msgs)
    BY DEF Hears
  <1>2. IsSsh(ssh) /\ stream \in Seq(HostUnits) /\ net \in Seq(ClientPackets)
    BY GotTyped
  <1>3. EarlyOn(ssh, stream, net, srv, asked)
    BY DEF EarlyInv
  <1>4. n + 1 \in 1 .. Len(stream) + 1 /\ after \in Seq(HostUnits) /\ <<>> \o stream = stream /\ <<>> \o after = after
    BY <1>2
  <1>5. r.out \in Seq(ClientPackets) /\ r.s \in Session
    BY <1>1 DEF Results
  <1>6. r.s.exists = TRUE /\ KeptBack(r.s) = r.s.incomplete
    BY <1>5, SessionFacts
  <1>7. CASE ssh = NoSession
    <2>1. r.s = NewSession /\ r.out = <<Plain("VERSION")>> /\ r.msgs = <<>>
      BY <1>7, FirstChunk
    <2>2. EarlyUnits(stream) /\ EarlyPackets(net) /\ srv.held = <<>> /\ asked = "none"
      BY <1>3, <1>4, <1>7, SessionFacts DEF EarlyOn, Ciphered
    <2> HIDE DEF r
    <2>3. EarlyUnits(after)
      BY <1>2, <1>4, <2>2, EarlyUnitsRest
    <2> HIDE DEF after
    <2>4. r.s.incomplete = <<>> /\ Alone(r.s)
      BY <2>1 DEF NewSession, Alone
    <2>5. EarlyPackets(r.out)
      BY <2>1 DEF EarlyPackets, Plain, Packet, EarlyOut
    <2>6. EarlyPackets(net \o r.out)
      BY <1>2, <1>5, <2>2, <2>5, EarlyPacketsAdd
    <2>7. EarlyMessages(r.msgs)
      BY <2>1 DEF EarlyMessages
    <2>8. Asks(r.msgs) = "none"
      BY <2>2, <2>7, EarlyAsks
    <2>9. EarlyUnits(KeptBack(r.s) \o after)
      BY <1>4, <1>6, <2>3, <2>4
    <2> QED
      BY <1>1, <2>2, <2>4, <2>6, <2>8, <2>9 DEF EarlyOn
  <1>8. CASE ssh \in Session
    <2>1. ssh.exists = TRUE /\ KeptBack(ssh) = ssh.incomplete
      BY <1>8, SessionFacts
    <2>2. Whole(ssh.incomplete \o stream) /\ Ended(ssh.incomplete \o stream)
      BY <2>1 DEF OrderInv, InStep, HostSide
    <2>3. ssh.encrypted \in BOOLEAN
      BY <1>8 DEF Session
    <2>4. CASE ssh.encrypted = TRUE
      <3>1. r.s.encrypted = TRUE
        BY <1>1, <1>2, <1>8, <2>2, <2>4, ChunkStaysKeyed
      <3> HIDE DEF r
      <3> QED
        BY <1>1, <1>6, <3>1 DEF EarlyOn, Ciphered
    <2>5. CASE ssh.encrypted = FALSE
      <3>1. /\ EarlyUnits(ssh.incomplete \o stream) /\ EarlyPackets(net) /\ srv.held = <<>> /\ asked = "none"
            /\ Alone(ssh)
        BY <1>3, <2>1, <2>5 DEF EarlyOn, Ciphered
      <3>2. Comes(r, r.s.incomplete \o after, UnitData(ssh.incomplete \o stream))
        BY <1>1, <1>2, <1>8, <2>2, <3>1, ChunkComes
      <3> HIDE DEF r, after
      <3>3. ~r.s.encrypted => /\ Alone(r.s) /\ EarlyUnits(r.s.incomplete \o after) /\ EarlyPackets(r.out)
                              /\ EarlyMessages(r.msgs)
        BY <3>2 DEF Comes, Hushed
      <3>4. EarlyPackets(r.out) => EarlyPackets(net \o r.out)
        BY <1>2, <1>5, <3>1, EarlyPacketsAdd
      <3>5. EarlyMessages(r.msgs) => Asks(r.msgs) = "none"
        BY <3>1, EarlyAsks
      <3> QED
        BY <1>1, <1>6, <3>1, <3>3, <3>4, <3>5 DEF EarlyOn, Ciphered
    <2> QED
      BY <2>3, <2>4, <2>5
  <1> QED
    BY <1>2, <1>7, <1>8 DEF IsSsh

\* The server answers, or speaks by itself.
LEMMA SpeaksEarly ==
  ASSUME Good, EarlyOn(ssh, stream, net, srv, asked), NEW sv \in Servers, sv.held = srv.held,
         NEW codes, NEW nt, EarlyPackets(net) => EarlyPackets(nt),
         ~Ciphered(ssh) =>
           \/ codes = <<>>
           \/ \E a \in Commands : codes = <<a>> /\ a.code \in EarlyIn /\ (a.code \notin KexCodes => ~sv.kex)
           \/ \E a, b \in Commands : codes = <<a, b>> /\ a.code \in KexCodes /\ b.code \in KexCodes
  PROVE  LET e == Emit(sv, stream, codes) IN EarlyOn(ssh, e.stream, nt, e.srv, asked)
PROOF
  <1> DEFINE e == Emit(sv, stream, codes)
             inc == KeptBack(ssh)
  <1>1. stream \in Seq(HostUnits) /\ IsSsh(ssh)
    BY GotTyped
  <1>2. inc \in Seq(HostUnits)
    BY <1>1, SessionFacts DEF IsSsh
  <1> SUFFICES ASSUME ~Ciphered(ssh)
               PROVE  EarlyOn(ssh, e.stream, nt, e.srv, asked)
    BY DEF EarlyOn
  <1>3. /\ EarlyUnits(inc \o stream) /\ EarlyPackets(nt) /\ sv.held = <<>> /\ asked = "none"
        /\ ssh.exists => Alone(ssh)
    BY DEF EarlyOn
  <1> HIDE DEF inc
  <1>4. Bare(inc, e)
    BY <1>1, <1>2, <1>3, BareEmit
  <1> HIDE DEF e
  <1> QED
    BY <1>3, <1>4 DEF Bare, EarlyOn, inc

LEMMA ReadsEarly ==
  ASSUME Good, EarlyOn(ssh, stream, net, srv, asked), serverReads
  PROVE  EarlyOn(ssh', stream', net', srv', asked')
PROOF
  <1> DEFINE p == Head(net)
             read == ReadBy(p)
             nt == Tail(net)
  <1>0. Typed /\ net \in Seq(ClientPackets)
    BY DEF Good, Typed
  <1>1. net # <<>> /\ p \in ClientPackets /\ net' = nt /\ ssh' = ssh /\ asked' = asked
    BY <1>0, ServerReadsOutcome DEF client
  <1>2. PICK answer \in Answers(p) :
          LET e == Emit(Greets(read, answer), stream, answer) IN
          e \in Emissions /\ srv' = e.srv /\ stream' = e.stream
    BY <1>0, ServerReadsOutcome
  <1> DEFINE sv == Greets(read, answer)
             e == Emit(sv, stream, answer)
  <1>3. Len(net) \in Nat /\ 1 <= Len(net) /\ p = net[1] /\ 1 \in DOMAIN net
    BY <1>0, <1>1
  <1>4. EarlyPackets(net) => EarlyPackets(nt) /\ p.code \in EarlyOut
    <2>1. DOMAIN nt = 1 .. Len(net) - 1 /\ \A i \in 1 .. Len(net) - 1 : nt[i] = net[i + 1] /\ i + 1 \in DOMAIN net
      BY <1>0, <1>1
    <2> HIDE DEF nt, p
    <2> QED
      BY <1>3, <2>1 DEF EarlyPackets
  <1>5. read \in Servers /\ read.held = srv.held
    BY <1>0, <1>1, ReadByFacts
  <1> HIDE DEF p, read, nt
  <1>6. sv \in Servers /\ sv.held = srv.held
    BY <1>5, GreetsFacts
  <1> HIDE DEF sv
  <1>7. p.code \in EarlyOut =>
          \/ answer = <<>>
          \/ \E a \in Commands : answer = <<a>> /\ a.code \in KexCodes
          \/ \E a, b \in Commands : answer = <<a, b>> /\ a.code \in KexCodes /\ b.code \in KexCodes
    BY <1>0, <1>1, <1>2, EarlyAnswers
  <1>8. ~Ciphered(ssh) => p.code \in EarlyOut
    BY <1>4 DEF EarlyOn
  <1>9. ~Ciphered(ssh) =>
           \/ answer = <<>>
           \/ \E a \in Commands : answer = <<a>> /\ a.code \in EarlyIn /\ (a.code \notin KexCodes => ~sv.kex)
           \/ \E a, b \in Commands : answer = <<a, b>> /\ a.code \in KexCodes /\ b.code \in KexCodes
    BY <1>7, <1>8 DEF EarlyIn
  <1>10. EarlyOn(ssh, e.stream, nt, e.srv, asked)
    BY <1>4, <1>6, <1>9, SpeaksEarly
  <1> QED
    BY <1>1, <1>2, <1>10 DEF sv

LEMMA NextEarly == Good /\ OrderInv /\ EarlyInv /\ [Next]_vars => EarlyInv'
PROOF
  <1> SUFFICES ASSUME Good, OrderInv, EarlyInv, [Next]_vars, Live'
               PROVE  EarlyOn(ssh', stream', net', srv', asked')
    BY DEF EarlyInv
  <1>0. IsSsh(ssh) /\ net \in Seq(ClientPackets) /\ stream \in Seq(HostUnits) /\ srv \in Servers
    BY GotTyped
  <1>1. CASE Begins
    BY <1>1, BeginsEarly
  <1> SUFFICES ASSUME Live,
                 \/ \E n \in 1 .. Len(stream) : Hears(n)
                 \/ \E code \in UserCodes, x \in Values : Orders(code, x)
                 \/ \E x \in Values : TypesRaw(x)
                 \/ serverReads
                 \/ \E sv, code, x : code \in HostCodes /\ x \in Values /\ Speaks(sv, code, x)
                 \/ Still
               PROVE  EarlyOn(ssh', stream', net', srv', asked')
    BY <1>1, LiveSteps
  <1>2. EarlyOn(ssh, stream, net, srv, asked)
    BY DEF EarlyInv
  <1>3. ASSUME NEW n \in 1 .. Len(stream), Hears(n)
        PROVE  EarlyOn(ssh', stream', net', srv', asked')
    BY <1>3, HearsEarly
  <1>4. ASSUME NEW code \in UserCodes, NEW x \in Values, Orders(code, x)
        PROVE  EarlyOn(ssh', stream', net', srv', asked')
    <2> DEFINE r == sendSSHData(ssh, code, x)
    <2>1. ssh \in Session /\ ssh' = r.s /\ (asked # "none" \/ ssh.primary # 0)
      BY <1>4 DEF Orders, sendToHost
    <2>2. SameKeys(r.s, ssh) /\ r \in Results
      BY <2>1, SendIsOne
    <2> HIDE DEF r
    <2>3. Ciphered(ssh)
      BY <1>2, <2>1, SessionFacts DEF EarlyOn, Alone
    <2>4. ssh.exists = TRUE /\ r.s.exists = TRUE
      BY <2>1, <2>2 DEF Results, Session
    <2>5. Ciphered(r.s)
      BY <2>2, <2>3, <2>4 DEF Ciphered, SameKeys
    <2> QED
      BY <2>1, <2>5 DEF EarlyOn
  <1>5. ASSUME NEW x \in Values, TypesRaw(x)
        PROVE  EarlyOn(ssh', stream', net', srv', asked')
    <2> DEFINE p == Packet("RAW", 0, x)
    <2>1. net' = Append(net, p) /\ ssh' = ssh /\ stream' = stream /\ srv' = srv /\ asked' = asked
      BY <1>5 DEF TypesRaw
    <2>2. p \in ClientPackets /\ p.code \in EarlyOut
      BY PacketsTyped DEF ClientCodes, Values, Packet, EarlyOut
    <2> HIDE DEF p
    <2>3. EarlyPackets(net) => EarlyPackets(Append(net, p))
      BY <1>0, <2>2, EarlyOneMore
    <2> QED
      BY <1>2, <2>1, <2>3 DEF EarlyOn
  <1>6. CASE serverReads
    BY <1>2, <1>6, ReadsEarly
  <1>7. ASSUME NEW sv, NEW code \in HostCodes, NEW x \in Values, Speaks(sv, code, x)
        PROVE  EarlyOn(ssh', stream', net', srv', asked')
    <2> DEFINE a == [code |-> code, x |-> x]
               codes == <<a>>
               e == Emit(sv, stream, codes)
    <2>1. /\ sv \in Servers /\ sv.held = srv.held /\ sv.kex = srv.kex
          /\ srv' = e.srv /\ stream' = e.stream /\ ssh' = ssh /\ net' = net /\ asked' = asked
          /\ \/ code = "CHANNEL_DATA" /\ ssh.exists /\ ssh.primary # 0
             \/ code \in {"KEXINIT", "DISCONNECT"} /\ ~srv.kex
      BY <1>7 DEF Speaks, AsServer, ServerSpeaks
    <2>2. a \in Commands /\ a.code = code
      BY CodeTyped
    <2> HIDE DEF a
    <2>3. ~Ciphered(ssh) => code \in {"KEXINIT", "DISCONNECT"} /\ ~srv.kex
      BY <1>2, <2>1 DEF EarlyOn, Alone
    <2>4. ~Ciphered(ssh) =>
           \/ codes = <<>>
           \/ \E b \in Commands : codes = <<b>> /\ b.code \in EarlyIn /\ (b.code \notin KexCodes => ~sv.kex)
           \/ \E b, d \in Commands : codes = <<b, d>> /\ b.code \in KexCodes /\ d.code \in KexCodes
      BY <2>1, <2>2, <2>3 DEF EarlyIn, KexCodes
    <2> HIDE DEF codes
    <2>5. EarlyOn(ssh, e.stream, net, e.srv, asked)
      BY <1>2, <2>1, <2>4, SpeaksEarly
    <2> QED
      BY <2>1, <2>5
  <1>8. CASE Still
    BY <1>2, <1>8 DEF Still
  <1> QED
    BY <1>3, <1>4, <1>5, <1>6, <1>7, <1>8

LEMMA EarlyHolds == Spec => [](Good /\ OrderInv /\ EarlyInv)
PROOF
  <1>1. Init => EarlyInv
    <2>1. Init => ~Live
      BY DEF Init, Live
    <2> QED
      BY <2>1 DEF EarlyInv
  <1>2. (Good /\ OrderInv /\ TokenInv /\ Shell) /\ EarlyInv /\ [Next]_vars => EarlyInv'
    BY NextEarly
  <1> QED
    BY <1>1, <1>2, TokensHold, PTL DEF Spec

-----------------------------------------------------------------------------
(* What was held back for the prompt, one chunk after the other *)

Flattens(f, n, chunks) == f = [i \in 1 .. n |-> IF i = 1 THEN chunks[i] ELSE f[i - 1] \o chunks[i]]

LEMMA FlattensAt ==
  ASSUME NEW f, NEW n, NEW chunks, Flattens(f, n, chunks)
  PROVE  \A i \in 1 .. n : f[i] = IF i = 1 THEN chunks[i] ELSE f[i - 1] \o chunks[i]
PROOF
  <1> DEFINE e(i) == IF i = 1 THEN chunks[i] ELSE f[i - 1] \o chunks[i]
             g == [i \in 1 .. n |-> e(i)]
  <1>1. f = g
    BY DEF Flattens
  <1> HIDE DEF e
  <1>2. \A i \in 1 .. n : g[i] = e(i)
    OBVIOUS
  <1> HIDE DEF g
  <1>3. \A i \in 1 .. n : f[i] = e(i)
    BY <1>1, <1>2
  <1> QED
    BY <1>3 DEF e

LEMMA FlattensExists ==
  ASSUME NEW chunks, NEW n \in Nat
  PROVE  \E f : Flattens(f, n, chunks)
PROOF
  <1> DEFINE T == {i \in Nat : \E f : Flattens(f, i, chunks)}
  <1>1. 0 \in T
    <2> DEFINE g == [i \in 1 .. 0 |-> <<>>]
    <2>1. g = [i \in 1 .. 0 |-> IF i = 1 THEN chunks[i] ELSE g[i - 1] \o chunks[i]]
      OBVIOUS
    <2> HIDE DEF g
    <2>2. Flattens(g, 0, chunks)
      BY <2>1 DEF Flattens
    <2> QED
      BY <2>2
  <1>2. ASSUME NEW k \in Nat, k \in T PROVE k + 1 \in T
    <2>1. PICK g : Flattens(g, k, chunks)
      BY <1>2
    <2> DEFINE last == IF k = 0 THEN chunks[1] ELSE g[k] \o chunks[k + 1]
               h == [i \in 1 .. k + 1 |-> IF i = k + 1 THEN last ELSE g[i]]
    <2> HIDE DEF last
    <2>0. (\A i \in 1 .. k : h[i] = g[i]) /\ h[k + 1] = last
      OBVIOUS
    <2>2. \A i \in 1 .. k : h[i] = g[i] /\ g[i] = IF i = 1 THEN chunks[i] ELSE g[i - 1] \o chunks[i]
      BY <2>0, <2>1, FlattensAt
    <2>3. h[k + 1] = last /\ (k # 0 => h[k] = g[k]) /\ last = IF k = 0 THEN chunks[1] ELSE g[k] \o chunks[k + 1]
      BY <2>0 DEF last
    <2>4. h = [i \in 1 .. k + 1 |-> h[i]]
      OBVIOUS
    <2> HIDE DEF h
    <2>5. \A i \in 1 .. k + 1 : h[i] = IF i = 1 THEN chunks[i] ELSE h[i - 1] \o chunks[i]
      <3> TAKE i \in 1 .. k + 1
      <3>1. CASE i = k + 1
        <4>1. CASE k = 0
          BY <2>3, <3>1, <4>1
        <4>2. CASE k # 0
          <5>1. i # 1 /\ i - 1 = k
            BY <3>1, <4>2
          <5> QED
            BY <2>3, <3>1, <4>2, <5>1
        <4> QED
          BY <4>1, <4>2
      <3>2. CASE i # k + 1
        <4>1. i \in 1 .. k /\ (i # 1 => i - 1 \in 1 .. k)
          BY <3>2
        <4> QED
          BY <2>2, <4>1
      <3> QED
        BY <3>1, <3>2
    <2>6. Flattens(h, k + 1, chunks)
      BY <2>4, <2>5 DEF Flattens
    <2> QED
      BY <2>6
  <1> HIDE DEF T
  <1>3. Nat \subseteq T
    BY <1>1, <1>2, SetInduction
  <1> QED
    BY <1>3 DEF T

LEMMA FlattenIs ==
  ASSUME NEW chunks, Len(chunks) \in Nat, Len(chunks) # 0
  PROVE  \E f : Flattens(f, Len(chunks), chunks) /\ FlattenSeq(chunks) = f[Len(chunks)]
PROOF
  <1> DEFINE P(f) == Flattens(f, Len(chunks), chunks)
             c == CHOOSE f : P(f)
  <1>1. \E f : P(f)
    BY FlattensExists
  <1>2. P(c)
    <2> HIDE DEF P
    <2> QED
      BY <1>1
  <1>3. FlattenSeq(chunks) = c[Len(chunks)]
    BY DEF FlattenSeq, Flattens
  <1> QED
    BY <1>2, <1>3

LEMMA FlattensSame ==
  ASSUME NEW k \in Nat, NEW n \in 1 .. k, NEW packets, NEW others, NEW f, NEW g,
         Flattens(f, k, packets), Flattens(g, n, others), \A i \in 1 .. n : packets[i] = others[i]
  PROVE  f[n] = g[n]
PROOF
  <1> DEFINE T == {i \in 0 .. n : i = 0 \/ f[i] = g[i]}
  <1>1. /\ \A i \in 1 .. n : f[i] = IF i = 1 THEN packets[i] ELSE f[i - 1] \o packets[i]
        /\ \A i \in 1 .. n : g[i] = IF i = 1 THEN others[i] ELSE g[i - 1] \o others[i]
    <2>1. \A i \in 1 .. n : i \in 1 .. k
      OBVIOUS
    <2> QED
      BY <2>1, FlattensAt
  <1>2. 0 \in T
    OBVIOUS
  <1>3. \A i \in 1 .. n : i - 1 \in T => i \in T
    <2> TAKE i \in 1 .. n
    <2>1. i # 1 => i - 1 # 0 /\ i \in 0 .. n
      OBVIOUS
    <2> QED
      BY <1>1, <2>1
  <1> HIDE DEF T
  <1>4. \A i \in 0 .. n : i \in T
    BY <1>2, <1>3, UptoInduction
  <1>5. n \in T /\ n # 0
    BY <1>4
  <1> QED
    BY <1>5 DEF T

LEMMA FlattenTyped ==
  ASSUME NEW b \in Seq(Seq(Values))
  PROVE  FlattenSeq(b) \in Seq(Values)
PROOF
  <1>1. Len(b) \in Nat /\ (Len(b) = 0 => b = <<>>) /\ \A i \in 1 .. Len(b) : b[i] \in Seq(Values)
    OBVIOUS
  <1>2. CASE Len(b) = 0
    <2>1. FlattenSeq(b) = <<>>
      BY <1>1, <1>2 DEF FlattenSeq
    <2>2. <<>> \in Seq(Values)
      OBVIOUS
    <2> QED
      BY <2>1, <2>2
  <1>3. CASE Len(b) # 0
    <2>1. PICK f : Flattens(f, Len(b), b) /\ FlattenSeq(b) = f[Len(b)]
      BY <1>1, <1>3, FlattenIs
    <2> DEFINE n == Len(b)
               T == {i \in 0 .. n : i = 0 \/ f[i] \in Seq(Values)}
    <2>2. \A i \in 1 .. n : f[i] = IF i = 1 THEN b[i] ELSE f[i - 1] \o b[i]
      BY <2>1, FlattensAt
    <2>3. 0 \in T /\ n \in Nat
      BY <1>1
    <2>4. \A i \in 1 .. n : i - 1 \in T => i \in T
      <3> TAKE i \in 1 .. n
      <3>1. i # 1 => i - 1 # 0 /\ i \in 0 .. n
        OBVIOUS
      <3>2. b[i] \in Seq(Values) /\ (f[i - 1] \in Seq(Values) => f[i - 1] \o b[i] \in Seq(Values))
        BY <1>1
      <3>3. CASE i = 1
        <4>1. f[i] = b[i]
          BY <2>2, <3>3
        <4> QED
          BY <3>2, <4>1
      <3>4. CASE i # 1
        <4>1. f[i] = f[i - 1] \o b[i]
          BY <2>2, <3>4
        <4>2. i - 1 \in T => f[i - 1] \in Seq(Values)
          BY <3>1, <3>4
        <4>3. f[i] \in Seq(Values) => i \in T
          BY <3>1, <3>4
        <4> QED
          BY <3>2, <4>1, <4>2, <4>3
      <3> QED
        BY <3>3, <3>4
    <2> HIDE DEF T, n
    <2>5. \A i \in 0 .. n : i \in T
      BY <2>3, <2>4, UptoInduction
    <2>6. n \in T /\ n # 0
      BY <1>3, <2>3, <2>5 DEF n
    <2> QED
      BY <2>1, <2>6 DEF T, n
  <1> QED
    BY <1>2, <1>3

LEMMA FlattenAppend ==
  ASSUME NEW b \in Seq(Seq(Values)), NEW c \in Seq(Values)
  PROVE  /\ FlattenSeq(Append(b, c)) = FlattenSeq(b) \o c /\ FlattenSeq(b) \in Seq(Values)
         /\ Append(b, c) \in Seq(Seq(Values))
PROOF
  <1> DEFINE v == Append(b, c)
             k == Len(b)
  <1>1. /\ Len(v) = k + 1 /\ k \in Nat /\ k + 1 \in Nat /\ v[k + 1] = c /\ \A i \in 1 .. k : v[i] = b[i]
        /\ k + 1 - 1 = k /\ Len(v) # 0 /\ v \in Seq(Seq(Values)) /\ (k = 0 => b = <<>>)
    OBVIOUS
  <1>2. FlattenSeq(b) \in Seq(Values)
    BY FlattenTyped
  <1> HIDE DEF v
  <1>3. PICK f : Flattens(f, Len(v), v) /\ FlattenSeq(v) = f[Len(v)]
    BY <1>1, FlattenIs
  <1>4. f[k + 1] = IF k + 1 = 1 THEN v[k + 1] ELSE f[k + 1 - 1] \o v[k + 1]
    <2>1. k + 1 \in 1 .. Len(v)
      BY <1>1
    <2> QED
      BY <1>3, <2>1, FlattensAt
  <1>5. CASE k = 0
    <2>1. FlattenSeq(b) = <<>>
      BY <1>1, <1>5 DEF FlattenSeq
    <2>2. <<>> \o c = c
      OBVIOUS
    <2> QED
      BY <1>1, <1>2, <1>3, <1>4, <1>5, <2>1, <2>2 DEF v
  <1>6. CASE k # 0
    <2>1. PICK g : Flattens(g, Len(b), b) /\ FlattenSeq(b) = g[Len(b)]
      BY <1>1, <1>6, FlattenIs
    <2>2. k \in 1 .. k + 1 /\ Len(v) = k + 1 /\ Len(b) = k
      BY <1>1, <1>6
    <2> HIDE DEF k
    <2>3. f[k] = g[k]
      BY <1>1, <1>3, <2>1, <2>2, FlattensSame
    <2>4. f[k + 1] = f[k] \o c
      BY <1>1, <1>4, <1>6
    <2>5. FlattenSeq(v) = FlattenSeq(b) \o c
      BY <1>3, <2>1, <2>2, <2>3, <2>4
    <2> QED
      BY <1>1, <1>2, <2>5 DEF v
  <1> QED
    BY <1>5, <1>6

LEMMA FlattenNone == FlattenSeq(<<>>) = <<>> /\ <<>> \in Seq(Seq(Values))
PROOF
  <1> DEFINE none == <<>>
  <1>1. Len(none) = 0 /\ none \in Seq(Seq(Values))
    OBVIOUS
  <1> HIDE DEF none
  <1>2. FlattenSeq(none) = none
    BY <1>1 DEF FlattenSeq
  <1> QED
    BY <1>1, <1>2 DEF none

LEMMA FlattenOne ==
  ASSUME NEW b \in Seq(Seq(Values)), ~(Len(b) > 1)
  PROVE  FlattenSeq(Reverse(b)) = FlattenSeq(b) /\ FlattenSeq(b) \in Seq(Values)
PROOF
  <1>1. Len(b) \in Nat /\ Reverse(b) = [i \in 1 .. Len(b) |-> b[(Len(b) - i) + 1]]
    BY DEF Reverse
  <1>2. \A i \in 1 .. Len(b) : (Len(b) - i) + 1 = i
    BY <1>1
  <1>3. b = [i \in 1 .. Len(b) |-> b[i]]
    OBVIOUS
  <1>4. Reverse(b) = b
    BY <1>1, <1>2, <1>3
  <1> QED
    BY <1>4, FlattenTyped

LEMMA OneCopy ==
  ASSUME NEW c \in Seq(Values)
  PROVE  /\ [i \in 1 .. 1 |-> c] = <<c>>
         /\ FlattenSeq(<<c>>) = c
         /\ \A b \in Seq(Seq(Values)) : b \o <<c>> = Append(b, c)
PROOF
  <1>1. [i \in 1 .. 1 |-> c] = <<c>>
    OBVIOUS
  <1>2. \A b \in Seq(Seq(Values)) : b \o <<c>> = Append(b, c)
    OBVIOUS
  <1>3. Append(<<>>, c) = <<c>> /\ <<>> \o c = c
    OBVIOUS
  <1>4. FlattenSeq(Append(<<>>, c)) = FlattenSeq(<<>>) \o c
    BY FlattenNone, FlattenAppend
  <1>5. FlattenSeq(<<c>>) = c
    BY <1>3, <1>4, FlattenNone
  <1> QED
    BY <1>1, <1>2, <1>5

-----------------------------------------------------------------------------
(* What the host sends reaches the user *)

\* A host not reached over SSH sends nothing but data.
LEMMA AllDataIn ==
  ASSUME NEW m \in Seq(Parcels), \A i \in 1 .. Len(m) : m[i].code \in Pieces
  PROVE  DataIn(m) = [i \in 1 .. Len(m) |-> m[i].x]
PROOF
  <1> DEFINE n == Len(m)
             part(i) == [j \in 1 .. i |-> m[j].x]
  <1>1. n \in Nat /\ \A i \in 1 .. n : m[i].x \in Values
    <2>1. \A i \in 1 .. n : m[i] \in Parcels
      OBVIOUS
    <2> QED
      BY <2>1, ParcelsHold
  <1>2. PICK f : Collects(f, Len(m), m) /\ DataIn(m) = f[Len(m)]
    BY <1>1, CollectsIs
  <1> DEFINE T == {i \in 0 .. n : f[i] = part(i)}
  <1>3. f[0] = <<>> /\ \A i \in 1 .. n : f[i] = WithData(f[i - 1], m[i])
    BY <1>1, <1>2 DEF Collects
  <1>4. \A i \in 1 .. n : WithData(part(i - 1), m[i]) = part(i)
    <2> TAKE i \in 1 .. n
    <2>1. m[i].code \in Pieces
      OBVIOUS
    <2>2. WithData(part(i - 1), m[i]) = Append(part(i - 1), m[i].x)
      BY <2>1 DEF WithData, Pieces
    <2> DEFINE a == part(i - 1)
               b == part(i)
               x == m[i].x
    <2>3. /\ i \in Nat /\ i - 1 \in Nat /\ a \in Seq(Values) /\ Len(a) = i - 1
          /\ b \in Seq(Values) /\ Len(b) = i /\ x \in Values
          /\ \A j \in 1 .. i - 1 : a[j] = m[j].x
          /\ \A j \in 1 .. i : b[j] = m[j].x
      BY <1>1
    <2>4. x = m[i].x
      OBVIOUS
    <2> HIDE DEF a, b, x
    <2>5. Append(a, x) \in Seq(Values) /\ Len(Append(a, x)) = i /\ \A j \in 1 .. i : Append(a, x)[j] = m[j].x
      BY <2>3, <2>4
    <2>6. Len(Append(a, x)) = Len(b) /\ \A j \in 1 .. Len(Append(a, x)) : Append(a, x)[j] = b[j]
      BY <2>3, <2>5
    <2>7. Append(a, x) = b
      BY <2>3, <2>5, <2>6, SameSequence
    <2> QED
      BY <2>2, <2>7 DEF a, b, x
  <1>5. part(0) = <<>>
    OBVIOUS
  <1>6. 0 \in T
    BY <1>1, <1>3, <1>5
  <1> HIDE DEF part
  <1>7. \A i \in 1 .. n : i - 1 \in T => i \in T
    <2> TAKE i \in 1 .. n
    <2>1. f[i] = WithData(f[i - 1], m[i]) /\ WithData(part(i - 1), m[i]) = part(i) /\ i \in 0 .. n
      BY <1>1, <1>3, <1>4
    <2> QED
      BY <2>1
  <1> HIDE DEF T, n
  <1>8. \A i \in 0 .. n : i \in T
    BY <1>1, <1>6, <1>7, UptoInduction
  <1>9. n \in T
    BY <1>1, <1>8
  <1> QED
    BY <1>2, <1>9 DEF T, n, part

LEMMA PlainData ==
  ASSUME NEW u \in Seq(HostUnits), PlainUnits(u)
  PROVE  UnitData(u) = Numbers(u) /\ UnitData(u) \in Seq(Values)
PROOF
  <1> DEFINE l == Lasts(u)
  <1>1. /\ l \in Seq(Parcels) /\ Len(l) = Len(u) /\ Len(u) \in Nat /\ DOMAIN u = 1 .. Len(u)
        /\ \A i \in 1 .. Len(u) : l[i] = Completed(u[i])
        /\ UnitData(u) \in Seq(Values)
    BY LastsFacts
  <1> HIDE DEF l
  <1>2. \A i \in 1 .. Len(u) : l[i] = u[i].p /\ u[i].p.code = "CHANNEL_DATA"
    BY <1>1 DEF PlainUnits, Completed
  <1>3. \A i \in 1 .. Len(l) : l[i].code \in Pieces
    BY <1>1, <1>2 DEF Pieces
  <1>4. DataIn(l) = [i \in 1 .. Len(l) |-> l[i].x]
    BY <1>1, <1>3, AllDataIn
  <1>5. [i \in 1 .. Len(l) |-> l[i].x] = [i \in DOMAIN u |-> u[i].p.x]
    BY <1>1, <1>2
  <1>6. DataIn(l) = Numbers(u)
    BY <1>4, <1>5 DEF Numbers
  <1> QED
    BY <1>1, <1>6 DEF UnitData, l

LEMMA PlainParts ==
  ASSUME NEW u \in Seq(HostUnits), NEW n \in 1 .. Len(u), PlainUnits(u)
  PROVE  LET c == SubSeq(u, 1, n)
             v == SubSeq(u, n + 1, Len(u)) IN
         /\ c \in Seq(HostUnits) /\ v \in Seq(HostUnits) /\ PlainUnits(c)
         /\ UnitData(u) = Numbers(c) \o UnitData(v)
         /\ Numbers(c) \in Seq(Values) /\ UnitData(v) \in Seq(Values)
PROOF
  <1> DEFINE c == SubSeq(u, 1, n)
             v == SubSeq(u, n + 1, Len(u))
  <1>1. n \in 0 .. Len(u)
    OBVIOUS
  <1>2. c \in Seq(HostUnits) /\ v \in Seq(HostUnits) /\ u = c \o v
    BY <1>1, SplitAt
  <1>3. DOMAIN c = 1 .. n /\ DOMAIN u = 1 .. Len(u) /\ \A i \in 1 .. n : c[i] = u[i] /\ i \in 1 .. Len(u)
    OBVIOUS
  <1> HIDE DEF c, v
  <1>4. PlainUnits(c)
    BY <1>3 DEF PlainUnits
  <1>5. UnitData(c) = Numbers(c) /\ UnitData(c) \in Seq(Values)
    BY <1>2, <1>4, PlainData
  <1>6. UnitData(c \o v) = UnitData(c) \o UnitData(v)
    BY <1>2, UnitsJoined
  <1>7. UnitData(v) \in Seq(Values)
    BY <1>2, LastsFacts
  <1> QED
    BY <1>2, <1>4, <1>5, <1>6, <1>7 DEF c, v

\* What a chunk shows over SSH.
LEMMA SshShows ==
  ASSUME {"shown", "mixed"} \subseteq DOMAIN seen, NEW n \in 1 .. Len(stream),
         sshData(SubSeq(stream, 1, n)), ~closeConnection
  PROVE  LET r == processEncryptedData(ssh, SubSeq(stream, 1, n)) IN
         seen'.shown = Show(DataIn(r.msgs)) /\ seen'.mixed = seen.mixed
PROOF
  <1> DEFINE chunk == SubSeq(stream, 1, n)
             r == processEncryptedData(ssh, chunk)
             ends == r.error \/ \E i \in DOMAIN r.msgs : r.msgs[i].code = "DISCONNECT"
             early == r.s.exists /\ r.s.kex /\ r.s.authenticated /\ r.s.channels = <<>>
             show == IF ends THEN seen.shown ELSE Show(DataIn(r.msgs))
  <1>1. IF ends THEN closeConnection ELSE TRUE
    BY DEF sshData
  <1>2. ~ends
    BY <1>1
  <1>3. seen' = [seen EXCEPT !.shown = show, !.cut = @ \/ Cut(ssh, chunk),
                             !.early = @ \/ early, !.failed = @ \/ r.error]
    BY DEF sshData
  <1>4. show = Show(DataIn(r.msgs))
    BY <1>2
  <1> HIDE DEF show, early, r, chunk
  <1>5. seen'.shown = show /\ seen'.mixed = seen.mixed
    BY <1>3
  <1> QED
    BY <1>4, <1>5 DEF r, chunk

\* What the server answers holds no data.
LEMMA AnswersHoldNone ==
  ASSUME Typed, NEW p, NEW codes \in Answers(p)
  PROVE  DataIn(codes) = <<>>
PROOF
  <1> DEFINE k == [code |-> "KEXINIT", x |-> srv.method]
             Plainly == {"GEX_GROUP", "GEX_REPLY", "NEWKEYS", "SERVICE_ACCEPT", "USERAUTH_FAILURE",
                         "USERAUTH_INFO_REQUEST", "USERAUTH_SUCCESS", "OPEN_CONFIRMATION", "CHANNEL_SUCCESS"}
  <1>1. srv.method \in Values
    BY DEF Typed, Servers, Values
  <1>2. k \in Commands /\ Bit(k) = <<>>
    BY <1>1, CodeTyped DEF HostCodes, Bit, Pieces
  <1>3. \A c \in Plainly : Code(c) \in Commands /\ Bit(Code(c)) = <<>>
    BY CodeTyped DEF Code, HostCodes, Bit, Pieces
  <1>4. \/ codes = <<>> \/ codes = <<k>>
        \/ \E c \in Plainly : codes = <<Code(c)>>
        \/ \E c, d \in Plainly : codes = <<Code(c), Code(d)>>
    BY DEF Answers
  <1>5. \A a \in Commands : a \in Parcels
    BY DEF Parcels, Messages, Commands
  <1> HIDE DEF k, Plainly
  <1>6. \A a \in Commands : Bit(a) = <<>> => DataIn(<<a>>) = <<>>
    BY <1>5, BitIs
  <1>7. \A a, b \in Commands : Bit(a) = <<>> /\ Bit(b) = <<>> => DataIn(<<a, b>>) = <<>>
    <2> SUFFICES ASSUME NEW a \in Commands, NEW b \in Commands, Bit(a) = <<>>, Bit(b) = <<>>
                 PROVE  DataIn(<<a, b>>) = <<>>
      OBVIOUS
    <2>1. DataIn(<<a, b>>) = Bit(a) \o Bit(b)
      BY <1>5, TwoBits
    <2>2. <<>> \o <<>> = <<>>
      OBVIOUS
    <2> QED
      BY <2>1, <2>2
  <1> QED
    BY <1>2, <1>3, <1>4, <1>6, <1>7, DataInNone

Underway(s, st, sv) == UnitData(KeptBack(s) \o st) \o DataIn(sv.held)
SoFar(n) == [i \in 1 .. n |-> i]
Everything(sh, buf, s, st, sv) == (sh \o FlattenSeq(buf)) \o Underway(s, st, sv)

LEMMA ArrivingIs == Arriving = Underway(ssh, stream, srv) /\ Arriving' = Underway(ssh', stream', srv')
  BY DEF Arriving, Underway, KeptBack, UnitData, Lasts, Completed

LEMMA SoFarMore ==
  ASSUME NEW n \in Nat
  PROVE  SoFar(n) \in Seq(Values) /\ SoFar(n) \o <<n + 1>> = SoFar(n + 1)
PROOF
  <1> DEFINE a == SoFar(n)
             b == SoFar(n + 1)
             x == n + 1
  <1>1. /\ a \in Seq(Values) /\ Len(a) = n /\ \A i \in 1 .. n : a[i] = i
        /\ b \in Seq(Values) /\ Len(b) = n + 1 /\ \A i \in 1 .. n + 1 : b[i] = i
        /\ x \in Values /\ x = n + 1 /\ n + 1 \in Nat
    BY DEF SoFar, Values
  <1> HIDE DEF a, b, x
  <1>2. a \o <<x>> = Append(a, x) /\ Append(a, x) \in Seq(Values) /\ Len(Append(a, x)) = n + 1
        /\ \A i \in 1 .. n + 1 : Append(a, x)[i] = i
    BY <1>1
  <1>3. Len(Append(a, x)) = Len(b) /\ \A i \in 1 .. Len(Append(a, x)) : Append(a, x)[i] = b[i]
    BY <1>1, <1>2
  <1>4. Append(a, x) = b
    BY <1>1, <1>2, <1>3, SameSequence
  <1> QED
    BY <1>1, <1>2, <1>4 DEF a, b, x

LEMMA Regroup ==
  ASSUME NEW x \in Seq(Values), NEW b \in Seq(Values), NEW d \in Seq(Values), NEW w \in Seq(Values)
  PROVE  /\ ((x \o d) \o <<>>) \o w = (x \o <<>>) \o (d \o w)
         /\ ((x \o b) \o <<>>) \o w = (x \o b) \o w
         /\ x \o d \in Seq(Values) /\ x \o b \in Seq(Values) /\ d \o w \in Seq(Values)
PROOF
  <1>1. x \o d \in Seq(Values) /\ x \o b \in Seq(Values) /\ d \o w \in Seq(Values)
    BY JoinedInThree
  <1>2. (x \o d) \o <<>> = x \o d /\ x \o <<>> = x /\ (x \o b) \o <<>> = x \o b
    BY <1>1, NothingBehind
  <1>3. (x \o d) \o w = x \o (d \o w)
    BY JoinedInThree
  <1> QED
    BY <1>1, <1>2, <1>3

LEMMA UnderwayTyped ==
  ASSUME NEW s, IsSsh(s), NEW st \in Seq(HostUnits), NEW sv \in Servers
  PROVE  /\ Underway(s, st, sv) \in Seq(Values) /\ KeptBack(s) \in Seq(HostUnits)
         /\ UnitData(KeptBack(s) \o st) \in Seq(Values) /\ DataIn(sv.held) \in Seq(Values)
PROOF
  <1> DEFINE inc == KeptBack(s)
  <1>1. inc \in Seq(HostUnits)
    BY SessionFacts DEF IsSsh
  <1> HIDE DEF inc
  <1>2. inc \o st \in Seq(HostUnits) /\ sv.held \in Seq(Commands)
    BY <1>1 DEF Servers
  <1>3. UnitData(inc \o st) \in Seq(Values) /\ DataIn(sv.held) \in Seq(Values)
    BY <1>2, LastsFacts, CommandParcels, ParcelsTyped
  <1>4. UnitData(inc \o st) \o DataIn(sv.held) \in Seq(Values)
    BY <1>3, JoinedInThree
  <1> QED
    BY <1>1, <1>3, <1>4 DEF Underway, inc

\* The host that answers or speaks adds its data at the end.
LEMMA SpeaksData ==
  ASSUME Good, OrderInv, cur = 1, socks[1] = "up", NEW sv \in Servers, sv.held = srv.held, sv.kex = srv.kex,
         NEW codes, \/ codes = <<>>
                    \/ \E a \in Commands : codes = <<a>>
                    \/ \E a, b \in Commands : codes = <<a, b>>
  PROVE  LET e == Emit(sv, stream, codes) IN
         Underway(ssh, e.stream, e.srv) = Underway(ssh, stream, srv) \o DataIn(codes)
PROOF
  <1> DEFINE e == Emit(sv, stream, codes)
             inc == KeptBack(ssh)
  <1>1. IsSsh(ssh) /\ stream \in Seq(HostUnits) /\ srv \in Servers
    BY GotTyped
  <1>2. inc \in Seq(HostUnits)
    BY <1>1, UnderwayTyped
  <1>3. HeldBack(srv)
    <2>1. CASE kind = "ssh"
      <3>1. Live
        BY <2>1 DEF Live
      <3> QED
        BY <3>1 DEF OrderInv, InStep, HostSide
    <2>2. CASE kind # "ssh"
      <3>1. srv.held = <<>>
        BY <2>2 DEF Good, Base, PlainServer
      <3> QED
        BY <3>1 DEF HeldBack
    <2> QED
      BY <2>1, <2>2
  <1>4. HeldBack(sv)
    BY <1>3 DEF HeldBack
  <1> HIDE DEF inc
  <1>5. Coming(inc, e) = (UnitData(inc \o stream) \o DataIn(sv.held)) \o DataIn(codes)
    BY <1>1, <1>2, <1>4, EmitData
  <1> HIDE DEF e
  <1>6. Underway(ssh, e.stream, e.srv) = (UnitData(inc \o stream) \o DataIn(sv.held)) \o DataIn(codes)
    BY <1>5 DEF Underway, Coming, OnTheWay, inc
  <1>7. Underway(ssh, stream, srv) = UnitData(inc \o stream) \o DataIn(sv.held)
    BY DEF Underway, inc
  <1> QED
    BY <1>6, <1>7 DEF e

\* A chunk over SSH: what it shows, with what is left, is what came.
LEMMA HearsData ==
  ASSUME Good, OrderInv, EarlyInv, Live, NEW n \in 1 .. Len(stream)
  PROVE  LET r == processEncryptedData(ssh, SubSeq(stream, 1, n))
             after == SubSeq(stream, n + 1, Len(stream)) IN
         r \in Results /\ ~r.error =>
           /\ DataIn(r.msgs) \in Seq(Values) /\ Underway(r.s, after, srv) \in Seq(Values)
           /\ DataIn(r.msgs) \o Underway(r.s, after, srv) = Underway(ssh, stream, srv)
PROOF
  <1> DEFINE r == processEncryptedData(ssh, SubSeq(stream, 1, n))
             after == SubSeq(stream, n + 1, Len(stream))
             held == DataIn(srv.held)
             d == DataIn(r.msgs)
             v == UnitData(KeptBack(r.s) \o after)
             w == UnitData(KeptBack(ssh) \o stream)
  <1> SUFFICES ASSUME r \in Results, ~r.error
               PROVE  /\ d \in Seq(Values) /\ Underway(r.s, after, srv) \in Seq(Values)
                      /\ d \o Underway(r.s, after, srv) = Underway(ssh, stream, srv)
    OBVIOUS
  <1>1. IsSsh(ssh) /\ stream \in Seq(HostUnits) /\ srv \in Servers
    BY GotTyped
  <1>2. n + 1 \in 1 .. Len(stream) + 1 /\ after \in Seq(HostUnits) /\ <<>> \o stream = stream /\ <<>> \o after = after
    BY <1>1
  <1>3. r.s \in Session /\ r.msgs \in Seq(Messages)
    BY DEF Results
  <1>4. IsSsh(r.s) /\ r.s.exists = TRUE /\ KeptBack(r.s) = r.s.incomplete
    BY <1>3, SessionFacts DEF IsSsh
  <1>5. d \in Seq(Values)
    <2>1. \A m \in Messages : m \in Parcels
      BY DEF Parcels
    <2>2. r.msgs \in Seq(Parcels)
      BY <1>3, <2>1
    <2> QED
      BY <2>2, ParcelsTyped
  <1>6. /\ Underway(r.s, after, srv) \in Seq(Values) /\ v \in Seq(Values) /\ held \in Seq(Values)
        /\ w \in Seq(Values)
    <2> HIDE DEF r, after
    <2>1. Underway(r.s, after, srv) \in Seq(Values) /\ UnitData(KeptBack(r.s) \o after) \in Seq(Values)
      BY <1>1, <1>2, <1>4, UnderwayTyped
    <2>2. UnitData(KeptBack(ssh) \o stream) \in Seq(Values) /\ DataIn(srv.held) \in Seq(Values)
      BY <1>1, UnderwayTyped
    <2> QED
      BY <2>1, <2>2
  <1>7. EarlyOn(ssh, stream, net, srv, asked)
    BY DEF EarlyInv
  <1>8. d \o v = w
    <2>1. CASE ssh = NoSession
      <3>1. r.s = NewSession /\ r.msgs = <<>>
        BY <2>1, FirstChunk
      <3>2. EarlyUnits(stream) /\ KeptBack(ssh) = <<>>
        BY <1>2, <1>7, <2>1, SessionFacts DEF EarlyOn, Ciphered
      <3> HIDE DEF r
      <3>3. EarlyUnits(after)
        BY <1>1, <1>2, <3>2, EarlyUnitsRest
      <3> HIDE DEF after
      <3>4. KeptBack(r.s) = <<>>
        BY <1>4, <3>1 DEF NewSession
      <3>5. UnitData(stream) = <<>> /\ UnitData(after) = <<>>
        BY <1>1, <1>2, <3>2, <3>3, EarlyShowsNothing
      <3>6. d = <<>> /\ <<>> \o <<>> = <<>>
        BY <3>1, DataInNone
      <3> QED
        BY <1>2, <3>2, <3>4, <3>5, <3>6
    <2>2. CASE ssh \in Session
      <3>1. ssh.exists = TRUE /\ KeptBack(ssh) = ssh.incomplete
        BY <2>2, SessionFacts
      <3>2. Whole(ssh.incomplete \o stream) /\ Ended(ssh.incomplete \o stream)
        BY <3>1 DEF OrderInv, InStep, HostSide
      <3>3. ~ssh.encrypted => Alone(ssh) /\ EarlyUnits(ssh.incomplete \o stream)
        BY <1>7, <3>1 DEF EarlyOn, Ciphered
      <3>4. Comes(r, r.s.incomplete \o after, UnitData(ssh.incomplete \o stream))
        BY <1>1, <2>2, <3>2, <3>3, ChunkComes
      <3> HIDE DEF r, after
      <3> QED
        BY <1>4, <3>1, <3>4 DEF Comes
    <2> QED
      BY <1>1, <2>1, <2>2 DEF IsSsh
  <1> HIDE DEF d, v, w, held, r, after
  <1>9. (d \o v) \o held = d \o (v \o held)
    BY <1>5, <1>6, JoinedInThree
  <1>10. Underway(r.s, after, srv) = v \o held /\ Underway(ssh, stream, srv) = w \o held
    BY DEF Underway, v, w, held
  <1> QED
    BY <1>5, <1>6, <1>8, <1>9, <1>10

\* The same outside SSH.
LEMMA PlainHears ==
  ASSUME Good, kind # "ssh", NEW n \in 1 .. Len(stream)
  PROVE  LET chunk == SubSeq(stream, 1, n)
             after == SubSeq(stream, n + 1, Len(stream)) IN
         /\ Numbers(chunk) \in Seq(Values) /\ Underway(ssh, after, srv) \in Seq(Values)
         /\ Numbers(chunk) \o Underway(ssh, after, srv) = Underway(ssh, stream, srv)
PROOF
  <1> DEFINE chunk == SubSeq(stream, 1, n)
             after == SubSeq(stream, n + 1, Len(stream))
             c == Numbers(chunk)
  <1>1. IsSsh(ssh) /\ stream \in Seq(HostUnits) /\ srv \in Servers
    BY GotTyped
  <1>2. ssh = NoSession /\ srv.held = <<>> /\ PlainUnits(stream)
    BY DEF Good, Base, PlainServer
  <1>3. after \in Seq(HostUnits) /\ UnitData(stream) = c \o UnitData(after) /\ c \in Seq(Values)
        /\ UnitData(after) \in Seq(Values)
    BY <1>1, <1>2, PlainParts
  <1> HIDE DEF c, after
  <1>4. KeptBack(ssh) = <<>> /\ <<>> \o stream = stream /\ <<>> \o after = after /\ DataIn(srv.held) = <<>>
    BY <1>1, <1>2, <1>3, SessionFacts, DataInNone
  <1>5. Underway(ssh, stream, srv) = UnitData(stream) \o <<>> /\ Underway(ssh, after, srv) = UnitData(after) \o <<>>
    BY <1>4 DEF Underway
  <1>6. UnitData(stream) \in Seq(Values)
    BY <1>1, LastsFacts
  <1>7. UnitData(stream) \o <<>> = UnitData(stream) /\ UnitData(after) \o <<>> = UnitData(after)
    BY <1>3, <1>6, NothingBehind
  <1> QED
    BY <1>3, <1>5, <1>7 DEF c, after

LEMMA RegroupShown ==
  \A x, d, w \in Seq(Values) :
    /\ Followed(Followed(Followed(x, d), <<>>), w) = Followed(Followed(x, <<>>), Followed(d, w))
    /\ Followed(x, d) \in Seq(Values)
PROOF
  <1> SUFFICES ASSUME NEW x \in Seq(Values), NEW d \in Seq(Values), NEW w \in Seq(Values)
               PROVE  x \o d \in Seq(Values) /\ ((x \o d) \o <<>>) \o w = (x \o <<>>) \o (d \o w)
    BY DEF Followed
  <1>1. <<>> \in Seq(Values)
    OBVIOUS
  <1> QED
    BY <1>1, Regroup

\* A piece that is held back stays part of everything.
LEMMA HoldsBack ==
  ASSUME NEW sh \in Seq(Values), NEW buf \in Seq(Seq(Values)), NEW d \in Seq(Values), NEW t,
         NEW s, NEW st, NEW sv, NEW s2, NEW st2, NEW sv2,
         Underway(s2, st2, sv2) \in Seq(Values),
         d \o Underway(s2, st2, sv2) = Underway(s, st, sv),
         Everything(sh, buf, s, st, sv) = t
  PROVE  Everything(sh, Append(buf, d), s2, st2, sv2) = t
PROOF
  <1> DEFINE w == Underway(s2, st2, sv2)
             b == FlattenSeq(buf)
  <1>1. FlattenSeq(Append(buf, d)) = b \o d /\ b \in Seq(Values)
    BY FlattenAppend
  <1>2. (sh \o b) \o (d \o w) = t
    BY DEF Everything
  <1>3. Everything(sh, Append(buf, d), s2, st2, sv2) = (sh \o (b \o d)) \o w
    BY <1>1 DEF Everything
  <1>4. w \in Seq(Values)
    OBVIOUS
  <1> HIDE DEF w, b
  <1>5. b \in Seq(Values)
    BY <1>1
  <1> DEFINE y == sh \o b
  <1>6. y \o d = sh \o (b \o d) /\ y \in Seq(Values)
    <2>1. /\ Followed(Followed(sh, b), d) = Followed(sh, Followed(b, d))
          /\ Followed(sh, b) \in Seq(Values)
      BY <1>5, FollowedThree
    <2> QED
      BY <2>1 DEF Followed
  <1> HIDE DEF y
  <1>7. (y \o d) \o w = y \o (d \o w)
    BY <1>4, <1>6, JoinedInThree
  <1> QED
    BY <1>2, <1>3, <1>6, <1>7 DEF y

Heard(sh, buf, aw, on, s, st, sv, n) ==
  /\ sh \in Seq(Values) /\ buf \in Seq(Seq(Values)) /\ (~aw => buf = <<>>)
  /\ on => Everything(sh, buf, s, st, sv) = SoFar(n)
Listening == conn /\ ws = "open"
\* What HostDataExactlyOnce rests on: what is shown, what is held back for the
\* prompt and what is under way make up, in this order, all the host has sent.
HeardInv ==
  cur = 1 /\ socks[1] = "up" /\ ~seen.mixed =>
    /\ Heard(seen.shown, buffered, awaiting, Listening, ssh, stream, srv, seen.data)
    /\ kind # "prompt" => ~awaiting

LEMMA NothingWaits ==
  ASSUME NEW sv, sv.held = <<>>, NEW st \in Seq(HostUnits), EarlyUnits(st), NEW aw, NEW on
  PROVE  Heard(<<>>, <<>>, aw, on, NoSession, st, sv, 0)
PROOF
  <1>1. KeptBack(NoSession) = <<>> /\ <<>> \o st = st /\ DataIn(sv.held) = <<>> /\ UnitData(st) = <<>>
    BY SessionFacts, DataInNone, EarlyShowsNothing
  <1>2. <<>> \in Seq(Values)
    OBVIOUS
  <1>3. <<>> \o <<>> = <<>>
    BY <1>2, NothingBehind
  <1>4. Everything(<<>>, <<>>, NoSession, st, sv) = <<>>
    BY <1>1, <1>3, FlattenNone DEF Everything, Underway
  <1>5. SoFar(0) = <<>>
    BY DEF SoFar
  <1> QED
    BY <1>2, <1>4, <1>5, FlattenNone DEF Heard

\* The connection has just been made.
LEMMA BeginsHeard ==
  ASSUME Good, EarlyInv', connectHandler(1), cur = 1, socks[1] = "connecting", socks'[1] = "up"
  PROVE  /\ Heard(seen'.shown, buffered', awaiting', Listening', ssh', stream', srv', seen'.data)
         /\ kind' # "prompt" => ~awaiting'
PROOF
  <1>1. Untouched /\ Typed
    BY DEF Good, Base, Unconnected
  <1>2. /\ ssh' = NoSession /\ seen' = seen /\ buffered' = <<>> /\ seen.shown = <<>> /\ seen.data = 0
        /\ srv = FreshServer /\ stream = <<>> /\ kind' = kind /\ cur' = cur
    BY <1>1 DEF connectHandler, Untouched, Blank
  <1>3. kind' # "prompt" => ~awaiting'
    BY <1>1, <1>2 DEF connectHandler, Untouched
  <1>4. srv'.held = <<>>
    <2>1. srv' = srv \/ \E eager \in BOOLEAN, method \in {"gex", "old"} :
            srv' = [srv EXCEPT !.kex = eager, !.sent = IF eager THEN 1 ELSE 0, !.method = method]
      BY DEF connectHandler
    <2>2. srv.held = <<>> /\ srv \in Servers
      BY <1>1, <1>2 DEF FreshServer, Typed
    <2> QED
      BY <2>1, <2>2 DEF Servers
  <1>5. stream' \in Seq(HostUnits)
    <2>1. 1 \in Sockets
      BY TerminalAssumption DEF Sockets
    <2> QED
      BY <1>1, <2>1, GreetingTyped
  <1>6. EarlyUnits(stream')
    <2>1. CASE kind = "ssh"
      <3>1. Live'
        BY <1>2, <2>1 DEF Live
      <3>2. EarlyOn(NoSession, stream', net', srv', asked')
        BY <1>2, <3>1 DEF EarlyInv
      <3>3. EarlyUnits(KeptBack(NoSession) \o stream')
        BY <3>2, SessionFacts DEF EarlyOn, Ciphered
      <3>4. KeptBack(NoSession) = <<>> /\ <<>> \o stream' = stream'
        BY <1>5, SessionFacts
      <3> QED
        BY <3>3, <3>4
    <2>2. CASE kind # "ssh"
      <3>1. stream' = <<>>
        BY <1>2, <2>2 DEF connectHandler
      <3> QED
        BY <3>1 DEF EarlyUnits
    <2> QED
      BY <2>1, <2>2
  <1>7. Heard(<<>>, <<>>, awaiting', Listening', NoSession, stream', srv', 0)
    BY <1>4, <1>5, <1>6, NothingWaits
  <1> QED
    BY <1>2, <1>3, <1>7

\* A chunk over SSH.
LEMMA SshHeard ==
  ASSUME Good, OrderInv, EarlyInv, Live, NEW n \in 1 .. Len(stream), sshData(SubSeq(stream, 1, n)),
         ~closeConnection, ~awaiting,
         Heard(seen.shown, buffered, awaiting, Listening, ssh, stream, srv, seen.data)
  PROVE  Heard(seen'.shown, buffered', awaiting', Listening', ssh', stream', srv', seen'.data)
PROOF
  <1> DEFINE r == processEncryptedData(ssh, SubSeq(stream, 1, n))
             after == SubSeq(stream, n + 1, Len(stream))
             d == DataIn(r.msgs)
             w == Underway(r.s, after, srv)
             x == seen.shown
  <1>1. /\ r \in Results /\ ssh' = r.s /\ ~r.error /\ stream' = after
        /\ UNCHANGED <<conn, ws, awaiting, buffered, srv>> /\ seen'.data = seen.data
    BY GotTyped, SshDataOutcome
  <1>2. seen'.shown = Show(d)
    BY SshShows DEF Good, Base
  <1>3. d \in Seq(Values) /\ w \in Seq(Values) /\ d \o w = Underway(ssh, stream, srv)
    BY <1>1, HearsData
  <1> HIDE DEF d, w, r, after
  <1>4. x \in Seq(Values) /\ buffered = <<>>
    BY DEF Heard
  <1>5. x \o d \in Seq(Values) /\ ((x \o d) \o <<>>) \o w = (x \o <<>>) \o (d \o w)
    <2> HIDE DEF x
    <2>1. /\ Followed(Followed(Followed(x, d), <<>>), w) = Followed(Followed(x, <<>>), Followed(d, w))
          /\ Followed(x, d) \in Seq(Values)
      BY <1>3, <1>4, RegroupShown
    <2> QED
      BY <2>1 DEF Followed
  <1>6. Listening' = Listening
    BY <1>1 DEF Listening
  <1>7. seen'.shown \in Seq(Values) /\ (Listening => seen'.shown = x \o d)
    BY <1>2, <1>4, <1>5 DEF Show, Listening
  <1>8. Listening => Everything(seen'.shown, <<>>, ssh', stream', srv') = SoFar(seen.data)
    <2> SUFFICES ASSUME Listening
                 PROVE  Everything(seen'.shown, <<>>, ssh', stream', srv') = SoFar(seen.data)
      OBVIOUS
    <2>1. (x \o <<>>) \o (d \o w) = SoFar(seen.data)
      BY <1>3, <1>4, FlattenNone DEF Heard, Everything
    <2>2. Underway(ssh', stream', srv') = w
      BY <1>1 DEF w
    <2>3. Everything(seen'.shown, <<>>, ssh', stream', srv') = ((x \o d) \o <<>>) \o w
      BY <1>7, <2>2, FlattenNone DEF Everything
    <2> QED
      BY <1>5, <2>1, <2>3
  <1> QED
    BY <1>1, <1>4, <1>6, <1>7, <1>8, FlattenNone DEF Heard

\* One connection made on one socket adds its listeners once.
LEMMA ListensOnce ==
  ASSUME Counters, cur = 1, listeners[1] > 0
  PROVE  listeners[1] = 1
PROOF
  <1>1. 1 \in Sockets /\ listeners[1] \in Nat /\ listeners[1] <= Count(socks)
    BY TerminalAssumption DEF Counters, Sockets
  <1>2. Past(socks) \subseteq {1}
    BY DEF Past, Counters, Sockets
  <1>3. IsFiniteSet({1}) /\ Cardinality({1}) = 1
    BY FS_Singleton
  <1>4. Cardinality(Past(socks)) <= Cardinality({1})
    BY <1>2, <1>3, FS_Subset
  <1>5. Count(socks) \in Nat
    BY CountFacts
  <1> QED
    BY <1>1, <1>3, <1>4, <1>5 DEF Count

\* A chunk outside SSH: shown, or held back for the prompt.
LEMMA PlainHeard ==
  ASSUME Good, kind # "ssh", cur = 1, NEW n \in 1 .. Len(stream), handleData(n),
         Heard(seen.shown, buffered, awaiting, Listening, ssh, stream, srv, seen.data)
  PROVE  Heard(seen'.shown, buffered', awaiting', Listening', ssh', stream', srv', seen'.data)
PROOF
  <1> DEFINE chunk == SubSeq(stream, 1, n)
             after == SubSeq(stream, n + 1, Len(stream))
             d == Numbers(chunk)
             w == Underway(ssh, after, srv)
             x == seen.shown
             b == FlattenSeq(buffered)
             copies == FlattenSeq([i \in 1 .. listeners[1] |-> d])
  <1>1. /\ UNCHANGED <<conn, ws, awaiting, ssh, srv>> /\ stream' = after
        /\ IF awaiting THEN buffered' = buffered \o [i \in 1 .. listeners[1] |-> d] /\ seen' = seen
           ELSE seen' = [seen EXCEPT !.shown = Show(copies)] /\ buffered' = buffered
    BY DEF handleData
  <1>2. d \in Seq(Values) /\ w \in Seq(Values) /\ d \o w = Underway(ssh, stream, srv)
    BY PlainHears
  <1>3. listeners[1] = 1
    BY ListensOnce DEF Good, handleData
  <1>4. SeenFields \subseteq DOMAIN seen
    BY GotTyped
  <1> HIDE DEF d, w, chunk, after
  <1>5. [i \in 1 .. listeners[1] |-> d] = <<d>> /\ copies = d
    BY <1>2, <1>3, OneCopy
  <1>6. x \in Seq(Values) /\ buffered \in Seq(Seq(Values)) /\ (~awaiting => buffered = <<>>)
    BY DEF Heard
  <1>7. /\ Append(buffered, d) \in Seq(Seq(Values)) /\ FlattenSeq(Append(buffered, d)) = b \o d
        /\ b \in Seq(Values) /\ buffered \o <<d>> = Append(buffered, d)
    BY <1>2, <1>6, FlattenAppend, OneCopy
  <1> HIDE DEF copies
  <1>8. Listening' = Listening
    BY <1>1 DEF Listening
  <1>9. Underway(ssh', stream', srv') = w
    BY <1>1 DEF w
  <1>10. Listening => (x \o b) \o (d \o w) = SoFar(seen.data)
    BY <1>2 DEF Heard, Everything, x, b
  <1>11. CASE awaiting
    <2>1. buffered' = Append(buffered, d) /\ seen' = seen
      BY <1>1, <1>5, <1>7, <1>11
    <2>2. Listening => Everything(x, Append(buffered, d), ssh, after, srv) = SoFar(seen.data)
      <3> SUFFICES ASSUME Listening
                   PROVE  Everything(x, Append(buffered, d), ssh, after, srv) = SoFar(seen.data)
        OBVIOUS
      <3>1. Everything(x, buffered, ssh, stream, srv) = SoFar(seen.data)
        BY DEF Heard
      <3>2. Underway(ssh, after, srv) \in Seq(Values) /\ d \o Underway(ssh, after, srv) = Underway(ssh, stream, srv)
        BY <1>2 DEF w
      <3>3. x \in Seq(Values) /\ buffered \in Seq(Seq(Values)) /\ d \in Seq(Values)
        BY <1>2, <1>6
      <3> HIDE DEF x
      <3> QED
        BY <3>1, <3>2, <3>3, HoldsBack
    <2>3. Listening => Everything(seen'.shown, buffered', ssh', stream', srv') = SoFar(seen.data)
      BY <1>1, <2>1, <2>2
    <2> QED
      BY <1>1, <1>6, <1>7, <1>8, <1>11, <2>1, <2>3 DEF Heard
  <1>12. CASE ~awaiting
    <2>1. seen' = [seen EXCEPT !.shown = Show(copies)] /\ buffered' = <<>> /\ buffered = <<>>
      BY <1>1, <1>6, <1>12
    <2>2. seen'.shown = Show(d) /\ seen'.data = seen.data
      BY <1>4, <1>5, <2>1 DEF SeenFields
    <2>3. x \o d \in Seq(Values) /\ ((x \o d) \o <<>>) \o w = (x \o <<>>) \o (d \o w)
      <3> HIDE DEF x
      <3>1. /\ Followed(Followed(Followed(x, d), <<>>), w) = Followed(Followed(x, <<>>), Followed(d, w))
            /\ Followed(x, d) \in Seq(Values)
        BY <1>2, <1>6, RegroupShown
      <3> QED
        BY <3>1 DEF Followed
    <2>4. seen'.shown \in Seq(Values) /\ (Listening => seen'.shown = x \o d)
      BY <1>6, <2>2, <2>3 DEF Show, Listening
    <2>5. b = <<>>
      BY <2>1, FlattenNone
    <2>6. Listening => Everything(seen'.shown, <<>>, ssh', stream', srv') = SoFar(seen.data)
      BY <1>9, <1>10, <2>3, <2>4, <2>5, FlattenNone DEF Everything
    <2> QED
      BY <1>1, <1>8, <2>1, <2>2, <2>4, <2>6, FlattenNone DEF Heard
  <1> QED
    BY <1>11, <1>12

\* What the user sees is what the host showed: an accepted certificate shows
\* what was held back, when that is one piece at most.
LEMMA CertificateHeard ==
  ASSUME Good, NEW fingerprint \in BOOLEAN, NEW accept \in BOOLEAN, certificateAnswer(fingerprint, accept),
         ~seen'.mixed,
         Heard(seen.shown, buffered, awaiting, Listening, ssh, stream, srv, seen.data)
  PROVE  Heard(seen'.shown, buffered', awaiting', Listening', ssh', stream', srv', seen'.data)
PROOF
  <1> DEFINE x == seen.shown
             b == FlattenSeq(buffered)
             w == Underway(ssh, stream, srv)
             late == FlattenSeq(Reverse(buffered))
             show == IF accept THEN Show(late) ELSE seen.shown
  <1>1. /\ UNCHANGED <<conn, ws, ssh, stream, srv>> /\ conn
        /\ IF fingerprint THEN buffered' = buffered /\ awaiting' = awaiting /\ seen' = seen
           ELSE /\ buffered' = <<>> /\ awaiting' = ~accept
                /\ seen' = [seen EXCEPT !.shown = show,
                                        !.mixed = @ \/ Len(buffered) > IF accept THEN 1 ELSE 0]
    BY DEF certificateAnswer, Idle, Takes
  <1>2. SeenFields \subseteq DOMAIN seen
    BY GotTyped
  <1>3. Listening' = Listening
    BY <1>1 DEF Listening
  <1>4. CASE fingerprint
    BY <1>1, <1>3, <1>4
  <1>5. CASE ~fingerprint
    <2>1. x \in Seq(Values) /\ buffered \in Seq(Seq(Values))
      BY DEF Heard
    <2> HIDE DEF show
    <2>2. /\ seen'.shown = show /\ seen'.data = seen.data
          /\ seen'.mixed = (seen.mixed \/ Len(buffered) > IF accept THEN 1 ELSE 0)
      BY <1>1, <1>2, <1>5 DEF SeenFields
    <2>3. ~(Len(buffered) > IF accept THEN 1 ELSE 0)
      BY <2>2
    <2>4. w \in Seq(Values)
      BY GotTyped, UnderwayTyped
    <2>5. Len(buffered) \in Nat
      BY <2>1
    <2>6. ~(Len(buffered) > 1)
      BY <2>3, <2>5
    <2>7. late = b /\ b \in Seq(Values)
      BY <2>1, <2>6, FlattenOne
    <2>8. Listening => (x \o b) \o w = SoFar(seen.data)
      BY DEF Heard, Everything
    <2> HIDE DEF late, b, w
    <2>9. x \o b \in Seq(Values) /\ ((x \o b) \o <<>>) \o w = (x \o b) \o w /\ x \o <<>> = x
      <3> HIDE DEF x
      <3> QED
        BY <2>1, <2>4, <2>7, Regroup, NothingBehind
    <2>10. ~accept => b = <<>>
      <3>1. ~accept => Len(buffered) = 0
        BY <2>3, <2>5
      <3>2. ~accept => buffered = <<>>
        BY <2>1, <3>1
      <3> QED
        BY <3>2, FlattenNone DEF b
    <2>11. show \in Seq(Values) /\ (Listening => show = x \o b)
      BY <2>1, <2>7, <2>9, <2>10 DEF Show, Listening, show
    <2>12. Listening => Everything(show, <<>>, ssh, stream, srv) = SoFar(seen.data)
      BY <2>8, <2>9, <2>11, FlattenNone DEF Everything, w
    <2> QED
      BY <1>1, <1>3, <1>5, <2>2, <2>11, <2>12, FlattenNone DEF Heard
  <1> QED
    BY <1>4, <1>5

\* The host has sent one more piece.
LEMMA SendsHeard ==
  ASSUME Good, OrderInv, cur = 1, socks[1] = "up", hostSends,
         Heard(seen.shown, buffered, awaiting, Listening, ssh, stream, srv, seen.data)
  PROVE  Heard(seen'.shown, buffered', awaiting', Listening', ssh', stream', srv', seen'.data)
PROOF
  <1> DEFINE n == seen.data
             x == seen.shown \o FlattenSeq(buffered)
             w == Underway(ssh, stream, srv)
             a == [code |-> "CHANNEL_DATA", x |-> n + 1]
             codes == <<a>>
             e == Emit(srv, stream, codes)
  <1>1. /\ srv' = e.srv /\ stream' = e.stream /\ UNCHANGED <<conn, ws, awaiting, buffered, ssh>>
        /\ seen' = [seen EXCEPT !.data = @ + 1]
    BY DEF hostSends, ServerSpeaks
  <1>2. /\ SeenFields \subseteq DOMAIN seen /\ n \in Nat /\ srv \in Servers /\ IsSsh(ssh)
        /\ stream \in Seq(HostUnits)
    BY GotTyped DEF Typed, IsHistory
  <1>3. seen'.shown = seen.shown /\ seen'.data = n + 1
    BY <1>1, <1>2 DEF SeenFields
  <1>4. a \in Commands /\ DataIn(codes) = <<n + 1>> /\ n + 1 \in Values
    <2>1. n + 1 \in Values /\ "CHANNEL_DATA" \in HostCodes
      BY <1>2 DEF Values, HostCodes
    <2>2. a \in Commands /\ Bit(a) = <<n + 1>>
      BY <2>1, CodeTyped DEF Bit, Pieces
    <2> HIDE DEF a
    <2>3. a \in Parcels
      BY <2>2 DEF Parcels, Messages, Commands
    <2> QED
      BY <2>1, <2>2, <2>3, BitIs
  <1> HIDE DEF a
  <1>5. Underway(ssh, e.stream, e.srv) = w \o DataIn(codes)
    BY <1>2, <1>4, SpeaksData
  <1> HIDE DEF codes, e
  <1>6. seen.shown \in Seq(Values) /\ FlattenSeq(buffered) \in Seq(Values) /\ w \in Seq(Values)
    <2>1. seen.shown \in Seq(Values) /\ buffered \in Seq(Seq(Values))
      BY DEF Heard
    <2> QED
      BY <1>2, <2>1, FlattenTyped, UnderwayTyped
  <1>7. x \in Seq(Values)
    BY <1>6, JoinedInThree
  <1>8. Listening => x \o w = SoFar(n)
    BY DEF Heard, Everything
  <1>9. Underway(ssh', stream', srv') = w \o <<n + 1>>
    BY <1>1, <1>4, <1>5
  <1>10. Everything(seen'.shown, buffered', ssh', stream', srv') = x \o (w \o <<n + 1>>)
    BY <1>1, <1>3, <1>9 DEF Everything
  <1> DEFINE more == <<n + 1>>
  <1>11. more \in Seq(Values)
    BY <1>4
  <1> HIDE DEF x, w, n
  <1>12. (x \o w) \o more = x \o (w \o more)
    <2> HIDE DEF more
    <2>1. Followed(Followed(x, w), more) = Followed(x, Followed(w, more))
      BY <1>6, <1>7, <1>11, FollowedThree
    <2> QED
      BY <2>1 DEF Followed
  <1>13. SoFar(n) \o <<n + 1>> = SoFar(n + 1)
    BY <1>2, SoFarMore
  <1>14. Listening => Everything(seen'.shown, buffered', ssh', stream', srv') = SoFar(n + 1)
    BY <1>8, <1>10, <1>12, <1>13
  <1>15. Listening' = Listening
    BY <1>1 DEF Listening
  <1> QED
    BY <1>1, <1>3, <1>14, <1>15 DEF Heard

LEMMA SameHeard ==
  ASSUME Heard(seen.shown, buffered, awaiting, Listening, ssh, stream, srv, seen.data),
         seen'.shown = seen.shown, seen'.data = seen.data, UNCHANGED <<buffered, awaiting, conn, ws>>,
         Underway(ssh', stream', srv') = Underway(ssh, stream, srv)
  PROVE  Heard(seen'.shown, buffered', awaiting', Listening', ssh', stream', srv', seen'.data)
PROOF
  <1>1. Listening' = Listening
    BY DEF Listening
  <1> QED
    BY <1>1 DEF Heard, Everything

\* What is sent to the host leaves what comes from it as it was.
LEMMA SendKeepsComing ==
  ASSUME Typed, SshReady, NEW code \in UserCodes, NEW x \in Values, sendToHost(code, x),
         UNCHANGED <<stream, srv>>
  PROVE  Underway(ssh', stream', srv') = Underway(ssh, stream, srv)
PROOF
  <1> DEFINE r == sendSSHData(ssh, code, x)
  <1>1. ssh \in Session /\ ssh' = r.s
    BY SshExists DEF SshReady, sendToHost, Typed
  <1>2. r \in Results /\ SameReading(r.s, ssh)
    BY <1>1, SendIsOne
  <1> HIDE DEF r
  <1>3. ssh.exists = TRUE /\ r.s.exists = TRUE
    BY <1>1, <1>2 DEF Results, Session
  <1>4. KeptBack(ssh') = KeptBack(ssh)
    BY <1>1, <1>2, <1>3 DEF KeptBack, SameReading
  <1> QED
    BY <1>4 DEF Underway

\* An answer of the server, or what it says of itself, holds no data.
LEMMA QuietHeard ==
  ASSUME Good, OrderInv, cur = 1, socks[1] = "up", NEW sv \in Servers, sv.held = srv.held, sv.kex = srv.kex,
         NEW codes, DataIn(codes) = <<>>,
         \/ codes = <<>>
         \/ \E a \in Commands : codes = <<a>>
         \/ \E a, b \in Commands : codes = <<a, b>>
  PROVE  LET e == Emit(sv, stream, codes) IN
         Underway(ssh, e.stream, e.srv) = Underway(ssh, stream, srv)
PROOF
  <1> DEFINE e == Emit(sv, stream, codes)
             w == Underway(ssh, stream, srv)
  <1>1. Underway(ssh, e.stream, e.srv) = w \o DataIn(codes)
    BY SpeaksData
  <1>2. w \in Seq(Values)
    BY GotTyped, UnderwayTyped
  <1> HIDE DEF e, w
  <1>3. w \o <<>> = w
    BY <1>2, NothingBehind
  <1> QED
    BY <1>1, <1>3 DEF e, w

\* The SSH server reads a packet.
LEMMA ReadsHeard ==
  ASSUME Good, OrderInv, serverReads, cur = 1, socks[1] = "up",
         Heard(seen.shown, buffered, awaiting, Listening, ssh, stream, srv, seen.data)
  PROVE  Heard(seen'.shown, buffered', awaiting', Listening', ssh', stream', srv', seen'.data)
PROOF
  <1> DEFINE p == Head(net)
             read == ReadBy(p)
  <1>0. Typed
    BY DEF Good
  <1>1. /\ p \in ClientPackets /\ ssh' = ssh /\ seen' = seen
        /\ UNCHANGED <<buffered, awaiting, conn, ws>>
    BY <1>0, ServerReadsOutcome DEF client
  <1>2. PICK answer \in Answers(p) :
          LET e == Emit(Greets(read, answer), stream, answer) IN
          e \in Emissions /\ srv' = e.srv /\ stream' = e.stream
    BY <1>0, ServerReadsOutcome
  <1> DEFINE sv == Greets(read, answer)
             e == Emit(sv, stream, answer)
  <1>3. read \in Servers /\ read.held = srv.held /\ read.kex = srv.kex
    BY <1>0, <1>1, ReadByFacts
  <1> HIDE DEF read, p
  <1>4. sv \in Servers /\ sv.held = srv.held /\ sv.kex = srv.kex
    BY <1>3, GreetsFacts
  <1>5. srv' = e.srv /\ stream' = e.stream
    BY <1>2
  <1> HIDE DEF sv
  <1>6. DataIn(answer) = <<>>
    BY <1>0, <1>2, AnswersHoldNone
  <1>7. \/ answer = <<>>
        \/ \E a \in Commands : answer = <<a>>
        \/ \E a, b \in Commands : answer = <<a, b>>
    BY <1>0, <1>2, AnswersTyped
  <1>8. Underway(ssh, e.stream, e.srv) = Underway(ssh, stream, srv)
    BY <1>4, <1>6, <1>7, QuietHeard
  <1> HIDE DEF e
  <1>9. Underway(ssh', stream', srv') = Underway(ssh, stream, srv)
    BY <1>1, <1>5, <1>8
  <1> QED
    BY <1>1, <1>9, SameHeard

\* The server starts a key exchange, or says it ends.
LEMMA AnnouncesHeard ==
  ASSUME Good, OrderInv, cur = 1, socks[1] = "up", serverRekeys \/ serverDisconnects,
         Heard(seen.shown, buffered, awaiting, Listening, ssh, stream, srv, seen.data)
  PROVE  Heard(seen'.shown, buffered', awaiting', Listening', ssh', stream', srv', seen'.data)
PROOF
  <1>1. srv \in Servers
    BY GotTyped
  <1>2. \E sv \in Servers, code \in {"KEXINIT", "DISCONNECT"}, x \in Values :
           sv.held = srv.held /\ sv.kex = srv.kex /\ ServerSpeaks(sv, code, x) /\ seen' = seen
    <2>1. CASE serverRekeys
      <3> DEFINE sv == [srv EXCEPT !.rekeys = @ + 1]
      <3>1. ServerSpeaks(sv, "KEXINIT", srv.method) /\ seen' = seen
        BY <2>1 DEF serverRekeys
      <3>2. sv \in Servers /\ sv.held = srv.held /\ sv.kex = srv.kex
        <4> DEFINE more == srv.rekeys + 1
        <4>1. more \in Nat /\ sv = [srv EXCEPT !.rekeys = more]
          BY <1>1 DEF Servers
        <4> HIDE DEF more
        <4>2. LET t == [srv EXCEPT !.rekeys = more] IN t \in Servers /\ t.held = srv.held /\ t.kex = srv.kex
          BY <1>1, <4>1 DEF Servers
        <4> QED
          BY <4>1, <4>2
      <3>3. srv.method \in Values
        BY <1>1 DEF Servers, Values
      <3> HIDE DEF sv
      <3> QED
        BY <3>1, <3>2, <3>3
    <2>2. CASE serverDisconnects
      <3> DEFINE sv == [srv EXCEPT !.over = TRUE]
      <3>1. ServerSpeaks(sv, "DISCONNECT", 0) /\ seen' = seen
        BY <2>2 DEF serverDisconnects
      <3>2. sv \in Servers /\ sv.held = srv.held /\ sv.kex = srv.kex /\ 0 \in Values
        BY <1>1 DEF Servers, Values
      <3> HIDE DEF sv
      <3> QED
        BY <3>1, <3>2
    <2> QED
      BY <2>1, <2>2
  <1>3. PICK sv \in Servers, code \in {"KEXINIT", "DISCONNECT"}, x \in Values :
           sv.held = srv.held /\ sv.kex = srv.kex /\ ServerSpeaks(sv, code, x) /\ seen' = seen
    BY <1>2
  <1> DEFINE a == [code |-> code, x |-> x]
             codes == <<a>>
             e == Emit(sv, stream, codes)
  <1>4. /\ srv' = e.srv /\ stream' = e.stream /\ ssh' = ssh
        /\ UNCHANGED <<buffered, awaiting, conn, ws>>
    BY <1>3 DEF ServerSpeaks
  <1>5. a \in Commands /\ Bit(a) = <<>>
    BY <1>3, CodeTyped DEF HostCodes, Bit, Pieces
  <1> HIDE DEF a
  <1>6. DataIn(codes) = <<>>
    <2>1. a \in Parcels
      BY <1>5 DEF Parcels, Messages, Commands
    <2> QED
      BY <1>5, <2>1, BitIs
  <1>7. \E b \in Commands : codes = <<b>>
    BY <1>5
  <1> HIDE DEF codes
  <1>8. Underway(ssh, e.stream, e.srv) = Underway(ssh, stream, srv)
    BY <1>3, <1>6, <1>7, QuietHeard
  <1> HIDE DEF e
  <1>9. Underway(ssh', stream', srv') = Underway(ssh, stream, srv)
    BY <1>4, <1>8
  <1> QED
    BY <1>3, <1>4, <1>9, SameHeard

LEMMA NextHeard == Good /\ OrderInv /\ EarlyInv /\ HeardInv /\ [Next]_vars => HeardInv'
PROOF
  <1> SUFFICES ASSUME Good, OrderInv, EarlyInv, HeardInv, [Next]_vars,
                      cur' = 1, socks'[1] = "up", ~seen'.mixed
               PROVE  /\ Heard(seen'.shown, buffered', awaiting', Listening', ssh', stream', srv', seen'.data)
                      /\ kind' # "prompt" => ~awaiting'
    BY DEF HeardInv
  <1>0. Typed /\ SeenFields \subseteq DOMAIN seen
    BY GotTyped
  <1>1. CASE connectHandler(1) /\ cur = 1 /\ socks[1] = "connecting"
    <2>1. EarlyInv'
      BY NextEarly
    <2> QED
      BY <1>1, <2>1, BeginsHeard
  <1> SUFFICES ASSUME cur = 1, socks[1] = "up", kind' = kind,
                 \/ \E n \in 1 .. Len(stream) : handleData(n) /\ ~closeConnection
                 \/ \E fingerprint, accept \in BOOLEAN : certificateAnswer(fingerprint, accept)
                 \/ clientData \/ authenticationAnswer \/ \E x \in {0, 1} : channelRequest(x)
                 \/ serverReads \/ hostReads \/ hostSends \/ serverRekeys \/ serverDisconnects
                 \/ UNCHANGED <<ssh, asked, net, stream, srv, seen, awaiting, buffered, conn, ws, listeners>>
               PROVE  /\ Heard(seen'.shown, buffered', awaiting', Listening', ssh', stream', srv', seen'.data)
                      /\ kind' # "prompt" => ~awaiting'
    BY <1>1, UpSteps
  <1> DEFINE Told == Heard(seen.shown, buffered, awaiting, Listening, ssh, stream, srv, seen.data)
             Tells == Heard(seen'.shown, buffered', awaiting', Listening', ssh', stream', srv', seen'.data)
  <1>2. ~seen.mixed => Told /\ (kind # "prompt" => ~awaiting)
    BY DEF HeardInv
  <1>3. ASSUME NEW n \in 1 .. Len(stream), handleData(n), ~closeConnection
        PROVE  Tells /\ (kind # "prompt" => ~awaiting')
    <2>1. CASE kind = "ssh"
      <3>1. sshData(SubSeq(stream, 1, n)) /\ Live
        BY <1>3, <2>1 DEF handleData, Live
      <3>2. seen'.mixed = seen.mixed
        BY <1>3, <3>1, SshShows DEF Good, Base
      <3>3. Told /\ ~awaiting
        BY <1>2, <2>1, <3>2
      <3>4. awaiting' = awaiting
        BY <3>1 DEF sshData
      <3> QED
        BY <1>3, <3>1, <3>3, <3>4, SshHeard
    <2>2. CASE kind # "ssh"
      <3>1. awaiting' = awaiting /\ (seen' = seen \/ \E d : seen' = [seen EXCEPT !.shown = d])
        BY <1>3, <2>2 DEF handleData
      <3>2. seen'.mixed = seen.mixed
        BY <1>0, <3>1 DEF SeenFields
      <3>3. Told
        BY <1>2, <3>2
      <3> QED
        BY <1>2, <1>3, <2>2, <3>1, <3>2, <3>3, PlainHeard
    <2> QED
      BY <2>1, <2>2
  <1>4. ASSUME NEW fingerprint \in BOOLEAN, NEW accept \in BOOLEAN, certificateAnswer(fingerprint, accept)
        PROVE  Tells /\ (kind # "prompt" => ~awaiting')
    <2>1. awaiting /\ ~seen.mixed
      <3>1. \/ seen' = seen
            \/ \E d, m : seen' = [seen EXCEPT !.shown = d, !.mixed = @ \/ m]
        BY <1>4 DEF certificateAnswer
      <3>2. seen.mixed => seen'.mixed
        BY <1>0, <3>1 DEF SeenFields
      <3> QED
        BY <1>4, <3>2 DEF certificateAnswer
    <2>2. Told /\ kind = "prompt"
      BY <1>2, <2>1
    <2> QED
      BY <1>4, <2>2, CertificateHeard
  <1>5. ASSUME seen'.mixed = seen.mixed, seen'.shown = seen.shown, seen'.data = seen.data,
               UNCHANGED <<buffered, awaiting, conn, ws>>,
               Underway(ssh', stream', srv') = Underway(ssh, stream, srv)
        PROVE  Tells /\ (kind # "prompt" => ~awaiting')
    BY <1>2, <1>5, SameHeard
  <1>6. CASE clientData
    <2>1. /\ UNCHANGED <<buffered, awaiting, conn, ws, stream, srv>>
          /\ IF SshReady THEN sendToHost("CHANNEL_DATA", seen.inputs + 1) ELSE ssh' = ssh
      BY <1>6 DEF clientData, Idle
    <2>2. seen'.mixed = seen.mixed /\ seen'.shown = seen.shown /\ seen'.data = seen.data
      BY <1>0, <1>6 DEF clientData, SeenFields
    <2>3. "CHANNEL_DATA" \in UserCodes /\ seen.inputs + 1 \in Values
      BY <1>0 DEF UserCodes, Values, Typed, IsHistory
    <2>4. Underway(ssh', stream', srv') = Underway(ssh, stream, srv)
      BY <1>0, <2>1, <2>3, SendKeepsComing
    <2> QED
      BY <1>5, <2>1, <2>2, <2>4
  <1>7. CASE authenticationAnswer
    <2> DEFINE code == IF asked = "auth" THEN "USERAUTH_REQUEST" ELSE "USERAUTH_INFO_RESPONSE"
    <2>1. SshReady /\ sendToHost(code, 0) /\ UNCHANGED <<buffered, awaiting, conn, ws, stream, srv, seen>>
      BY <1>7 DEF authenticationAnswer, Idle
    <2>2. code \in UserCodes /\ 0 \in Values
      BY DEF UserCodes, Values
    <2> HIDE DEF code
    <2>3. Underway(ssh', stream', srv') = Underway(ssh, stream, srv)
      BY <1>0, <2>1, <2>2, SendKeepsComing
    <2> QED
      BY <1>5, <2>1, <2>3
  <1>8. ASSUME NEW x \in {0, 1}, channelRequest(x) PROVE Tells /\ (kind # "prompt" => ~awaiting')
    <2>1. SshReady /\ sendToHost("CHANNEL_REQUEST", x) /\ UNCHANGED <<buffered, awaiting, conn, ws, stream, srv>>
      BY <1>8 DEF channelRequest, Idle
    <2>2. seen'.mixed = seen.mixed /\ seen'.shown = seen.shown /\ seen'.data = seen.data
      BY <1>0, <1>8 DEF channelRequest, SeenFields
    <2>3. "CHANNEL_REQUEST" \in UserCodes /\ x \in Values
      BY DEF UserCodes, Values
    <2>4. Underway(ssh', stream', srv') = Underway(ssh, stream, srv)
      BY <1>0, <2>1, <2>3, SendKeepsComing
    <2> QED
      BY <1>5, <2>1, <2>2, <2>4
  <1>9. CASE serverReads
    <2>1. seen' = seen /\ awaiting' = awaiting
      BY <1>9 DEF serverReads, client
    <2> QED
      BY <1>2, <1>9, <2>1, ReadsHeard
  <1>10. CASE hostReads
    <2> DEFINE got == Append(srv.got, Head(net).x)
    <2>1. UNCHANGED <<buffered, awaiting, conn, ws, stream, ssh, seen>> /\ srv' = [srv EXCEPT !.got = got]
      BY <1>10 DEF hostReads, client
    <2> HIDE DEF got
    <2>2. srv'.held = srv.held
      BY <1>0, <2>1 DEF Typed, Servers
    <2>3. Underway(ssh', stream', srv') = Underway(ssh, stream, srv)
      BY <2>1, <2>2 DEF Underway
    <2> QED
      BY <1>5, <2>1, <2>3
  <1>11. CASE hostSends
    <2>1. awaiting' = awaiting
      BY <1>11 DEF hostSends, ServerSpeaks
    <2>2. seen'.mixed = seen.mixed
      BY <1>0, <1>11 DEF hostSends, SeenFields
    <2> QED
      BY <1>2, <1>11, <2>1, <2>2, SendsHeard
  <1>12. CASE serverRekeys \/ serverDisconnects
    <2>1. seen' = seen /\ awaiting' = awaiting
      BY <1>12 DEF serverRekeys, serverDisconnects, ServerSpeaks
    <2> QED
      BY <1>2, <1>12, <2>1, AnnouncesHeard
  <1>13. CASE UNCHANGED <<ssh, asked, net, stream, srv, seen, awaiting, buffered, conn, ws, listeners>>
    BY <1>5, <1>13
  <1> QED
    BY <1>3, <1>4, <1>6, <1>7, <1>8, <1>9, <1>10, <1>11, <1>12, <1>13

LEMMA HeardIsOnce == HeardInv => HostDataExactlyOnce
PROOF
  <1> SUFFICES ASSUME HeardInv, conn, ws = "open", cur = 1, socks[cur] = "up", ~seen.mixed
               PROVE  seen.shown \o FlattenSeq(buffered) \o Arriving = [i \in 1 .. seen.data |-> i]
    BY DEF HostDataExactlyOnce
  <1>1. Everything(seen.shown, buffered, ssh, stream, srv) = SoFar(seen.data)
    BY DEF HeardInv, Heard, Listening
  <1>2. Arriving = Underway(ssh, stream, srv)
    BY ArrivingIs
  <1> QED
    BY <1>1, <1>2 DEF Everything, SoFar

\* What the host sends reaches the user in its order and exactly once: it is
\* shown, held back for the prompt or under way, however TCP cuts and joins it,
\* through the key exchanges and the packets kept back in them.
THEOREM HostDataIsKept == Spec => []HostDataExactlyOnce
PROOF
  <1>1. Init => HeardInv
    BY DEF Init, HeardInv
  <1>2. (Good /\ OrderInv /\ EarlyInv) /\ HeardInv /\ [Next]_vars => HeardInv'
    BY NextHeard
  <1> QED
    BY <1>1, <1>2, EarlyHolds, HeardIsOnce, PTL DEF Spec
=============================================================================
