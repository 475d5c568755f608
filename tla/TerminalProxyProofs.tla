------------------------ MODULE TerminalProxyProofs ------------------------
(***************************************************************************)
(* What holds of a TerminalProxy for every kind of host and every bound:   *)
(* its connections are counted once and none outlives the websocket; the   *)
(* session and the counters keep to their ranges; nothing of the user      *)
(* reaches the server within a key exchange; the channel of the keystrokes *)
(* is open.                                                                *)
(***************************************************************************)
EXTENDS TerminalProxy, WellFoundedInduction, SequenceTheorems, FiniteSetTheorems, TLAPS

\* What the argument needs of the variables' ranges.
Ranges ==
  /\ ws \in {"open", "closing", "closed"} /\ conn \in BOOLEAN
  /\ cur \in 0 .. MaxConnects /\ open \in Int
  /\ socks \in [Sockets -> {"none", "connecting", "up", "closing", "closed"}]
  /\ "replaced" \in DOMAIN seen /\ seen.replaced \in BOOLEAN

\* A connection, made or being made, has a socket for hostSocket to refer to.
ConnectedHasSocket ==
  cur = 0 => ~conn /\ \A k \in Sockets : socks[k] \notin {"connecting", "up"}

\* Unless a CONFIG replaced a connection that was being made: only the socket
\* hostSocket refers to can be alive, hostConnected tells whether it has been
\* connected, and none is alive once the websocket has ended.  Without the
\* middle conjuncts the counter could not be traced through connectHandler,
\* which adds one whatever hostConnected was.
OnlyCurrentAlive == \A k \in Sockets : Alive(k) => k = cur
ConnectedIsUp ==
  \A k \in Sockets : /\ socks[k] = "up" => conn
                     /\ socks[k] = "connecting" => ~conn
OneConnection ==
  ~seen.replaced =>
    OnlyCurrentAlive /\ ConnectedIsUp /\ ConnectionsCounted /\ NoSocketLeft

IInv == Ranges /\ ConnectedHasSocket /\ OneConnection

USE TerminalAssumption

-----------------------------------------------------------------------------
(* Lemmas *)

\* The history keeps its field under every update of another field.
LEMMA ReplacedKept ==
  ASSUME NEW q, "replaced" \in DOMAIN q, NEW f, f # "replaced", NEW v
  PROVE  /\ "replaced" \in DOMAIN [q EXCEPT ![f] = v]
         /\ [q EXCEPT ![f] = v].replaced = q.replaced
  OBVIOUS

\* destroy() leaves a socket in a state it knows, dead if it is the one meant.
LEMMA DestroyedFacts ==
  ASSUME Ranges, NEW k
  PROVE  /\ Destroyed(k) \in [Sockets -> {"none", "connecting", "up", "closing", "closed"}]
         /\ \A i \in Sockets :
              Destroyed(k)[i] = IF i = k /\ Alive(k) THEN "closing" ELSE socks[i]
  BY DEF Ranges, Destroyed, Alive

\* closeConnection leaves no connection and, unless one was replaced, no
\* socket that is alive.
LEMMA CloseConnectionKeeps ==
  ASSUME IInv, closeConnection, UNCHANGED cur,
         "replaced" \in DOMAIN seen', seen'.replaced = seen.replaced
  PROVE  IInv'
PROOF
  <1>0. socks' \in [Sockets -> {"none", "connecting", "up", "closing", "closed"}]
    BY DestroyedFacts DEF IInv, closeConnection, Ranges
  <1>1. Ranges' /\ ConnectedHasSocket'
    <2>1. ws' \in {"open", "closing", "closed"} /\ conn' = FALSE /\ cur' = cur /\ open' \in Int
      BY DEF IInv, Ranges, closeConnection
    <2>2. ConnectedHasSocket'
      BY <2>1 DEF IInv, ConnectedHasSocket, closeConnection
    <2> QED
      BY <1>0, <2>1, <2>2 DEF IInv, Ranges
  <1>2. ASSUME ~seen.replaced, NEW k \in Sockets
        PROVE  socks'[k] \notin {"connecting", "up"}
    <2>1. CASE cur = 0
      BY <1>2, <2>1 DEF IInv, OneConnection, OnlyCurrentAlive, Alive, closeConnection,
         Ranges, Sockets
    <2>2. CASE cur # 0
      BY <1>2, <2>2, DestroyedFacts
      DEF IInv, OneConnection, OnlyCurrentAlive, Alive, closeConnection, Ranges
    <2> QED
      BY <2>1, <2>2
  <1>3. ~seen.replaced => ConnectionsCounted'
    BY DEF IInv, OneConnection, ConnectionsCounted, closeConnection, Ranges
  <1> QED
    BY <1>1, <1>2, <1>3
    DEF IInv, OneConnection, OnlyCurrentAlive, ConnectedIsUp, NoSocketLeft, Alive

\* A step that leaves the connection alone keeps the invariant.
LEMMA ElsewhereKeeps ==
  ASSUME IInv, UNCHANGED <<ws, conn, cur, socks, open>>,
         "replaced" \in DOMAIN seen', seen'.replaced = seen.replaced
  PROVE  IInv'
  BY DEF IInv, Ranges, ConnectedHasSocket, OneConnection, OnlyCurrentAlive,
         ConnectedIsUp, ConnectionsCounted, NoSocketLeft, Alive, Sockets

-----------------------------------------------------------------------------
(* The invariant *)

LEMMA InitIInv == Init => IInv
PROOF
  <1> SUFFICES ASSUME Init PROVE IInv
    OBVIOUS
  <1>1. /\ ws = "open" /\ conn = FALSE /\ cur = 0 /\ open = 0
        /\ socks = [k \in Sockets |-> "none"]
    BY DEF Init
  <1>2. "replaced" \in DOMAIN seen /\ seen.replaced = FALSE
    BY DEF Init
  <1>3. Ranges
    <2>1. cur \in 0 .. MaxConnects /\ open \in Int
      BY <1>1
    <2>2. socks \in [Sockets -> {"none", "connecting", "up", "closing", "closed"}]
      BY <1>1
    <2> QED
      BY <1>1, <1>2, <2>1, <2>2 DEF Ranges
  <1>4. ConnectedHasSocket /\ OneConnection
    BY <1>1
    DEF ConnectedHasSocket, OneConnection, OnlyCurrentAlive, ConnectedIsUp,
        ConnectionsCounted, NoSocketLeft, Alive
  <1> QED
    BY <1>3, <1>4 DEF IInv

\* The websocket's end: the socket goes whether connected or being connected.
LEMMA WebsocketClosedKeeps ==
  ASSUME IInv, handleWebsocketClosed
  PROVE  IInv'
PROOF
  <1>1. seen' = seen /\ cur' = cur /\ conn' = FALSE /\ ws' = "closed"
    BY DEF handleWebsocketClosed, client
  <1>0. socks' \in [Sockets -> {"none", "connecting", "up", "closing", "closed"}]
    BY DestroyedFacts DEF IInv, handleWebsocketClosed, Ranges
  <1>2. Ranges' /\ ConnectedHasSocket'
    <2>1. open' \in Int
      BY DEF IInv, Ranges, handleWebsocketClosed
    <2>2. ConnectedHasSocket'
      BY <1>1 DEF IInv, ConnectedHasSocket, handleWebsocketClosed
    <2> QED
      BY <1>0, <1>1, <2>1, <2>2 DEF IInv, Ranges
  <1>3. ASSUME ~seen.replaced, NEW k \in Sockets
        PROVE  socks'[k] \notin {"connecting", "up"}
    <2>1. CASE cur = 0
      BY <1>3, <2>1 DEF IInv, OneConnection, OnlyCurrentAlive, Alive,
         handleWebsocketClosed, Ranges, Sockets
    <2>2. CASE cur # 0
      BY <1>3, <2>2, DestroyedFacts
      DEF IInv, OneConnection, OnlyCurrentAlive, Alive, handleWebsocketClosed, Ranges
    <2> QED
      BY <2>1, <2>2
  <1>4. ~seen.replaced => ConnectionsCounted'
    BY <1>1 DEF IInv, OneConnection, ConnectionsCounted, handleWebsocketClosed, Ranges,
                ConnectedHasSocket
  <1> QED
    BY <1>1, <1>2, <1>3, <1>4
    DEF IInv, OneConnection, OnlyCurrentAlive, ConnectedIsUp, NoSocketLeft, Alive

\* CONFIG makes a socket while nothing is connected: one is replaced if it is
\* still being made.
LEMMA ConnectKeeps ==
  ASSUME IInv, NEW kd \in Kinds, connect(kd)
  PROVE  IInv'
PROOF
  <1>1. /\ ws' = ws /\ ws # "closed" /\ conn' = conn /\ ~conn /\ open' = open
        /\ cur' = cur + 1 /\ cur' \in Sockets
        /\ socks' = [socks EXCEPT ![cur'] = "connecting"]
    BY DEF connect, IInv, Ranges, Sockets
  <1>2. /\ "replaced" \in DOMAIN seen'
        /\ seen'.replaced = (seen.replaced \/ \E k \in Sockets : socks[k] = "connecting")
    BY DEF connect, IInv, Ranges
  <1>3. Ranges' /\ ConnectedHasSocket'
    BY <1>1, <1>2 DEF IInv, Ranges, ConnectedHasSocket, Sockets
  <1>4. ASSUME ~seen'.replaced PROVE \A k \in Sockets : ~Alive(k)
    BY <1>1, <1>2, <1>4 DEF IInv, OneConnection, ConnectedIsUp, Alive
  <1>5. ~seen'.replaced => OnlyCurrentAlive' /\ ConnectedIsUp'
    BY <1>1, <1>4 DEF OnlyCurrentAlive, ConnectedIsUp, Alive, IInv, Ranges
  <1>6. ~seen'.replaced => ConnectionsCounted' /\ NoSocketLeft'
    BY <1>1, <1>2 DEF IInv, OneConnection, ConnectionsCounted, NoSocketLeft
  <1> QED
    BY <1>3, <1>5, <1>6 DEF IInv, OneConnection

\* The connection is made: nothing was connected, so the counter was 0.
LEMMA ConnectHandlerKeeps ==
  ASSUME IInv, NEW k \in Sockets, connectHandler(k)
  PROVE  IInv'
PROOF
  <1>1. /\ socks[k] = "connecting" /\ socks' = [socks EXCEPT ![k] = "up"]
        /\ open' = open + 1 /\ conn' = TRUE /\ ws' = ws /\ cur' = cur /\ seen' = seen
    BY DEF connectHandler
  <1>2. cur # 0
    BY <1>1 DEF IInv, ConnectedHasSocket
  <1>3. Ranges' /\ ConnectedHasSocket'
    BY <1>1, <1>2 DEF IInv, Ranges, ConnectedHasSocket, Sockets
  <1>4. ASSUME ~seen.replaced PROVE k = cur /\ ~conn /\ open = 0 /\ ws # "closed"
    BY <1>1, <1>4
    DEF IInv, OneConnection, OnlyCurrentAlive, ConnectedIsUp, ConnectionsCounted,
        NoSocketLeft, Alive
  <1>5. ~seen.replaced => OnlyCurrentAlive' /\ ConnectedIsUp'
    BY <1>1, <1>4 DEF IInv, OneConnection, OnlyCurrentAlive, ConnectedIsUp, Alive, Ranges
  <1>6. ~seen.replaced => ConnectionsCounted' /\ NoSocketLeft'
    BY <1>1, <1>4 DEF ConnectionsCounted, NoSocketLeft
  <1> QED
    BY <1>1, <1>3, <1>5, <1>6 DEF IInv, OneConnection

\* A socket fails: hostConnected is reset, the sockets meant are destroyed.
LEMMA HostErrorKeeps ==
  ASSUME IInv, NEW k \in Sockets, hostError(k)
  PROVE  IInv'
PROOF
  <1>1. /\ Alive(k) /\ conn' = FALSE /\ cur' = cur /\ seen' = seen
        /\ open' = (IF conn THEN open - 1 ELSE open)
        /\ ws' = (IF ws = "open" THEN "closing" ELSE ws)
        /\ socks' = [Destroyed(cur) EXCEPT ![k] = "closing"]
    BY DEF hostError, client
  <1>2. socks' \in [Sockets -> {"none", "connecting", "up", "closing", "closed"}]
    BY <1>1, DestroyedFacts DEF IInv
  <1>3. Ranges' /\ ConnectedHasSocket'
    <2>1. ws' \in {"open", "closing", "closed"} /\ open' \in Int
      BY <1>1 DEF IInv, Ranges
    <2>2. cur' # 0
      BY <1>1 DEF IInv, ConnectedHasSocket, Alive
    <2> QED
      BY <1>1, <1>2, <2>1, <2>2 DEF IInv, Ranges, ConnectedHasSocket
  <1>4. ASSUME ~seen.replaced PROVE \A i \in Sockets : ~Alive(i)'
    BY <1>1, <1>4, DestroyedFacts DEF IInv, OneConnection, OnlyCurrentAlive, Alive
  <1>5. ~seen.replaced => ConnectionsCounted'
    BY <1>1 DEF IInv, OneConnection, ConnectionsCounted, Ranges
  <1> QED
    BY <1>1, <1>3, <1>4, <1>5
    DEF IInv, OneConnection, OnlyCurrentAlive, ConnectedIsUp, NoSocketLeft, Alive

\* The host ends a connection: its 'close' event comes later.
LEMMA HostClosesKeeps ==
  ASSUME IInv, NEW k \in Sockets, hostCloses(k)
  PROVE  IInv'
PROOF
  <1>1. /\ socks' = [socks EXCEPT ![k] = "closing"]
        /\ ws' = ws /\ conn' = conn /\ cur' = cur /\ open' = open /\ seen' = seen
    BY DEF hostCloses, client
  <1>2. Ranges' /\ ConnectedHasSocket'
    BY <1>1 DEF IInv, Ranges, ConnectedHasSocket
  <1>3. OneConnection'
    BY <1>1 DEF IInv, OneConnection, OnlyCurrentAlive, ConnectedIsUp, ConnectionsCounted,
                NoSocketLeft, Alive, Ranges
  <1> QED
    BY <1>2, <1>3 DEF IInv

\* The 'close' event: of the current socket, or of one that another has followed.
LEMMA SocketClosedKeeps ==
  ASSUME IInv, NEW k \in Sockets, hostSocketClosed(k)
  PROVE  IInv'
PROOF
  <1>1. seen' = seen /\ cur' = cur /\ socks[k] = "closing"
    BY DEF hostSocketClosed, client
  <1>2. CASE listeners[k] = 0
    <2>1. /\ socks' = [socks EXCEPT ![k] = "closed"]
          /\ ws' = ws /\ conn' = conn /\ open' = open
      BY <1>2 DEF hostSocketClosed
    <2>2. Ranges' /\ ConnectedHasSocket'
      BY <1>1, <2>1 DEF IInv, Ranges, ConnectedHasSocket
    <2>3. OneConnection'
      BY <1>1, <2>1
      DEF IInv, OneConnection, OnlyCurrentAlive, ConnectedIsUp, ConnectionsCounted,
          NoSocketLeft, Alive, Ranges
    <2> QED
      BY <2>2, <2>3 DEF IInv
  <1>3. CASE listeners[k] # 0
    <2>1. /\ conn' = FALSE /\ open' = (IF conn THEN open - 1 ELSE open)
          /\ ws' = (IF ws = "open" THEN "closing" ELSE ws)
          /\ socks' = [Destroyed(cur) EXCEPT ![k] = "closed"]
      BY <1>3 DEF hostSocketClosed
    <2>2. socks' \in [Sockets -> {"none", "connecting", "up", "closing", "closed"}]
      BY <2>1, DestroyedFacts DEF IInv
    <2>3. Ranges'
      <3>1. ws' \in {"open", "closing", "closed"} /\ open' \in Int
        BY <2>1 DEF IInv, Ranges
      <3> QED
        BY <1>1, <2>1, <2>2, <3>1 DEF IInv, Ranges
    <2>4. ConnectedHasSocket'
      BY <1>1, <2>1, DestroyedFacts DEF IInv, ConnectedHasSocket, Alive
    <2>5. ASSUME ~seen.replaced PROVE \A i \in Sockets : ~Alive(i)'
      BY <2>1, <2>5, DestroyedFacts DEF IInv, OneConnection, OnlyCurrentAlive, Alive
    <2>6. ~seen.replaced => ConnectionsCounted'
      BY <1>1, <2>1 DEF IInv, OneConnection, ConnectionsCounted, Ranges
    <2> QED
      BY <1>1, <2>1, <2>3, <2>4, <2>5, <2>6
      DEF IInv, OneConnection, OnlyCurrentAlive, ConnectedIsUp, NoSocketLeft, Alive
  <1> QED
    BY <1>2, <1>3

\* Data of the host: what they hold may close the connection, under SSH.
LEMMA HandleDataKeeps ==
  ASSUME IInv, NEW n \in 1 .. Len(stream), handleData(n)
  PROVE  IInv'
PROOF
  <1> DEFINE chunk == SubSeq(stream, 1, n)
  <1>1. CASE kind = "ssh"
    <2>1. sshData(chunk)
      BY <1>1 DEF handleData
    <2>2. cur' = cur /\ "replaced" \in DOMAIN seen' /\ seen'.replaced = seen.replaced
      BY <2>1 DEF sshData, IInv, Ranges
    <2>3. closeConnection \/ UNCHANGED <<ws, conn, cur, socks, open>>
      BY <2>1, <2>2 DEF sshData
    <2> QED
      BY <2>2, <2>3, CloseConnectionKeeps, ElsewhereKeeps
  <1>2. CASE kind # "ssh"
    <2>1. UNCHANGED <<ws, conn, cur, socks, open>>
      BY <1>2 DEF handleData
    <2>2. "replaced" \in DOMAIN seen' /\ seen'.replaced = seen.replaced
      BY <1>2 DEF handleData, IInv, Ranges
    <2> QED
      BY <2>1, <2>2, ElsewhereKeeps
  <1> QED
    BY <1>1, <1>2

\* Messages of the user and the host's own steps leave the connection alone.
LEMMA MessagesKeep ==
  ASSUME IInv,
         \/ \E fingerprint, accept \in BOOLEAN : certificateAnswer(fingerprint, accept)
         \/ clientData \/ authenticationAnswer \/ \E x \in {0, 1} : channelRequest(x)
         \/ serverReads \/ hostReads \/ hostSends \/ serverRekeys \/ serverDisconnects
  PROVE  IInv'
PROOF
  <1>1. ASSUME NEW fingerprint \in BOOLEAN, NEW accept \in BOOLEAN,
               certificateAnswer(fingerprint, accept)
        PROVE  IInv'
    <2>1. "replaced" \in DOMAIN seen' /\ seen'.replaced = seen.replaced
      BY <1>1 DEF certificateAnswer, IInv, Ranges
    <2> QED
      BY <1>1, <2>1, ElsewhereKeeps DEF certificateAnswer, Idle
  <1>2. CASE clientData
    <2>1. "replaced" \in DOMAIN seen' /\ seen'.replaced = seen.replaced
      BY <1>2 DEF clientData, IInv, Ranges
    <2> QED
      BY <1>2, <2>1, ElsewhereKeeps DEF clientData, Idle
  <1>3. CASE authenticationAnswer
    BY <1>3, ElsewhereKeeps DEF authenticationAnswer, Idle, IInv, Ranges
  <1>4. ASSUME NEW x \in {0, 1}, channelRequest(x)
        PROVE  IInv'
    <2>1. "replaced" \in DOMAIN seen' /\ seen'.replaced = seen.replaced
      BY <1>4 DEF channelRequest, IInv, Ranges
    <2> QED
      BY <1>4, <2>1, ElsewhereKeeps DEF channelRequest, Idle
  <1>5. CASE serverReads
    BY <1>5, ElsewhereKeeps DEF serverReads, client, IInv, Ranges
  <1>6. CASE hostReads
    BY <1>6, ElsewhereKeeps DEF hostReads, client, IInv, Ranges
  <1>7. CASE hostSends
    <2>1. "replaced" \in DOMAIN seen' /\ seen'.replaced = seen.replaced
      BY <1>7 DEF hostSends, IInv, Ranges
    <2> QED
      BY <1>7, <2>1, ElsewhereKeeps DEF hostSends, ServerSpeaks
  <1>8. CASE serverRekeys
    BY <1>8, ElsewhereKeeps DEF serverRekeys, ServerSpeaks, IInv, Ranges
  <1>9. CASE serverDisconnects
    BY <1>9, ElsewhereKeeps DEF serverDisconnects, ServerSpeaks, IInv, Ranges
  <1> QED
    BY <1>1, <1>2, <1>3, <1>4, <1>5, <1>6, <1>7, <1>8, <1>9

LEMMA NextIInv == IInv /\ [Next]_vars => IInv'
PROOF
  <1> SUFFICES ASSUME IInv, [Next]_vars PROVE IInv'
    OBVIOUS
  <1>0. "replaced" \in DOMAIN seen
    BY DEF IInv, Ranges
  <1>1. CASE wsError \/ NotJson
    BY <1>0, <1>1, CloseConnectionKeeps DEF wsError, NotJson, client
  <1>2. CASE handleWebsocketClosed
    BY <1>2, WebsocketClosedKeeps
  <1>3. ASSUME NEW kd \in Kinds, connect(kd) PROVE IInv'
    BY <1>3, ConnectKeeps
  <1>4. ASSUME NEW k \in Sockets,
               connectHandler(k) \/ hostError(k) \/ hostCloses(k) \/ hostSocketClosed(k)
        PROVE  IInv'
    BY <1>4, ConnectHandlerKeeps, HostErrorKeeps, HostClosesKeeps, SocketClosedKeeps
  <1>5. ASSUME NEW n \in 1 .. Len(stream), handleData(n) PROVE IInv'
    BY <1>5, HandleDataKeeps
  <1>6. CASE UNCHANGED vars
    BY <1>0, <1>6, ElsewhereKeeps DEF vars
  <1> QED
    BY <1>1, <1>2, <1>3, <1>4, <1>5, <1>6, MessagesKeep DEF Next

THEOREM ConnectionInvariance == Spec => []IInv
  BY InitIInv, NextIInv, PTL DEF Spec

\* openTerminalConnections counts every connection once, in whatever order
\* errors, 'close' events and the websocket's end run decrementCounter; except
\* after a CONFIG that replaced a connection being made.
THEOREM Counted == Spec => []ConnectionsCounted
PROOF
  <1>1. IInv => ConnectionsCounted
    BY DEF IInv, OneConnection, ConnectionsCounted
  <1> QED
    BY <1>1, ConnectionInvariance, PTL

\* No socket to the host is left alive when the websocket has ended, whether
\* it was connected or still being connected then; same exception.
THEOREM NoneLeft == Spec => []NoSocketLeft
PROOF
  <1>1. IInv => NoSocketLeft
    BY DEF IInv, OneConnection, NoSocketLeft
  <1> QED
    BY <1>1, ConnectionInvariance, PTL

HIDE TerminalAssumption

-----------------------------------------------------------------------------
(* Packets, units and sessions *)

HostCodes == {"VERSION", "KEXINIT", "GEX_GROUP", "GEX_REPLY", "NEWKEYS", "SERVICE_ACCEPT",
              "USERAUTH_SUCCESS", "USERAUTH_FAILURE", "USERAUTH_INFO_REQUEST",
              "OPEN_CONFIRMATION", "CHANNEL_SUCCESS", "CHANNEL_DATA", "DISCONNECT"}
ClientCodes == {"VERSION", "RAW", "KEXINIT", "GEX_REQUEST", "GEX_REQUEST_OLD", "GEX_INIT",
                "NEWKEYS", "SERVICE_REQUEST", "USERAUTH_REQUEST", "USERAUTH_INFO_RESPONSE",
                "CHANNEL_OPEN", "pty-req", "shell", "CHANNEL_DATA", "CHANNEL_REQUEST",
                "WINDOW_ADJUST"}
Values == {"gex", "old"} \cup Nat
HostPackets == [id : Nat, code : HostCodes, x : Values, len : {1, 2}]
HostUnits == [p : HostPackets, k : {1, 2}]
ClientPackets == [code : ClientCodes, ch : Values, x : Values]
Messages == [code : HostCodes, x : Values]

Expected == {"none", "GEX_GROUP", "GEX_REPLY", "NEWKEYS", "SERVICE_ACCEPT", "OPEN_CONFIRMATION"}
Channel == [server : Values, shell : BOOLEAN]
IsChannels(ch) == DOMAIN ch \subseteq Nat /\ ch \in [DOMAIN ch -> Channel]
Channels == UNION {[S -> Channel] : S \in SUBSET Nat}
Session ==
  [exists : {TRUE}, kex : BOOLEAN, initSent : BOOLEAN, expected : Expected,
   sent : {"none", "GEX_REQUEST", "GEX_REQUEST_OLD"}, queue : Seq(ClientPackets),
   channels : Channels, primary : Nat, highest : Nat, window : 0 .. InitialWindow,
   encrypted : BOOLEAN, incomplete : Seq(HostUnits), firstDecrypted : BOOLEAN,
   received : Nat, authenticated : BOOLEAN, macFailed : BOOLEAN]
Results ==
  [s : Session, out : Seq(ClientPackets), msgs : Seq(Messages), error : BOOLEAN]

LEMMA ChannelsAre == \A ch : ch \in Channels <=> IsChannels(ch)
PROOF
  <1> TAKE ch
  <1>1. ASSUME ch \in Channels PROVE IsChannels(ch)
    BY <1>1 DEF Channels, IsChannels
  <1>2. ASSUME IsChannels(ch) PROVE ch \in Channels
    BY <1>2 DEF Channels, IsChannels
  <1> QED
    BY <1>1, <1>2

LEMMA NewSessionTyped == NewSession \in Session
PROOF
  <1>1. <<>> \in Channels
    <2>1. DOMAIN <<>> = {} /\ <<>> = [i \in {} |-> 0]
      OBVIOUS
    <2>2. [i \in {} |-> 0] \in [{} -> Channel]
      OBVIOUS
    <2> QED
      BY <2>1, <2>2 DEF Channels
  <1>2. 0 \in 0 .. InitialWindow
    BY SshAssumption
  <1> QED
    BY <1>1, <1>2 DEF NewSession, Session, Expected

\* What the parts of a result are made of.
LEMMA PartsTyped ==
  ASSUME NEW r \in Results
  PROVE  /\ \A p \in ClientPackets : Send(r, p) \in Results
         /\ \A code \in HostCodes, x \in Values : Pass(r, code, x) \in Results
         /\ Fail(r) \in Results /\ Flush(r) \in Results
PROOF
  <1>1. ASSUME NEW p \in ClientPackets PROVE Send(r, p) \in Results
    BY DEF Send, Results
  <1>2. ASSUME NEW code \in HostCodes, NEW x \in Values PROVE Pass(r, code, x) \in Results
    <2> DEFINE m == [code |-> code, x |-> x]
    <2>1. m \in Messages
      BY DEF Messages
    <2> HIDE DEF m
    <2>2. Append(r.msgs, m) \in Seq(Messages)
      BY <2>1 DEF Results
    <2>3. [r EXCEPT !.msgs = Append(@, m)] \in Results
      BY <2>2 DEF Results
    <2> QED
      BY <2>3 DEF Pass, m
  <1>3. Fail(r) \in Results
    <2>1. <<>> \in Seq(Messages)
      OBVIOUS
    <2> QED
      BY <2>1 DEF Fail, Results
  <1>4. Flush(r) \in Results
    <2>1. <<>> \in Seq(ClientPackets) /\ r.out \o r.s.queue \in Seq(ClientPackets)
      BY DEF Results, Session
    <2>2. [r EXCEPT !.out = @ \o r.s.queue] \in Results
      BY <2>1 DEF Results
    <2> QED
      BY <2>1, <2>2 DEF Flush, Results, Session
  <1> QED
    BY <1>1, <1>2, <1>3, <1>4

LEMMA PacketsTyped ==
  ASSUME NEW code \in ClientCodes, NEW ch \in Values, NEW x \in Values
  PROVE  Packet(code, ch, x) \in ClientPackets /\ Plain(code) \in ClientPackets
  BY DEF Packet, Plain, ClientPackets, Values

LEMMA HandleTyped ==
  ASSUME NEW r \in Results, NEW p \in HostPackets, NEW channel \in Nat
  PROVE  Handle(r, p, channel) \in Results
PROOF
  <1>1. p.code \in HostCodes /\ p.x \in Values /\ channel \in Values /\ 0 \in Values
    BY DEF HostPackets, Values
  <1>2. CASE p.code \in ToProxy
    BY <1>1, <1>2, PartsTyped DEF Handle, ToProxy
  <1>3. UserauthSuccess(r, channel) \in Results
    <2>1. Pass(r, "USERAUTH_SUCCESS", 0) \in Results
      BY <1>1, PartsTyped DEF HostCodes
    <2>2. [Pass(r, "USERAUTH_SUCCESS", 0) EXCEPT !.s.authenticated = TRUE,
                 !.s.expected = "OPEN_CONFIRMATION"] \in Results
      BY <2>1 DEF Results, Session, Expected
    <2>3. Packet("CHANNEL_OPEN", 0, channel) \in ClientPackets
      BY <1>1, PacketsTyped DEF ClientCodes
    <2> QED
      BY <2>2, <2>3, PartsTyped DEF UserauthSuccess
  <1>4. OpenConfirmation(r, p, channel) \in Results
    <2> DEFINE old == r.s.channels
               ch == [c \in DOMAIN old \cup {channel} |->
                           IF c = channel THEN [server |-> p.x, shell |-> FALSE]
                           ELSE old[c]]
               q == [r EXCEPT !.s.channels = ch, !.s.window = InitialWindow]
    <2>1. IsChannels(old)
      BY ChannelsAre DEF Results, Session
    <2>2. IsChannels(ch)
      BY <1>1, <2>1 DEF IsChannels, Channel
    <2>3. ch \in Channels /\ InitialWindow \in 0 .. InitialWindow
      BY <2>2, ChannelsAre, SshAssumption
    <2> HIDE DEF ch
    <2>4. q \in Results
      BY <2>3 DEF Results, Session
    <2>5. Packet("pty-req", p.x, 0) \in ClientPackets
      BY <1>1, PacketsTyped DEF ClientCodes
    <2> QED
      BY <2>4, <2>5, PartsTyped DEF OpenConfirmation, ch
  <1>5. ChannelSuccess(r, channel) \in Results
    <2>1. CASE ~HasChannel(r.s, channel)
      BY <2>1 DEF ChannelSuccess
    <2>2. CASE HasChannel(r.s, channel) /\ ~r.s.channels[channel].shell
      <3> DEFINE ch == [r.s.channels EXCEPT ![channel].shell = TRUE]
                 q == [r EXCEPT !.s.channels[channel].shell = TRUE]
      <3>1. IsChannels(r.s.channels)
        BY ChannelsAre DEF Results, Session
      <3>2. IsChannels(ch)
        BY <2>2, <3>1 DEF IsChannels, Channel, HasChannel
      <3>3. ch \in Channels
        BY <3>2, ChannelsAre
      <3>4. q = [r EXCEPT !.s.channels = ch]
        BY DEF Results, Session
      <3> HIDE DEF ch
      <3>5. q \in Results
        BY <3>3, <3>4 DEF Results, Session
      <3>6. Packet("shell", 0, 0) \in ClientPackets
        BY <1>1, PacketsTyped DEF ClientCodes
      <3> QED
        BY <2>2, <3>5, <3>6, PartsTyped DEF ChannelSuccess
    <2>3. CASE HasChannel(r.s, channel) /\ r.s.channels[channel].shell
      <3>0. r.s.highest \in Nat /\ r.s.highest + 1 \in Nat
        BY DEF Results, Session
      <3>1. [r EXCEPT !.s.primary = r.s.highest, !.s.highest = @ + 1] \in Results
        BY <3>0 DEF Results, Session
      <3> QED
        BY <2>3, <3>1 DEF ChannelSuccess
    <2> QED
      BY <2>1, <2>2, <2>3
  <1>6. KexInit(r, p) \in Results
    <2> DEFINE answered == IF r.s.initSent THEN r ELSE Send(r, makeKeyExchangeResponse)
               request == IF getAgreeableAlgorithms(p) = "gex" THEN "GEX_REQUEST"
                 ELSE "GEX_REQUEST_OLD"
    <2>1. answered \in Results
      BY PacketsTyped, PartsTyped, <1>1 DEF makeKeyExchangeResponse, ClientCodes
    <2>2. request \in {"GEX_REQUEST", "GEX_REQUEST_OLD"}
      OBVIOUS
    <2> HIDE DEF answered, request
    <2>3. [answered EXCEPT !.s.kex = TRUE, !.s.initSent = TRUE,
                            !.s.expected = "GEX_GROUP", !.s.sent = request] \in Results
      BY <2>1, <2>2 DEF Results, Session, Expected
    <2>4. Plain(request) \in ClientPackets
      BY <1>1, <2>2, PacketsTyped DEF ClientCodes
    <2> QED
      BY <2>3, <2>4, PartsTyped DEF KexInit, answered, request
  <1>7. GexReply(r) \in Results /\ GexReply([r EXCEPT !.s.expected = "GEX_REPLY"]) \in Results
    <2>1. [r EXCEPT !.s.expected = "GEX_REPLY"] \in Results
      BY DEF Results, Session, Expected
    <2>2. \A q \in Results : GexReply(q) \in Results
      <3> TAKE q \in Results
      <3>1. [q EXCEPT !.s.expected = "NEWKEYS"] \in Results
        BY DEF Results, Session, Expected
      <3> QED
        BY <3>1, PartsTyped DEF GexReply
    <2> QED
      BY <2>1, <2>2
  <1>8. GexGroup(r) \in Results
    <2>1. [r EXCEPT !.s.expected = "GEX_REPLY"] \in Results
      BY DEF Results, Session, Expected
    <2>2. Plain("GEX_INIT") \in ClientPackets
      BY <1>1, PacketsTyped DEF ClientCodes
    <2> QED
      BY <1>7, <2>1, <2>2, PartsTyped DEF GexGroup
  <1>9. NewKeys(r) \in Results
    <2>1. Plain("NEWKEYS") \in ClientPackets /\ Plain("SERVICE_REQUEST") \in ClientPackets
      BY <1>1, PacketsTyped DEF ClientCodes
    <2> DEFINE keyed == initializeCrypto(Send(r, Plain("NEWKEYS")))
               flushed == IF r.s.kex
                      THEN Flush([keyed EXCEPT !.s.kex = FALSE, !.s.initSent = FALSE])
                      ELSE keyed
    <2>2. keyed \in Results
      <3>1. Send(r, Plain("NEWKEYS")) \in Results
        BY <2>1, PartsTyped
      <3> QED
        BY <3>1 DEF initializeCrypto, Results, Session
    <2> HIDE DEF keyed
    <2>3. [keyed EXCEPT !.s.kex = FALSE, !.s.initSent = FALSE] \in Results
      BY <2>2 DEF Results, Session
    <2>4. flushed \in Results
      BY <2>2, <2>3, PartsTyped
    <2> HIDE DEF flushed
    <2>5. [flushed EXCEPT !.s.expected = "SERVICE_ACCEPT"] \in Results
      BY <2>4 DEF Results, Session, Expected
    <2> QED
      BY <2>1, <2>4, <2>5, PartsTyped DEF NewKeys, flushed, keyed
  <1> QED
    BY <1>1, <1>2, <1>3, <1>4, <1>5, <1>6, <1>7, <1>8, <1>9 DEF Handle

-----------------------------------------------------------------------------
(* Induction, and the loop over a chunk *)

\* Induction over the numbers, as a fact about sets of them.
LEMMA SetInduction ==
  ASSUME NEW T, 0 \in T, \A n \in Nat : n \in T => n + 1 \in T
  PROVE  Nat \subseteq T
PROOF
  <1> DEFINE U == {n \in Nat : n \notin T}
             Below == OpToRel(<, Nat)
  <1> SUFFICES ASSUME U # {} PROVE FALSE
    OBVIOUS
  <1>1. IsWellFoundedOn(Below, Nat)
    BY NatLessThanWellFounded, Zenon
  <1>2. \A x, y \in Nat : x < y => <<x, y>> \in Below
    BY DEF OpToRel
  <1>3. PICK x \in U : \A y \in U : ~(<<y, x>> \in Below)
    <2>1. U \subseteq Nat
      OBVIOUS
    <2> HIDE DEF U, Below
    <2> QED
      BY <1>1, <2>1, WFMin
  <1> HIDE DEF Below
  <1>4. x \in Nat /\ x # 0 /\ x - 1 \in Nat /\ x - 1 < x
    BY <1>3
  <1>5. x - 1 \in T
    BY <1>2, <1>3, <1>4
  <1> QED
    BY <1>3, <1>4, <1>5

\* The same up to a number.
LEMMA UptoInduction ==
  ASSUME NEW n \in Nat, NEW T, 0 \in T, \A i \in 1 .. n : i - 1 \in T => i \in T
  PROVE  \A i \in 0 .. n : i \in T
PROOF
  <1> DEFINE U == {i \in Nat : i > n \/ i \in T}
  <1>1. 0 \in U
    OBVIOUS
  <1>2. ASSUME NEW i \in Nat, i \in U PROVE i + 1 \in U
    <2>1. CASE i + 1 > n
      BY <2>1
    <2>2. CASE i + 1 <= n
      <3>1. i \in T /\ i + 1 \in 1 .. n /\ (i + 1) - 1 = i
        BY <1>2, <2>2
      <3> QED
        BY <3>1
    <2> QED
      BY <2>1, <2>2
  <1> HIDE DEF U
  <1>3. Nat \subseteq U
    BY <1>1, <1>2, SetInduction
  <1> QED
    BY <1>3 DEF U

\* The function of ReadLoop: what has become of the result when the loop has
\* got to a position.
Loops(loop, n, r, raw, channel) ==
  loop = [pos \in 0 .. n |-> IF pos = 0 THEN [r |-> r, next |-> 1]
                             ELSE ReadStep(loop[pos - 1], raw, pos, channel)]

LEMMA LoopExists ==
  ASSUME NEW r, NEW raw, NEW channel, NEW n \in Nat
  PROVE  \E loop : Loops(loop, n, r, raw, channel)
PROOF
  <1> DEFINE T == {i \in Nat : \E loop : Loops(loop, i, r, raw, channel)}
  <1>1. 0 \in T
    <2> DEFINE g == [pos \in 0 .. 0 |-> [r |-> r, next |-> 1]]
    <2>1. g = [pos \in 0 .. 0 |-> IF pos = 0 THEN [r |-> r, next |-> 1]
                                  ELSE ReadStep(g[pos - 1], raw, pos, channel)]
      OBVIOUS
    <2> HIDE DEF g
    <2>2. Loops(g, 0, r, raw, channel)
      BY <2>1 DEF Loops
    <2> QED
      BY <2>2
  <1>2. ASSUME NEW i \in Nat, i \in T PROVE i + 1 \in T
    <2>1. PICK g : Loops(g, i, r, raw, channel)
      BY <1>2
    <2> DEFINE h == [pos \in 0 .. i + 1 |->
                       IF pos = i + 1 THEN ReadStep(g[i], raw, i + 1, channel) ELSE g[pos]]
    <2>2. \A pos \in 0 .. i : /\ h[pos] = g[pos]
                              /\ g[pos] = IF pos = 0 THEN [r |-> r, next |-> 1]
                                          ELSE ReadStep(g[pos - 1], raw, pos, channel)
      BY <2>1 DEF Loops
    <2>3. h[i + 1] = ReadStep(g[i], raw, i + 1, channel) /\ h[i] = g[i]
      BY <2>2
    <2>4. \A pos \in 0 .. i + 1 : h[pos] = IF pos = 0 THEN [r |-> r, next |-> 1]
                                           ELSE ReadStep(h[pos - 1], raw, pos, channel)
      <3> TAKE pos \in 0 .. i + 1
      <3> HIDE DEF h
      <3>1. CASE pos = i + 1
        BY <2>3, <3>1
      <3>2. CASE pos # i + 1
        <4>1. pos \in 0 .. i /\ (pos # 0 => pos - 1 \in 0 .. i)
          BY <3>2
        <4> QED
          BY <2>2, <4>1
      <3> QED
        BY <3>1, <3>2
    <2>5. h = [pos \in 0 .. i + 1 |-> h[pos]]
      OBVIOUS
    <2> HIDE DEF h
    <2>6. Loops(h, i + 1, r, raw, channel)
      BY <2>4, <2>5 DEF Loops
    <2> QED
      BY <2>6
  <1> HIDE DEF T
  <1>3. Nat \subseteq T
    BY <1>1, <1>2, SetInduction
  <1> QED
    BY <1>3 DEF T

LEMMA LoopIs ==
  ASSUME NEW r, NEW raw, NEW channel, Len(raw) \in Nat
  PROVE  \E loop : /\ Loops(loop, Len(raw), r, raw, channel)
                   /\ ReadLoop(r, raw, channel) = loop[Len(raw)].r
PROOF
  <1> DEFINE P(loop) == Loops(loop, Len(raw), r, raw, channel)
             c == CHOOSE loop : P(loop)
  <1>1. \E loop : P(loop)
    BY LoopExists
  <1>2. P(c)
    <2> HIDE DEF P
    <2> QED
      BY <1>1
  <1>3. ReadLoop(r, raw, channel) = c[Len(raw)].r
    BY DEF ReadLoop, Loops
  <1> QED
    BY <1>2, <1>3

\* What holds before the loop and is kept by its steps holds after it: S is
\* a set of results that, at each position, the loop stays in.
LEMMA LoopRule ==
  ASSUME NEW r, NEW raw, NEW channel, Len(raw) \in Nat, NEW S,
         [r |-> r, next |-> 1] \in S[0],
         \A pos \in 1 .. Len(raw) :
           \A lp \in S[pos - 1] : ReadStep(lp, raw, pos, channel) \in S[pos]
  PROVE  \E lp \in S[Len(raw)] : ReadLoop(r, raw, channel) = lp.r
PROOF
  <1>1. PICK loop : /\ Loops(loop, Len(raw), r, raw, channel)
                    /\ ReadLoop(r, raw, channel) = loop[Len(raw)].r
    BY LoopIs
  <1> DEFINE T == {pos \in 0 .. Len(raw) : loop[pos] \in S[pos]}
  <1>2. loop[0] = [r |-> r, next |-> 1]
        /\ \A pos \in 1 .. Len(raw) : loop[pos] = ReadStep(loop[pos - 1], raw, pos, channel)
    BY <1>1 DEF Loops
  <1>3. 0 \in T
    BY <1>2
  <1>4. \A pos \in 1 .. Len(raw) : pos - 1 \in T => pos \in T
    BY <1>2
  <1> HIDE DEF T
  <1>5. \A pos \in 0 .. Len(raw) : pos \in T
    BY <1>3, <1>4, UptoInduction
  <1>6. Len(raw) \in T
    BY <1>5
  <1> QED
    BY <1>1, <1>6 DEF T

\* What a read makes of the session.
\* all but what the reading itself keeps: incomplete, firstDecrypted, received, macFailed
SameBut(t, s) ==
  /\ t.kex = s.kex /\ t.initSent = s.initSent /\ t.expected = s.expected
  /\ t.sent = s.sent /\ t.queue = s.queue /\ t.channels = s.channels
  /\ t.primary = s.primary /\ t.highest = s.highest /\ t.window = s.window
  /\ t.encrypted = s.encrypted /\ t.authenticated = s.authenticated
LEMMA ReadFacts ==
  ASSUME NEW s \in Session, NEW raw \in Seq(HostUnits), NEW pos \in 1 .. Len(raw)
  PROVE  LET read == readSSHv2PDUData(s, raw, pos) IN
         /\ read.kind \in {"error", "wait", "pdu"} /\ read.s \in Session
         /\ SameBut(read.s, s)
         /\ read.kind = "wait" =>
              read.s.incomplete = IF s.encrypted THEN SubSeq(raw, pos, Len(raw)) ELSE raw
         /\ read.kind # "wait" => read.s.incomplete = s.incomplete
         /\ read.kind = "error" => s.encrypted
         /\ read.kind = "pdu" => /\ raw[pos].k = 1 /\ read.p = raw[pos].p
                                 /\ read.next = pos + raw[pos].p.len
PROOF
  <1> DEFINE kept == SubSeq(raw, pos, Len(raw))
             ready == [s EXCEPT !.firstDecrypted = FALSE]
             checked == [ready EXCEPT !.macFailed = @ \/ s.received # raw[pos].p.id]
             Keeps(t, q) == t \in Session /\ SameBut(t, q)
             With(q, units) == [q EXCEPT !.incomplete = units]
             Counted1(q) == [q EXCEPT !.received = @ + 1]
  <1>1. kept \in Seq(HostUnits) /\ s.encrypted \in BOOLEAN
    BY DEF Session
  <1>2. ASSUME NEW q \in Session, NEW units \in Seq(HostUnits)
        PROVE  Keeps(With(q, units), q) /\ With(q, units).incomplete = units
    BY DEF Session, SameBut
  <1>3. ASSUME NEW q \in Session
        PROVE  Keeps(Counted1(q), q) /\ Counted1(q).incomplete = q.incomplete
    <2>1. q.received + 1 \in Nat
      BY DEF Session
    <2> QED
      BY <2>1 DEF Session, SameBut
  <1>4. Keeps(s, s) /\ Keeps(ready, s) /\ ready.incomplete = s.incomplete
    BY DEF Session, SameBut
  <1> HIDE DEF ready
  <1>5. Keeps(checked, ready) /\ checked.incomplete = ready.incomplete
    BY <1>4 DEF Session, SameBut
  <1> HIDE DEF kept, checked
  <1>6. \A t, u, v : SameBut(t, u) /\ SameBut(u, v) => SameBut(t, v)
    BY DEF SameBut
  <1> DEFINE read == readSSHv2PDUData(s, raw, pos)
  <1>7. CASE s.encrypted
    <2>0. read = ReadEncrypted(s, raw, pos)
      BY <1>7 DEF readSSHv2PDUData
    <2> HIDE DEF read
    <2>1. CASE read = Wait(s, kept)
      <3>1. read.kind = "wait" /\ read.s = With(s, kept)
        BY <2>1 DEF Wait
      <3> HIDE DEF With
      <3> QED
        BY <1>1, <1>2, <1>7, <3>1 DEF read, kept
    <2>2. CASE read = [kind |-> "error", s |-> ready]
      BY <1>4, <1>7, <2>2 DEF read
    <2>3. CASE read = Wait(ready, kept)
      <3>1. read.kind = "wait" /\ read.s = With(ready, kept)
        BY <2>3 DEF Wait
      <3> HIDE DEF With
      <3>2. Keeps(read.s, ready) /\ read.s.incomplete = kept
        BY <1>1, <1>2, <1>4, <3>1
      <3>3. SameBut(read.s, s)
        BY <1>4, <1>6, <3>2
      <3> QED
        BY <1>7, <3>1, <3>2, <3>3 DEF read, kept
    <2>4. CASE raw[pos].k = 1 /\ read = Pdu(checked, raw[pos].p, pos + raw[pos].p.len)
      <3>1. /\ read.kind = "pdu" /\ read.s = Counted1(checked) /\ read.p = raw[pos].p
            /\ read.next = pos + raw[pos].p.len
        BY <2>4 DEF Pdu
      <3> HIDE DEF Counted1
      <3>2. Keeps(read.s, checked) /\ read.s.incomplete = checked.incomplete
        BY <1>3, <1>5, <3>1
      <3>3. SameBut(read.s, s)
        BY <1>4, <1>5, <1>6, <3>2
      <3> QED
        BY <1>4, <1>5, <2>4, <3>1, <3>2, <3>3 DEF read
    <2> QED
      BY <2>0, <2>1, <2>2, <2>3, <2>4 DEF ReadEncrypted, kept, ready, checked
  <1>8. CASE ~s.encrypted
    <2>0. read = ReadPlain(s, raw, pos)
      BY <1>8 DEF readSSHv2PDUData
    <2> HIDE DEF read
    <2>1. CASE read = Wait(s, raw)
      <3>1. read.kind = "wait" /\ read.s = With(s, raw)
        BY <2>1 DEF Wait
      <3> HIDE DEF With
      <3> QED
        BY <1>2, <1>8, <3>1 DEF read
    <2>2. CASE raw[pos].k = 1 /\ read = Pdu(s, raw[pos].p, pos + raw[pos].p.len)
      <3>1. /\ read.kind = "pdu" /\ read.s = Counted1(s) /\ read.p = raw[pos].p
            /\ read.next = pos + raw[pos].p.len
        BY <2>2 DEF Pdu
      <3> HIDE DEF Counted1
      <3> QED
        BY <1>3, <2>2, <3>1 DEF read
    <2> QED
      BY <2>0, <2>1, <2>2 DEF ReadPlain
  <1> QED
    BY <1>1, <1>7, <1>8

LEMMA ReadStepTyped ==
  ASSUME NEW raw \in Seq(HostUnits), NEW pos \in 1 .. Len(raw), NEW channel \in Nat,
         NEW lp \in [r : Results, next : Nat]
  PROVE  ReadStep(lp, raw, pos, channel) \in [r : Results, next : Nat]
PROOF
  <1> DEFINE read == readSSHv2PDUData(lp.r.s, raw, pos)
             after == [lp.r EXCEPT !.s = read.s]
  <1>1. lp.r \in Results /\ lp.r.s \in Session /\ lp.next \in Nat
    BY DEF Results
  <1>2. /\ read.kind \in {"error", "wait", "pdu"} /\ read.s \in Session
        /\ read.kind = "pdu" => /\ raw[pos].k = 1 /\ read.p = raw[pos].p
                                /\ read.next = pos + raw[pos].p.len
    BY <1>1, ReadFacts
  <1>3. raw[pos].p \in HostPackets /\ pos + raw[pos].p.len \in Nat
    <2>1. raw[pos] \in HostUnits
      OBVIOUS
    <2>2. raw[pos].p \in HostPackets
      BY <2>1 DEF HostUnits
    <2>3. raw[pos].p.len \in {1, 2}
      BY <2>2 DEF HostPackets
    <2> QED
      BY <2>2, <2>3
  <1> HIDE DEF read
  <1>4. after \in Results
    BY <1>1, <1>2 DEF Results
  <1> HIDE DEF after
  <1>5. CASE pos # lp.next \/ lp.r.error
    BY <1>5 DEF ReadStep
  <1>6. CASE ~(pos # lp.next \/ lp.r.error)
    <2>1. CASE read.kind = "error"
      <3>1. Fail(after) \in Results
        BY <1>4, PartsTyped
      <3> QED
        BY <1>6, <2>1, <3>1 DEF ReadStep, read, after
    <2>2. CASE read.kind = "wait"
      BY <1>4, <1>6, <2>2 DEF ReadStep, read, after
    <2>3. CASE read.kind = "pdu"
      <3>1. Handle(after, read.p, channel) \in Results /\ read.next \in Nat
        BY <1>2, <1>3, <1>4, <2>3, HandleTyped
      <3> QED
        BY <1>6, <2>3, <3>1 DEF ReadStep, read, after
    <2> QED
      BY <1>2, <2>1, <2>2, <2>3
  <1> QED
    BY <1>5, <1>6

LEMMA ReadLoopTyped ==
  ASSUME NEW r \in Results, NEW raw \in Seq(HostUnits), NEW channel \in Nat
  PROVE  ReadLoop(r, raw, channel) \in Results
PROOF
  <1> DEFINE S == [pos \in 0 .. Len(raw) |-> [r : Results, next : Nat]]
  <1>1. [r |-> r, next |-> 1] \in S[0]
    OBVIOUS
  <1>2. \A pos \in 1 .. Len(raw) :
           \A lp \in S[pos - 1] : ReadStep(lp, raw, pos, channel) \in S[pos]
    BY ReadStepTyped
  <1>3. S[Len(raw)] = [r : Results, next : Nat]
    <2>1. Len(raw) \in 0 .. Len(raw)
      OBVIOUS
    <2> QED
      BY <2>1
  <1> HIDE DEF S
  <1>4. \E lp \in S[Len(raw)] : ReadLoop(r, raw, channel) = lp.r
    BY <1>1, <1>2, LoopRule
  <1> QED
    BY <1>3, <1>4

-----------------------------------------------------------------------------
(* What the server emits *)

Commands == [code : HostCodes, x : Values]
Emissions == [srv : [sent : Nat, kex : BOOLEAN, quiet : BOOLEAN, confused : BOOLEAN,
                     keys : BOOLEAN, held : Seq(Commands), got : Seq(Values), rekeys : Nat,
                     tries : Nat, over : BOOLEAN, authed : BOOLEAN, method : {"gex", "old"}],
              stream : Seq(HostUnits)]
Servers == [sent : Nat, kex : BOOLEAN, quiet : BOOLEAN, confused : BOOLEAN,
            keys : BOOLEAN, held : Seq(Commands), got : Seq(Values), rekeys : Nat,
            tries : Nat, over : BOOLEAN, authed : BOOLEAN, method : {"gex", "old"}]

\* The function of InOrder over what was held back.
Sends(after, n, e, s) ==
  after = [i \in 0 .. n |-> IF i = 0 THEN e ELSE Sent(after[i - 1], s[i])]

LEMMA SendsExists ==
  ASSUME NEW e, NEW s, NEW n \in Nat
  PROVE  \E after : Sends(after, n, e, s)
PROOF
  <1> DEFINE T == {i \in Nat : \E after : Sends(after, i, e, s)}
  <1>1. 0 \in T
    <2> DEFINE g == [i \in 0 .. 0 |-> e]
    <2>1. g = [i \in 0 .. 0 |-> IF i = 0 THEN e ELSE Sent(g[i - 1], s[i])]
      OBVIOUS
    <2> HIDE DEF g
    <2>2. Sends(g, 0, e, s)
      BY <2>1 DEF Sends
    <2> QED
      BY <2>2
  <1>2. ASSUME NEW k \in Nat, k \in T PROVE k + 1 \in T
    <2>1. PICK g : Sends(g, k, e, s)
      BY <1>2
    <2> DEFINE h == [i \in 0 .. k + 1 |-> IF i = k + 1 THEN Sent(g[k], s[k + 1]) ELSE g[i]]
    <2>2. \A i \in 0 .. k : /\ h[i] = g[i]
                            /\ g[i] = IF i = 0 THEN e ELSE Sent(g[i - 1], s[i])
      BY <2>1 DEF Sends
    <2>3. h[k + 1] = Sent(g[k], s[k + 1]) /\ h[k] = g[k]
      BY <2>2
    <2>4. \A i \in 0 .. k + 1 : h[i] = IF i = 0 THEN e ELSE Sent(h[i - 1], s[i])
      <3> TAKE i \in 0 .. k + 1
      <3> HIDE DEF h
      <3>1. CASE i = k + 1
        BY <2>3, <3>1
      <3>2. CASE i # k + 1
        <4>1. i \in 0 .. k /\ (i # 0 => i - 1 \in 0 .. k)
          BY <3>2
        <4> QED
          BY <2>2, <4>1
      <3> QED
        BY <3>1, <3>2
    <2>5. h = [i \in 0 .. k + 1 |-> h[i]]
      OBVIOUS
    <2> HIDE DEF h
    <2>6. Sends(h, k + 1, e, s)
      BY <2>4, <2>5 DEF Sends
    <2> QED
      BY <2>6
  <1> HIDE DEF T
  <1>3. Nat \subseteq T
    BY <1>1, <1>2, SetInduction
  <1> QED
    BY <1>3 DEF T

LEMMA SendsIs ==
  ASSUME NEW e, NEW s, Len(s) \in Nat
  PROVE  \E after : Sends(after, Len(s), e, s) /\ InOrder(Sent, e, s) = after[Len(s)]
PROOF
  <1> DEFINE P(after) == Sends(after, Len(s), e, s)
             c == CHOOSE after : P(after)
  <1>1. \E after : P(after)
    BY SendsExists
  <1>2. P(c)
    <2> HIDE DEF P
    <2> QED
      BY <1>1
  <1>3. InOrder(Sent, e, s) = c[Len(s)]
    BY DEF InOrder, Sends
  <1> QED
    BY <1>2, <1>3

\* What holds before and is kept by sending each packet holds after all.
LEMMA SendsRule ==
  ASSUME NEW e, NEW s, Len(s) \in Nat, NEW S, e \in S[0],
         \A i \in 1 .. Len(s) : \A d \in S[i - 1] : Sent(d, s[i]) \in S[i]
  PROVE  InOrder(Sent, e, s) \in S[Len(s)]
PROOF
  <1>1. PICK after : Sends(after, Len(s), e, s) /\ InOrder(Sent, e, s) = after[Len(s)]
    BY SendsIs
  <1> DEFINE T == {i \in 0 .. Len(s) : after[i] \in S[i]}
  <1>2. after[0] = e /\ \A i \in 1 .. Len(s) : after[i] = Sent(after[i - 1], s[i])
    BY <1>1 DEF Sends
  <1>3. 0 \in T
    BY <1>2
  <1>4. \A i \in 1 .. Len(s) : i - 1 \in T => i \in T
    BY <1>2
  <1> HIDE DEF T
  <1>5. \A i \in 0 .. Len(s) : i \in T
    BY <1>3, <1>4, UptoInduction
  <1>6. Len(s) \in T
    BY <1>5
  <1> QED
    BY <1>1, <1>6 DEF T

\* Answers are of none, one or two packets.
Outcome(sv, st) == [srv |-> sv, stream |-> st]
LEMMA EmitNone == \A sv, st : Emit(sv, st, <<>>) = Outcome(sv, st)
PROOF
  <1> TAKE sv, st
  <1> DEFINE e == Outcome(sv, st)
             P(g) == g = [i \in 0 .. 0 |-> IF i = 0 THEN e ELSE Emitted(g[i - 1], <<>>[i])]
             c == CHOOSE g : P(g)
             w == [i \in 0 .. 0 |-> e]
  <1>1. P(w)
    OBVIOUS
  <1>2. P(c)
    <2> HIDE DEF P, w
    <2> QED
      BY <1>1
  <1>3. c[0] = e
    BY <1>2
  <1>4. Len(<<>>) = 0
    OBVIOUS
  <1>5. Emit(sv, st, <<>>) = c[0]
    BY <1>4 DEF Emit, InOrder, Outcome
  <1> QED
    BY <1>3, <1>5

LEMMA EmitOne == \A sv, st, a : Emit(sv, st, <<a>>) = Emitted(Outcome(sv, st), a)
PROOF
  <1> TAKE sv, st, a
  <1> DEFINE e == Outcome(sv, st)
             P(g) == g = [i \in 0 .. 1 |-> IF i = 0 THEN e ELSE Emitted(g[i - 1], <<a>>[i])]
             c == CHOOSE g : P(g)
             w == [i \in 0 .. 1 |-> IF i = 0 THEN e ELSE Emitted(e, a)]
  <1>1. P(w)
    <2>1. \A i \in 0 .. 1 : i # 0 => i = 1 /\ i - 1 = 0
      OBVIOUS
    <2>2. w[0] = e /\ <<a>>[1] = a
      OBVIOUS
    <2>3. \A i \in 0 .. 1 : w[i] = IF i = 0 THEN e ELSE Emitted(w[i - 1], <<a>>[i])
      BY <2>1, <2>2
    <2>4. w = [i \in 0 .. 1 |-> w[i]]
      OBVIOUS
    <2> HIDE DEF w, e
    <2> QED
      BY <2>3, <2>4
  <1>2. P(c)
    <2> HIDE DEF P, w
    <2> QED
      BY <1>1
  <1>3. c[0] = e /\ c[1] = Emitted(c[0], a)
    <2> HIDE DEF c, e
    <2> QED
      BY <1>2
  <1>4. Len(<<a>>) = 1
    OBVIOUS
  <1>5. Emit(sv, st, <<a>>) = c[1]
    BY <1>4 DEF Emit, InOrder, Outcome
  <1> QED
    BY <1>3, <1>5

LEMMA EmitTwo ==
  \A sv, st, a, b : Emit(sv, st, <<a, b>>) = Emitted(Emitted(Outcome(sv, st), a), b)
PROOF
  <1> TAKE sv, st, a, b
  <1> DEFINE e == Outcome(sv, st)
             P(g) == g = [i \in 0 .. 2 |-> IF i = 0 THEN e ELSE Emitted(g[i - 1], <<a, b>>[i])]
             c == CHOOSE g : P(g)
             w == [i \in 0 .. 2 |-> IF i = 0 THEN e ELSE IF i = 1 THEN Emitted(e, a)
                                    ELSE Emitted(Emitted(e, a), b)]
  <1>1. P(w)
    <2>1. \A i \in 0 .. 2 : i = 0 \/ (i = 1 /\ i - 1 = 0) \/ (i = 2 /\ i - 1 = 1)
      OBVIOUS
    <2>2. /\ w[0] = e /\ w[1] = Emitted(e, a) /\ w[2] = Emitted(Emitted(e, a), b)
          /\ <<a, b>>[1] = a /\ <<a, b>>[2] = b
      OBVIOUS
    <2>4. w = [i \in 0 .. 2 |-> w[i]]
      OBVIOUS
    <2> HIDE DEF w, e
    <2>3. \A i \in 0 .. 2 : w[i] = IF i = 0 THEN e ELSE Emitted(w[i - 1], <<a, b>>[i])
      BY <2>1, <2>2
    <2> QED
      BY <2>3, <2>4
  <1>2. P(c)
    <2> HIDE DEF P, w
    <2> QED
      BY <1>1
  <1>3. c[0] = e /\ c[1] = Emitted(c[0], a) /\ c[2] = Emitted(c[1], b)
    <2> HIDE DEF c, e
    <2>1. <<a, b>>[1] = a /\ <<a, b>>[2] = b
      OBVIOUS
    <2> QED
      BY <1>2, <2>1
  <1>4. Len(<<a, b>>) = 2
    OBVIOUS
  <1>5. Emit(sv, st, <<a, b>>) = c[2]
    BY <1>4 DEF Emit, InOrder, Outcome
  <1> QED
    BY <1>3, <1>5

\* The units of a packet, and the types of what is emitted.
LEMMA UnitsFacts ==
  ASSUME NEW p \in HostPackets
  PROVE  /\ Units(p) \in Seq(HostUnits) /\ Len(Units(p)) = p.len
         /\ \A k \in 1 .. p.len : Units(p)[k] = [p |-> p, k |-> k]
PROOF
  <1>1. p.len \in {1, 2}
    BY DEF HostPackets
  <1>2. \A k \in 1 .. p.len : [p |-> p, k |-> k] \in HostUnits
    BY <1>1 DEF HostUnits
  <1> QED
    BY <1>1, <1>2 DEF Units

LEMMA ServerPacketTyped ==
  ASSUME NEW sv \in Servers, NEW code \in HostCodes, NEW x \in Values
  PROVE  /\ ServerPacket(sv, code, x) \in HostPackets
         /\ ServerPacket(sv, code, x).code = code /\ ServerPacket(sv, code, x).x = x
         /\ ServerPacket(sv, code, x).id = sv.sent
  BY DEF ServerPacket, HostPackets, Servers

LEMMA SentTyped ==
  ASSUME NEW e \in Emissions, NEW a \in Commands
  PROVE  Sent(e, a) \in Emissions
PROOF
  <1>1. e.srv \in Servers /\ a.code \in HostCodes /\ a.x \in Values
    BY DEF Emissions, Servers, Commands
  <1>2. Units(ServerPacket(e.srv, a.code, a.x)) \in Seq(HostUnits)
    BY <1>1, ServerPacketTyped, UnitsFacts
  <1>3. e.stream \o Units(ServerPacket(e.srv, a.code, a.x)) \in Seq(HostUnits)
    BY <1>2 DEF Emissions
  <1>4. [e.srv EXCEPT !.sent = @ + 1, !.kex = @ \/ a.code = "KEXINIT"] \in Servers
    <2>1. e.srv.sent + 1 \in Nat /\ (e.srv.kex \/ a.code = "KEXINIT") \in BOOLEAN
      BY <1>1 DEF Servers
    <2> QED
      BY <1>1, <2>1 DEF Servers
  <1> QED
    BY <1>3, <1>4 DEF Sent, Emissions, Servers

LEMMA EmittedTyped ==
  ASSUME NEW e \in Emissions, NEW a \in Commands
  PROVE  Emitted(e, a) \in Emissions
PROOF
  <1>1. CASE e.srv.kex /\ a.code \notin KexCodes
    <2>1. Append(e.srv.held, a) \in Seq(Commands)
      BY DEF Emissions
    <2> QED
      BY <1>1, <2>1 DEF Emitted, Emissions
  <1>2. CASE ~(e.srv.kex /\ a.code \notin KexCodes) /\ a.code # "NEWKEYS"
    BY <1>2, SentTyped DEF Emitted
  <1>3. CASE a.code = "NEWKEYS"
    <2> DEFINE d == [Sent(e, a) EXCEPT !.srv.kex = FALSE, !.srv.keys = TRUE, !.srv.held = <<>>]
               S == [i \in 0 .. Len(e.srv.held) |-> Emissions]
    <2>0. <<>> \in Seq(Commands) /\ e.srv.held \in Seq(Commands)
      BY DEF Emissions
    <2>1. d \in Emissions
      BY <2>0, SentTyped, ZenonT(60) DEF Emissions
    <2>2. Len(e.srv.held) \in Nat /\ \A i \in 1 .. Len(e.srv.held) : e.srv.held[i] \in Commands
      BY <2>0
    <2>3. d \in S[0] /\ S[Len(e.srv.held)] = Emissions
      BY <2>1, <2>2
    <2>4. \A i \in 1 .. Len(e.srv.held) : \A b \in S[i - 1] : Sent(b, e.srv.held[i]) \in S[i]
      BY <2>2, SentTyped
    <2> HIDE DEF S, d
    <2>5. InOrder(Sent, d, e.srv.held) \in Emissions
      BY <2>2, <2>3, <2>4, SendsRule
    <2> QED
      BY <1>3, <2>5 DEF Emitted, d, KexCodes
  <1> QED
    BY <1>1, <1>2, <1>3

-----------------------------------------------------------------------------
(* What the variables are, in every state *)

SeenFields == {"typed", "inputs", "requests", "data", "shown", "cut", "early", "extra",
               "failed", "replaced", "mixed", "raw"}
IsHistory(h) ==
  /\ SeenFields \subseteq DOMAIN h
  /\ h.typed \in Seq(Nat) /\ h.inputs \in Nat /\ h.requests \in Nat /\ h.data \in Nat
  /\ h.cut \in BOOLEAN /\ h.early \in BOOLEAN /\ h.extra \in BOOLEAN /\ h.failed \in BOOLEAN
  /\ h.raw \in BOOLEAN
IsSsh(s) == s = NoSession \/ s \in Session

Typed ==
  /\ kind \in Kinds \cup {"none"} /\ awaiting \in BOOLEAN /\ asked \in {"none", "auth", "info"}
  /\ IsSsh(ssh) /\ net \in Seq(ClientPackets) /\ stream \in Seq(HostUnits)
  /\ srv \in Servers /\ IsHistory(seen)

LEMMA SshExists ==
  ASSUME NEW s, IsSsh(s)
  PROVE  (s.exists <=> s \in Session) /\ (~s.exists <=> s = NoSession) /\ s.exists \in BOOLEAN
PROOF
  <1>1. NoSession.exists = FALSE
    BY DEF NoSession
  <1>2. \A t \in Session : t.exists = TRUE
    BY DEF Session
  <1> QED
    BY <1>1, <1>2 DEF IsSsh

LEMMA AskTyped ==
  ASSUME Typed, NEW msgs PROVE Asks(msgs) \in {"none", "auth", "info"}
  BY DEF Asks, Typed

\* The state of a session before the loop over its chunk.
Joined(s, data) ==
  [AccountWindow(Result(s), Len(data), CurrentChannel(s)) EXCEPT
     !.s.firstDecrypted = @ \/ (Len(s.incomplete) > 1 /\ s.encrypted), !.s.incomplete = <<>>]

LEMMA ResultTyped ==
  ASSUME NEW s \in Session
  PROVE  Result(s) \in Results /\ CurrentChannel(s) \in Nat /\ Result(s).s = s
PROOF
  <1>1. <<>> \in Seq(ClientPackets) /\ <<>> \in Seq(Messages)
    OBVIOUS
  <1> QED
    BY <1>1, ZenonT(60) DEF Result, Results, CurrentChannel, Session

LEMMA JoinedTyped ==
  ASSUME NEW s \in Session, NEW data \in Seq(HostUnits)
  PROVE  Joined(s, data) \in Results
PROOF
  <1> DEFINE r == AccountWindow(Result(s), Len(data), CurrentChannel(s))
             size == Len(data)
  <1>1. Result(s) \in Results /\ Result(s).s = s /\ size \in Nat
    BY ResultTyped
  <1>2. r \in Results
    <2>1. s.window \in 0 .. InitialWindow /\ MaxPacketSize \in Nat /\ InitialWindow \in Nat
      BY SshAssumption DEF Session
    <2>2. CASE s.window < size + MaxPacketSize
      <3>0. InitialWindow \in 0 .. InitialWindow
        BY <2>1
      <3>1. [Result(s) EXCEPT !.s.window = InitialWindow] \in Results
        BY <1>1, <3>0 DEF Results, Session
      <3>2. Packet("WINDOW_ADJUST", 0, 0) \in ClientPackets
        BY PacketsTyped DEF Values, ClientCodes
      <3> QED
        BY <1>1, <2>2, <3>1, <3>2, PartsTyped DEF AccountWindow
    <2>3. CASE ~(s.window < size + MaxPacketSize)
      <3>1. s.window - size \in 0 .. InitialWindow
        BY <1>1, <2>1, <2>3
      <3>2. [Result(s) EXCEPT !.s.window = @ - size] \in Results
        BY <1>1, <3>1 DEF Results, Session
      <3> QED
        BY <1>1, <2>3, <3>2 DEF AccountWindow
    <2> QED
      BY <2>2, <2>3
  <1> HIDE DEF r
  <1>3. <<>> \in Seq(HostUnits) /\ (r.s.firstDecrypted \/ (Len(s.incomplete) > 1 /\ s.encrypted)) \in BOOLEAN
    BY <1>2 DEF Results, Session
  <1> QED
    BY <1>2, <1>3 DEF Joined, r, Results, Session

LEMMA ProcessIs ==
  ASSUME NEW s \in Session, NEW data \in Seq(HostUnits)
  PROVE  /\ processEncryptedData(s, data) =
              ReadLoop(Joined(s, data), s.incomplete \o data, CurrentChannel(s))
         /\ processEncryptedData(s, data) \in Results
PROOF
  <1>1. s.exists = TRUE /\ s.incomplete \o data \in Seq(HostUnits) /\ CurrentChannel(s) \in Nat
    <2>1. s.exists = TRUE /\ s.incomplete \in Seq(HostUnits)
      BY DEF Session
    <2> QED
      BY <2>1, ResultTyped
  <1>2. processEncryptedData(s, data) =
              ReadLoop(Joined(s, data), s.incomplete \o data, CurrentChannel(s))
    BY <1>1 DEF processEncryptedData, Joined
  <1> QED
    BY <1>1, <1>2, JoinedTyped, ReadLoopTyped

LEMMA FirstChunk ==
  ASSUME NEW data
  PROVE  LET r == processEncryptedData(NoSession, data) IN
         /\ r \in Results /\ r.s = NewSession /\ r.out = <<Plain("VERSION")>>
         /\ r.msgs = <<>> /\ r.error = FALSE
PROOF
  <1>1. ~NoSession.exists
    BY DEF NoSession
  <1>2. [NewSession EXCEPT !.received = 0] = NewSession
    BY DEF NewSession
  <1>3. processEncryptedData(NoSession, data) = Send(Result(NewSession), Plain("VERSION"))
    BY <1>1, <1>2 DEF processEncryptedData
  <1>4. Result(NewSession) \in Results /\ Plain("VERSION") \in ClientPackets
    BY NewSessionTyped, ResultTyped, PacketsTyped DEF Values, ClientCodes
  <1>5. Send(Result(NewSession), Plain("VERSION")) \in Results
    BY <1>4, PartsTyped
  <1>6. Append(<<>>, Plain("VERSION")) = <<Plain("VERSION")>>
    OBVIOUS
  <1> QED
    BY <1>3, <1>5, <1>6 DEF Send, Result

\* What handleData makes of an SSH connection.
LEMMA SshDataOutcome ==
  ASSUME Typed, NEW n \in 1 .. Len(stream), sshData(SubSeq(stream, 1, n))
  PROVE  LET chunk == SubSeq(stream, 1, n)
             r == processEncryptedData(ssh, chunk) IN
         /\ chunk \in Seq(HostUnits) /\ r \in Results /\ ssh' = r.s
         /\ asked' = Asks(r.msgs)
         /\ IsHistory(seen') /\ seen'.typed = seen.typed /\ seen'.inputs = seen.inputs
         /\ seen'.extra = seen.extra /\ seen'.raw = seen.raw /\ seen'.data = seen.data
         /\ UNCHANGED <<kind, cur, listeners, awaiting, buffered, srv>>
         /\ \/ closeConnection
            \/ /\ ~r.error /\ net' = net \o r.out
               /\ stream' = SubSeq(stream, n + 1, Len(stream))
               /\ UNCHANGED <<ws, conn, socks, open>>
PROOF
  <1> DEFINE chunk == SubSeq(stream, 1, n)
             r == processEncryptedData(ssh, chunk)
             ends == r.error \/ \E i \in DOMAIN r.msgs : r.msgs[i].code = "DISCONNECT"
  <1>1. chunk \in Seq(HostUnits) /\ Len(chunk) = n
    BY DEF Typed
  <1> HIDE DEF chunk
  <1>2. r \in Results
    <2>1. CASE ssh = NoSession
      BY <2>1, FirstChunk
    <2>2. CASE ssh \in Session
      BY <1>1, <2>2, ProcessIs
    <2> QED
      BY <2>1, <2>2 DEF Typed, IsSsh
  <1> DEFINE show == IF ends THEN seen.shown ELSE Show(DataIn(r.msgs))
             early == r.s.exists /\ r.s.kex /\ r.s.authenticated /\ r.s.channels = <<>>
  <1>3. seen' = [seen EXCEPT !.shown = show, !.cut = @ \/ Cut(ssh, chunk),
                             !.early = @ \/ early, !.failed = @ \/ r.error]
    BY DEF sshData, chunk
  <1>4. (ssh' = r.s) /\ (asked' = Asks(r.msgs)) /\ UNCHANGED <<kind, cur, listeners, awaiting, buffered, srv>>
    BY DEF sshData, chunk
  <1>5. IF ends THEN closeConnection
        ELSE /\ net' = net \o r.out
             /\ stream' = SubSeq(stream, Len(chunk) + 1, Len(stream))
             /\ UNCHANGED <<ws, conn, socks, open>>
    BY <1>4 DEF sshData, chunk
  <1> HIDE DEF show, early, r
  <1>6. /\ (seen.cut \/ Cut(ssh, chunk)) \in BOOLEAN /\ (seen.early \/ early) \in BOOLEAN
        /\ (seen.failed \/ r.error) \in BOOLEAN
    OBVIOUS
  <1>7. /\ IsHistory(seen') /\ seen'.typed = seen.typed /\ seen'.inputs = seen.inputs
        /\ seen'.extra = seen.extra /\ seen'.raw = seen.raw /\ seen'.data = seen.data
    BY <1>3, <1>6 DEF Typed, IsHistory, SeenFields
  <1> QED
    BY <1>1, <1>2, <1>4, <1>5, <1>7 DEF r, chunk

\* A command of the user.
LEMMA SendTyped ==
  ASSUME NEW s \in Session, NEW code \in ClientCodes, NEW x \in Values
  PROVE  LET r == sendSSHData(s, code, x) IN r \in Results /\ r.msgs = <<>> /\ ~r.error
PROOF
  <1> DEFINE ch == IF HasChannel(s, s.primary) THEN s.channels[s.primary].server ELSE 0
             pdu == Packet(code, ch, x)
             r == sendSSHData(s, code, x)
  <1>1. Result(s) \in Results /\ Result(s).s = s /\ Result(s).msgs = <<>> /\ Result(s).error = FALSE
    BY ResultTyped DEF Result
  <1>2. ch \in Values
    <2>1. IsChannels(s.channels)
      BY ChannelsAre DEF Session
    <2> QED
      BY <2>1 DEF IsChannels, HasChannel, Channel, Values
  <1>3. pdu \in ClientPackets
    BY <1>2, PacketsTyped
  <1> HIDE DEF pdu
  <1>4. CASE r = Result(s)
    BY <1>1, <1>4
  <1>5. CASE r = Result([s EXCEPT !.queue = Append(@, pdu)])
    <2>1. Append(s.queue, pdu) \in Seq(ClientPackets)
      BY <1>3 DEF Session
    <2> DEFINE q == [s EXCEPT !.queue = Append(@, pdu)]
    <2>2. q \in Session
      BY <2>1 DEF Session
    <2> HIDE DEF r, q
    <2>3. Result(q) \in Results /\ Result(q).msgs = <<>> /\ Result(q).error = FALSE
      BY <2>2, ResultTyped DEF Result
    <2>4. r = Result(q)
      BY <1>5 DEF q
    <2> QED
      BY <2>3, <2>4 DEF r
  <1>6. CASE r = Send(Flush(Result(s)), pdu)
    <2>1. Flush(Result(s)) \in Results
      BY <1>1, PartsTyped
    <2>2. Flush(Result(s)).msgs = <<>> /\ Flush(Result(s)).error = FALSE
      BY <1>1 DEF Flush, Results
    <2> HIDE DEF r
    <2>3. Send(Flush(Result(s)), pdu) \in Results
      BY <1>3, <2>1, PartsTyped
    <2>4. /\ Send(Flush(Result(s)), pdu).msgs = <<>> /\ Send(Flush(Result(s)), pdu).error = FALSE
      BY <2>1, <2>2 DEF Send, Results
    <2> QED
      BY <1>6, <2>3, <2>4 DEF r
  <1> QED
    BY <1>4, <1>5, <1>6 DEF sendSSHData, pdu

LEMMA SendToHostOutcome ==
  ASSUME Typed, SshReady, NEW code \in ClientCodes, NEW x \in Values, sendToHost(code, x)
  PROVE  LET r == sendSSHData(ssh, code, x) IN
         /\ ssh \in Session /\ r \in Results /\ ssh' = r.s /\ net' = net \o r.out
         /\ ssh' \in Session /\ net' \in Seq(ClientPackets)
PROOF
  <1> DEFINE r == sendSSHData(ssh, code, x)
  <1>1. ssh \in Session
    BY SshExists DEF SshReady, Typed
  <1>2. r \in Results
    BY <1>1, SendTyped
  <1>3. ssh' = r.s /\ net' = net \o r.out
    BY DEF sendToHost
  <1> HIDE DEF r
  <1>4. r.s \in Session /\ net \o r.out \in Seq(ClientPackets)
    BY <1>2 DEF Results, Typed
  <1> QED
    BY <1>1, <1>2, <1>3, <1>4 DEF r

LEMMA EmissionsAre ==
  \A sv, st : Outcome(sv, st) \in Emissions <=> sv \in Servers /\ st \in Seq(HostUnits)
  BY DEF Outcome, Emissions, Servers

LEMMA EmitTyped ==
  ASSUME NEW sv \in Servers, NEW st \in Seq(HostUnits), NEW codes,
         \/ codes = <<>>
         \/ \E a \in Commands : codes = <<a>>
         \/ \E a, b \in Commands : codes = <<a, b>>
  PROVE  Emit(sv, st, codes) \in Emissions
  BY EmitNone, EmitOne, EmitTwo, EmittedTyped, EmissionsAre

LEMMA CodeTyped ==
  /\ \A code \in HostCodes : Code(code) \in Commands
  /\ \A code \in HostCodes, x \in Values : [code |-> code, x |-> x] \in Commands
  BY DEF Code, Commands, Values

LEMMA AnswersTyped ==
  ASSUME Typed, NEW p, NEW codes \in Answers(p)
  PROVE  \/ codes = <<>>
         \/ \E a \in Commands : codes = <<a>>
         \/ \E a, b \in Commands : codes = <<a, b>>
PROOF
  <1>1. srv.method \in Values
    BY DEF Typed, Servers, Values
  <1>2. [code |-> "KEXINIT", x |-> srv.method] \in Commands
    BY <1>1, CodeTyped DEF HostCodes
  <1>3. \A code \in HostCodes : Code(code) \in Commands
    BY CodeTyped
  <1>4. \/ codes = <<>> \/ codes = <<[code |-> "KEXINIT", x |-> srv.method]>>
        \/ \E c \in HostCodes : codes = <<Code(c)>>
        \/ \E c, d \in HostCodes : codes = <<Code(c), Code(d)>>
    BY DEF Answers, HostCodes
  <1> QED
    BY <1>2, <1>3, <1>4

\* What the server reads and answers.
ReadBy(p) ==
  LET odd == p.code = "RAW" \/ (srv.quiet /\ p.code \notin KexCodes \cup {"WINDOW_ADJUST"})
  IN  [srv EXCEPT !.confused = @ \/ odd,
                  !.tries = IF p.code = "USERAUTH_REQUEST" /\ @ < MaxRetries THEN @ + 1 ELSE @,
                  !.quiet = IF p.code = "KEXINIT" THEN TRUE
                            ELSE IF p.code = "NEWKEYS" THEN FALSE ELSE @,
                  !.got = IF p.code = "CHANNEL_DATA" THEN Append(@, p.x) ELSE @]
LEMMA ReadByFacts ==
  ASSUME Typed, NEW p \in ClientPackets
  PROVE  LET read == ReadBy(p) IN
         /\ read \in Servers
         /\ read.sent = srv.sent /\ read.kex = srv.kex /\ read.keys = srv.keys
         /\ read.held = srv.held /\ read.over = srv.over /\ read.authed = srv.authed
         /\ read.method = srv.method
         /\ read.confused = (srv.confused \/ p.code = "RAW"
                             \/ (srv.quiet /\ p.code \notin KexCodes \cup {"WINDOW_ADJUST"}))
         /\ read.quiet = (p.code = "KEXINIT" \/ (p.code # "NEWKEYS" /\ srv.quiet))
         /\ read.got = IF p.code = "CHANNEL_DATA" THEN Append(srv.got, p.x) ELSE srv.got
PROOF
  <1> DEFINE odd == p.code = "RAW" \/ (srv.quiet /\ p.code \notin KexCodes \cup {"WINDOW_ADJUST"})
             confused == srv.confused \/ odd
             tries == IF p.code = "USERAUTH_REQUEST" /\ srv.tries < MaxRetries
                      THEN srv.tries + 1 ELSE srv.tries
             quiet == IF p.code = "KEXINIT" THEN TRUE
                      ELSE IF p.code = "NEWKEYS" THEN FALSE ELSE srv.quiet
             got == IF p.code = "CHANNEL_DATA" THEN Append(srv.got, p.x) ELSE srv.got
  <1>1. srv \in Servers /\ p.x \in Values
    BY DEF Typed, ClientPackets
  <1>2. confused \in BOOLEAN /\ tries \in Nat /\ quiet \in BOOLEAN
    <2>1. srv.confused \in BOOLEAN /\ srv.quiet \in BOOLEAN /\ srv.tries \in Nat
      BY <1>1 DEF Servers
    <2>2. confused \in BOOLEAN
      BY <2>1, Zenon
    <2>3. tries \in Nat
      BY <2>1
    <2>4. quiet \in BOOLEAN
      BY <2>1
    <2> QED
      BY <2>2, <2>3, <2>4
  <1>3. got \in Seq(Values)
    BY <1>1 DEF Servers
  <1>4. quiet = (p.code = "KEXINIT" \/ (p.code # "NEWKEYS" /\ srv.quiet))
    <2>1. srv.quiet \in BOOLEAN
      BY <1>1 DEF Servers
    <2> QED
      BY <2>1
  <1> HIDE DEF confused, tries, quiet, got
  <1>5. ReadBy(p) = [srv EXCEPT !.confused = confused, !.tries = tries, !.quiet = quiet, !.got = got]
    BY DEF ReadBy, confused, tries, quiet, got
  <1>6. /\ ReadBy(p) \in Servers /\ ReadBy(p).confused = confused /\ ReadBy(p).quiet = quiet
        /\ ReadBy(p).got = got /\ ReadBy(p).sent = srv.sent /\ ReadBy(p).kex = srv.kex
        /\ ReadBy(p).keys = srv.keys /\ ReadBy(p).held = srv.held /\ ReadBy(p).over = srv.over
        /\ ReadBy(p).authed = srv.authed /\ ReadBy(p).method = srv.method
    BY <1>1, <1>2, <1>3, <1>5, ZenonT(60) DEF Servers
  <1> QED
    BY <1>4, <1>6 DEF confused, got

Login == <<Code("USERAUTH_SUCCESS")>>
Greets(sv, answer) == [sv EXCEPT !.authed = @ \/ answer = Login]
LEMMA GreetsFacts ==
  ASSUME NEW sv \in Servers, NEW answer
  PROVE  LET s == Greets(sv, answer) IN
         /\ s \in Servers /\ s.authed = (sv.authed \/ answer = Login)
         /\ s.sent = sv.sent /\ s.kex = sv.kex /\ s.keys = sv.keys /\ s.held = sv.held
         /\ s.over = sv.over /\ s.method = sv.method /\ s.confused = sv.confused
         /\ s.quiet = sv.quiet /\ s.got = sv.got
PROOF
  <1> DEFINE authed == sv.authed \/ answer = Login
  <1>1. authed \in BOOLEAN
    OBVIOUS
  <1> HIDE DEF authed
  <1>2. Greets(sv, answer) = [sv EXCEPT !.authed = authed]
    BY DEF Greets, authed
  <1> QED
    BY <1>1, <1>2 DEF Servers, authed

LEMMA ServerReadsOutcome ==
  ASSUME Typed, serverReads
  PROVE  /\ kind = "ssh" /\ net # <<>> /\ Head(net) \in ClientPackets /\ ~srv.over /\ ~srv.confused
         /\ cur # 0 /\ socks[cur] = "up"
         /\ \E answer \in Answers(Head(net)) :
              LET e == Emit(Greets(ReadBy(Head(net)), answer), stream, answer) IN
              /\ e \in Emissions /\ srv' = e.srv /\ stream' = e.stream
         /\ net' = Tail(net)
         /\ UNCHANGED <<client, ws, conn, cur, socks, listeners, open>>
PROOF
  <1>1. net # <<>> /\ net \in Seq(ClientPackets)
    BY DEF serverReads, Typed
  <1>2. Head(net) \in ClientPackets
    BY <1>1
  <1>3. PICK answer \in Answers(Head(net)) :
          LET e == Emit(Greets(ReadBy(Head(net)), answer), stream, answer) IN
          srv' = e.srv /\ stream' = e.stream
    BY DEF serverReads, ReadBy, Greets, Login
  <1>4. Greets(ReadBy(Head(net)), answer) \in Servers
    BY <1>2, ReadByFacts, GreetsFacts
  <1>5. Emit(Greets(ReadBy(Head(net)), answer), stream, answer) \in Emissions
    BY <1>4, AnswersTyped, EmitTyped DEF Typed
  <1> QED
    BY <1>1, <1>2, <1>3, <1>5 DEF serverReads

LEMMA SpeaksOutcome ==
  ASSUME Typed, NEW sv \in Servers, NEW code \in HostCodes, NEW x \in Values,
         ServerSpeaks(sv, code, x)
  PROVE  LET c == [code |-> code, x |-> x]
             e == Emitted(Outcome(sv, stream), c) IN
         /\ c \in Commands /\ Outcome(sv, stream) \in Emissions
         /\ e \in Emissions /\ srv' = e.srv /\ stream' = e.stream
         /\ cur # 0 /\ socks[cur] = "up" /\ ~srv.over
         /\ UNCHANGED <<ws, kind, conn, cur, socks, listeners, awaiting, buffered, open,
                        ssh, asked, net>>
PROOF
  <1> DEFINE c == [code |-> code, x |-> x]
  <1>1. c \in Commands
    BY CodeTyped
  <1> HIDE DEF c
  <1>2. Outcome(sv, stream) \in Emissions
    BY EmissionsAre DEF Typed
  <1>3. Emitted(Outcome(sv, stream), c) \in Emissions
    BY <1>1, <1>2, EmittedTyped
  <1>4. Emit(sv, stream, <<c>>) = Emitted(Outcome(sv, stream), c)
    BY EmitOne
  <1> QED
    BY <1>1, <1>2, <1>3, <1>4 DEF ServerSpeaks, c

\* What connectHandler lets the server say first.
LEMMA GreetingTyped ==
  ASSUME Typed, NEW k \in Sockets, connectHandler(k)
  PROVE  stream' \in Seq(HostUnits) /\ srv' \in Servers
PROOF
  <1>1. CASE kind # "ssh"
    BY <1>1 DEF connectHandler, Typed
  <1>2. CASE kind = "ssh"
    <2>1. PICK eager \in BOOLEAN, method \in {"gex", "old"} :
            /\ stream' = Units([id |-> 0, code |-> "VERSION", x |-> method, len |-> 1]) \o
                   IF eager THEN Units(ServerPacket(srv, "KEXINIT", method)) ELSE <<>>
            /\ srv' = [srv EXCEPT !.kex = eager, !.sent = IF eager THEN 1 ELSE 0,
                                  !.method = method]
      BY <1>2 DEF connectHandler
    <2>2. [id |-> 0, code |-> "VERSION", x |-> method, len |-> 1] \in HostPackets
      BY DEF HostPackets, HostCodes, Values
    <2>3. ServerPacket(srv, "KEXINIT", method) \in HostPackets
      BY ServerPacketTyped DEF Typed, HostCodes, Values
    <2>4. srv' \in Servers
      BY <2>1 DEF Typed, Servers
    <2>5. /\ Units([id |-> 0, code |-> "VERSION", x |-> method, len |-> 1]) \in Seq(HostUnits)
          /\ Units(ServerPacket(srv, "KEXINIT", method)) \in Seq(HostUnits)
          /\ <<>> \in Seq(HostUnits)
      BY <2>2, <2>3, UnitsFacts
    <2>6. stream' \in Seq(HostUnits)
      BY <2>1, <2>5
    <2> QED
      BY <2>4, <2>6
  <1> QED
    BY <1>1, <1>2

LEMMA InitTyped == Init => Typed
PROOF
  <1> SUFFICES ASSUME Init PROVE Typed
    OBVIOUS
  <1>1. /\ <<>> \in Seq(ClientPackets) /\ <<>> \in Seq(HostUnits) /\ <<>> \in Seq(Commands)
        /\ <<>> \in Seq(Values) /\ <<>> \in Seq(Nat)
    OBVIOUS
  <1>2. srv \in Servers
    BY <1>1 DEF Init, Servers
  <1>3. IsHistory(seen)
    BY <1>1 DEF Init, IsHistory, SeenFields
  <1> QED
    BY <1>1, <1>2, <1>3 DEF Init, Typed, IsSsh

LEMMA NextTyped == Typed /\ [Next]_vars => Typed'
PROOF
  <1> SUFFICES ASSUME Typed, [Next]_vars PROVE Typed'
    OBVIOUS
  <1>0. <<>> \in Seq(ClientPackets) /\ <<>> \in Seq(HostUnits)
    OBVIOUS
  <1>1. CASE wsError \/ NotJson
    BY <1>0, <1>1 DEF wsError, NotJson, closeConnection, client, Typed
  <1>2. CASE handleWebsocketClosed
    BY <1>0, <1>2 DEF handleWebsocketClosed, client, Typed
  <1>3. ASSUME NEW kd \in Kinds, connect(kd) PROVE Typed'
    <2>1. IsHistory(seen')
      BY <1>3 DEF connect, Typed, IsHistory, SeenFields
    <2> QED
      BY <1>3, <2>1 DEF connect, Typed
  <1>4. ASSUME NEW k \in Sockets, connectHandler(k) PROVE Typed'
    <2>1. awaiting' \in BOOLEAN
      BY <1>4 DEF connectHandler, Typed
    <2> QED
      BY <1>4, <2>1, GreetingTyped DEF connectHandler, Typed
  <1>5. ASSUME NEW k \in Sockets, hostError(k) \/ hostCloses(k) \/ hostSocketClosed(k)
        PROVE  Typed'
    <2>1. net' \in Seq(ClientPackets) /\ stream' \in Seq(HostUnits)
      BY <1>0, <1>5 DEF hostError, hostCloses, hostSocketClosed, Typed
    <2>2. UNCHANGED <<client, srv>>
      BY <1>5 DEF hostError, hostCloses, hostSocketClosed
    <2> QED
      BY <2>1, <2>2 DEF client, Typed
  <1>6. ASSUME NEW n \in 1 .. Len(stream), handleData(n) PROVE Typed'
    <2>1. CASE kind = "ssh"
      <3> DEFINE r == processEncryptedData(ssh, SubSeq(stream, 1, n))
      <3>1. sshData(SubSeq(stream, 1, n))
        BY <1>6, <2>1 DEF handleData
      <3>2. /\ r \in Results /\ ssh' = r.s /\ asked' = Asks(r.msgs)
            /\ IsHistory(seen') /\ UNCHANGED <<kind, awaiting, srv>>
            /\ \/ closeConnection
               \/ net' = net \o r.out /\ stream' = SubSeq(stream, n + 1, Len(stream))
        BY <3>1, SshDataOutcome
      <3> HIDE DEF r
      <3>3. r.s \in Session /\ r.out \in Seq(ClientPackets) /\ Asks(r.msgs) \in {"none", "auth", "info"}
        BY <3>2, AskTyped DEF Results
      <3>4. net' \in Seq(ClientPackets) /\ stream' \in Seq(HostUnits)
        <4>1. CASE closeConnection
          BY <1>0, <4>1 DEF closeConnection
        <4>2. CASE net' = net \o r.out /\ stream' = SubSeq(stream, n + 1, Len(stream))
          <5>1. net' \in Seq(ClientPackets)
            BY <3>3, <4>2 DEF Typed
          <5>2. n + 1 \in 1 .. Len(stream) + 1 /\ stream \in Seq(HostUnits)
            BY DEF Typed
          <5>3. SubSeq(stream, n + 1, Len(stream)) \in Seq(HostUnits)
            BY <5>2
          <5> QED
            BY <4>2, <5>1, <5>3
        <4> QED
          BY <3>2, <4>1, <4>2
      <3> QED
        BY <3>2, <3>3, <3>4 DEF Typed, IsSsh
    <2>2. CASE kind # "ssh"
      <3>1. /\ stream' = SubSeq(stream, n + 1, Len(stream))
            /\ UNCHANGED <<kind, awaiting, ssh, asked, net, srv>>
        BY <1>6, <2>2 DEF handleData
      <3>2. IsHistory(seen')
        BY <1>6, <2>2 DEF handleData, Typed, IsHistory, SeenFields
      <3>3. n + 1 \in 1 .. Len(stream) + 1 /\ stream \in Seq(HostUnits)
        BY DEF Typed
      <3>4. stream' \in Seq(HostUnits)
        BY <3>1, <3>3
      <3> QED
        BY <3>1, <3>2, <3>4 DEF Typed
    <2> QED
      BY <2>1, <2>2
  <1>7. ASSUME NEW fingerprint \in BOOLEAN, NEW accept \in BOOLEAN,
               certificateAnswer(fingerprint, accept)
        PROVE  Typed'
    <2>1. IsHistory(seen')
      BY <1>7 DEF certificateAnswer, Typed, IsHistory, SeenFields
    <2>2. awaiting' \in BOOLEAN
      BY <1>7 DEF certificateAnswer, Typed
    <2> QED
      BY <1>7, <2>1, <2>2 DEF certificateAnswer, Idle, Typed
  <1>8. CASE clientData
    <2> DEFINE x == seen.inputs + 1
    <2>0. x \in Nat /\ x \in Values /\ seen.typed \in Seq(Nat)
      BY DEF Typed, IsHistory, Values
    <2>1. IsHistory(seen')
      <3>1. Append(seen.typed, x) \in Seq(Nat)
        BY <2>0
      <3>2. (seen.raw \/ (kind = "ssh" /\ ~ssh.exists)) \in BOOLEAN
        OBVIOUS
      <3>3. seen' = [seen EXCEPT !.inputs = x, !.typed = Append(@, x),
                            !.raw = @ \/ (kind = "ssh" /\ ~ssh.exists)]
        BY <1>8 DEF clientData
      <3> HIDE DEF x
      <3> QED
        BY <2>0, <3>1, <3>2, <3>3 DEF Typed, IsHistory, SeenFields
    <2>2. IsSsh(ssh') /\ net' \in Seq(ClientPackets)
      <3>1. CASE SshReady
        <4>1. sendToHost("CHANNEL_DATA", x)
          BY <1>8, <3>1 DEF clientData
        <4> QED
          BY <2>0, <3>1, <4>1, SendToHostOutcome DEF ClientCodes, IsSsh
      <3>2. CASE ~SshReady
        <4>1. net' = Append(net, Packet("RAW", 0, x)) /\ ssh' = ssh
          BY <1>8, <3>2 DEF clientData
        <4>2. Packet("RAW", 0, x) \in ClientPackets
          BY <2>0, PacketsTyped DEF ClientCodes, Values
        <4> QED
          BY <4>1, <4>2 DEF Typed
      <3> QED
        BY <3>1, <3>2
    <2> QED
      BY <1>8, <2>1, <2>2 DEF clientData, Idle, Typed
  <1>9. CASE authenticationAnswer
    <2>1. PICK code \in {"USERAUTH_REQUEST", "USERAUTH_INFO_RESPONSE"} : sendToHost(code, 0)
      BY <1>9 DEF authenticationAnswer
    <2>2. code \in ClientCodes /\ 0 \in Values /\ SshReady
      BY <1>9 DEF authenticationAnswer, ClientCodes, Values
    <2>3. IsSsh(ssh') /\ net' \in Seq(ClientPackets)
      BY <2>1, <2>2, SendToHostOutcome DEF IsSsh
    <2> QED
      BY <1>9, <2>3 DEF authenticationAnswer, Idle, Typed
  <1>10. ASSUME NEW x \in {0, 1}, channelRequest(x) PROVE Typed'
    <2>1. SshReady /\ sendToHost("CHANNEL_REQUEST", x) /\ x \in Values
      BY <1>10 DEF channelRequest, Values
    <2>2. IsSsh(ssh') /\ net' \in Seq(ClientPackets)
      BY <2>1, SendToHostOutcome DEF IsSsh, ClientCodes
    <2>3. IsHistory(seen')
      <3>1. seen.requests + 1 \in Nat /\ (seen.extra \/ x = 1) \in BOOLEAN
        BY DEF Typed, IsHistory
      <3>2. seen' = [seen EXCEPT !.requests = @ + 1, !.extra = @ \/ x = 1]
        BY <1>10 DEF channelRequest
      <3> QED
        BY <3>1, <3>2 DEF Typed, IsHistory, SeenFields
    <2> QED
      BY <1>10, <2>2, <2>3 DEF channelRequest, Idle, Typed
  <1>11. CASE serverReads
    <2>1. /\ srv' \in Servers /\ stream' \in Seq(HostUnits) /\ net' = Tail(net) /\ net # <<>>
          /\ UNCHANGED client
      BY <1>11, ServerReadsOutcome DEF Emissions, Servers
    <2>2. net' \in Seq(ClientPackets)
      BY <2>1 DEF Typed
    <2> QED
      BY <2>1, <2>2 DEF client, Typed
  <1>12. CASE hostReads
    <2>1. Head(net) \in ClientPackets /\ Tail(net) \in Seq(ClientPackets)
      BY <1>12 DEF hostReads, Typed
    <2>2. Append(srv.got, Head(net).x) \in Seq(Values)
      BY <2>1 DEF Typed, Servers, ClientPackets
    <2>3. srv' \in Servers
      BY <1>12, <2>2 DEF hostReads, Typed, Servers
    <2> QED
      BY <1>12, <2>1, <2>3 DEF hostReads, client, Typed
  <1>13. CASE hostSends
    <2>1. seen.data + 1 \in Nat /\ seen.data + 1 \in Values /\ "CHANNEL_DATA" \in HostCodes
          /\ srv \in Servers
      BY DEF Typed, IsHistory, Values, HostCodes
    <2>2. ServerSpeaks(srv, "CHANNEL_DATA", seen.data + 1)
      BY <1>13 DEF hostSends
    <2>3. /\ srv' \in Servers /\ stream' \in Seq(HostUnits)
          /\ UNCHANGED <<kind, awaiting, asked, ssh, net>>
      BY <2>1, <2>2, SpeaksOutcome, ZenonT(60) DEF Emissions, Servers
    <2>4. IsHistory(seen')
      BY <1>13, <2>1 DEF hostSends, Typed, IsHistory, SeenFields
    <2> QED
      BY <2>3, <2>4 DEF Typed
  <1>14. CASE serverRekeys
    <2> DEFINE sv == [srv EXCEPT !.rekeys = @ + 1]
    <2>1. srv.rekeys + 1 \in Nat /\ srv.method \in Values /\ srv \in Servers
      BY DEF Typed, Servers, Values
    <2>2. sv \in Servers /\ "KEXINIT" \in HostCodes
      BY <2>1 DEF Servers, HostCodes
    <2> DEFINE x == srv.method
    <2>3. ServerSpeaks(sv, "KEXINIT", x) /\ seen' = seen /\ x \in Values
      BY <1>14, <2>1 DEF serverRekeys
    <2> HIDE DEF sv, x
    <2>4. /\ srv' \in Servers /\ stream' \in Seq(HostUnits)
          /\ UNCHANGED <<kind, awaiting, asked, ssh, net>>
      BY <2>2, <2>3, SpeaksOutcome, ZenonT(60) DEF Emissions, Servers
    <2> QED
      BY <2>3, <2>4 DEF Typed
  <1>15. CASE serverDisconnects
    <2> DEFINE sv == [srv EXCEPT !.over = TRUE]
    <2>2. sv \in Servers /\ "DISCONNECT" \in HostCodes /\ 0 \in Values
      BY DEF Typed, Servers, HostCodes, Values
    <2>3. ServerSpeaks(sv, "DISCONNECT", 0) /\ seen' = seen
      BY <1>15 DEF serverDisconnects
    <2> HIDE DEF sv
    <2>4. /\ srv' \in Servers /\ stream' \in Seq(HostUnits)
          /\ UNCHANGED <<kind, awaiting, asked, ssh, net>>
      BY <2>2, <2>3, SpeaksOutcome, ZenonT(60) DEF Emissions, Servers
    <2> QED
      BY <2>3, <2>4 DEF Typed
  <1>16. CASE UNCHANGED vars
    BY <1>16 DEF vars, Typed
  <1> QED
    BY <1>1, <1>2, <1>3, <1>4, <1>5, <1>6, <1>7, <1>8, <1>9, <1>10, <1>11, <1>12, <1>13,
       <1>14, <1>15, <1>16 DEF Next

-----------------------------------------------------------------------------
(* The counters, and the type invariant *)

\* The sockets that have been connected, or have ended, and how many of them
\* there are: a connectHandler makes them one more.
Past(sk) == {k \in Sockets : sk[k] \notin {"none", "connecting"}}
Count(sk) == Cardinality(Past(sk))
Counters ==
  /\ listeners \in [Sockets -> Nat] /\ open \in Nat /\ (conn => open >= 1)
  /\ open <= Count(socks) /\ \A k \in Sockets : listeners[k] <= Count(socks)
  /\ \A k \in Sockets : k > cur => socks[k] = "none"

LEMMA CountFacts ==
  ASSUME NEW sk
  PROVE  /\ IsFiniteSet(Past(sk)) /\ Count(sk) \in 0 .. MaxConnects
         /\ \A q : Past(sk) \subseteq Past(q) => Count(sk) <= Count(q)
         /\ \A q, k : k \notin Past(sk) /\ Past(q) = Past(sk) \cup {k} => Count(q) = Count(sk) + 1
PROOF
  <1>1. IsFiniteSet(Sockets) /\ Cardinality(Sockets) = MaxConnects
    <2>1. 1 \in Int /\ MaxConnects \in Int /\ ~(1 > MaxConnects) /\ MaxConnects - 1 + 1 = MaxConnects
      BY TerminalAssumption
    <2> QED
      BY <2>1, FS_Interval DEF Sockets
  <1>2. \A q : Past(q) \subseteq Sockets
    BY DEF Past
  <1>3. \A q : IsFiniteSet(Past(q)) /\ Cardinality(Past(q)) <= MaxConnects /\ Cardinality(Past(q)) \in Nat
    BY <1>1, <1>2, FS_Subset, FS_CardinalityType
  <1>4. \A q : Past(sk) \subseteq Past(q) => Cardinality(Past(sk)) <= Cardinality(Past(q))
    BY <1>3, FS_Subset
  <1>5. \A k : k \notin Past(sk) => Cardinality(Past(sk) \cup {k}) = Cardinality(Past(sk)) + 1
    BY <1>3, FS_AddElement
  <1> QED
    BY <1>3, <1>4, <1>5 DEF Count

\* No step but connectHandler raises a counter or sets hostConnected, and none
\* makes a socket that has ended new again.
LEMMA CountersKept ==
  ASSUME Counters, UNCHANGED listeners, UNCHANGED conn \/ conn' = FALSE,
         open' = open \/ (conn /\ ~conn' /\ open' = open - 1),
         Past(socks) \subseteq Past(socks'),
         \A k \in Sockets : k > cur' => socks'[k] = "none"
  PROVE  Counters'
PROOF
  <1>1. Count(socks) <= Count(socks') /\ Count(socks) \in Nat /\ Count(socks') \in Nat
    BY CountFacts
  <1>2. open' \in Nat /\ (conn' => open' >= 1) /\ open' <= open
    BY DEF Counters
  <1>3. open' <= Count(socks') /\ \A k \in Sockets : listeners'[k] <= Count(socks')
    BY <1>1, <1>2 DEF Counters
  <1> QED
    BY <1>2, <1>3 DEF Counters

LEMMA DestroyedGrows ==
  ASSUME Ranges, NEW k
  PROVE  /\ Past(socks) \subseteq Past(Destroyed(k))
         /\ \A i \in Sockets : Destroyed(k)[i] = "none" <=> socks[i] = "none"
  BY DestroyedFacts DEF Past, Alive

LEMMA InitCounters == Init => Counters
PROOF
  <1> SUFFICES ASSUME Init PROVE Counters
    OBVIOUS
  <1>1. 0 <= Count(socks)
    BY CountFacts
  <1> QED
    BY <1>1 DEF Init, Counters

LEMMA NextCounters == IInv /\ Counters /\ [Next]_vars => Counters'
PROOF
  <1> SUFFICES ASSUME IInv, Counters, [Next]_vars PROVE Counters'
    OBVIOUS
  <1>0. Ranges
    BY DEF IInv
  <1>1. ASSUME UNCHANGED <<conn, cur, socks, listeners, open>> PROVE Counters'
    BY <1>1 DEF Counters
  <1>2. ASSUME closeConnection, UNCHANGED <<cur, listeners>> PROVE Counters'
    <2>1. Past(socks) \subseteq Past(socks') /\ \A k \in Sockets : k > cur' => socks'[k] = "none"
      BY <1>0, <1>2, DestroyedGrows DEF closeConnection, Counters
    <2> QED
      BY <1>2, <2>1, CountersKept DEF closeConnection
  <1>3. CASE wsError \/ NotJson
    BY <1>2, <1>3 DEF wsError, NotJson
  <1>4. CASE handleWebsocketClosed
    <2>1. Past(socks) \subseteq Past(socks') /\ \A k \in Sockets : k > cur' => socks'[k] = "none"
      BY <1>0, <1>4, DestroyedGrows DEF handleWebsocketClosed, Counters
    <2> QED
      BY <1>4, <2>1, CountersKept DEF handleWebsocketClosed
  <1>5. ASSUME NEW kd \in Kinds, connect(kd) PROVE Counters'
    <2>0. /\ cur' = cur + 1 /\ socks' = [socks EXCEPT ![cur'] = "connecting"]
          /\ UNCHANGED <<conn, listeners, open>> /\ cur < IF kd = "ssh" THEN 1 ELSE MaxConnects
      BY <1>5 DEF connect
    <2>1. cur' \in Sockets /\ cur < cur'
      BY <1>0, <2>0, TerminalAssumption DEF Ranges, Sockets
    <2>2. socks[cur'] = "none"
      BY <1>0, <2>0, <2>1 DEF Counters, Ranges
    <2>3. Past(socks) \subseteq Past(socks')
      BY <1>0, <2>0, <2>2 DEF Past, Ranges
    <2>4. \A k \in Sockets : k > cur' => socks'[k] = "none"
      BY <1>0, <2>0 DEF Counters, Ranges, Sockets
    <2> QED
      BY <2>0, <2>3, <2>4, CountersKept
  <1>6. ASSUME NEW k \in Sockets, connectHandler(k) PROVE Counters'
    <2>1. /\ socks[k] = "connecting" /\ socks' = [socks EXCEPT ![k] = "up"]
          /\ open' = open + 1 /\ conn' = TRUE /\ cur' = cur
          /\ listeners' = [listeners EXCEPT ![cur] = @ + 1]
      BY <1>6 DEF connectHandler
    <2>2. k \notin Past(socks) /\ Past(socks') = Past(socks) \cup {k}
      BY <1>0, <2>1 DEF Past, Ranges
    <2>3. Count(socks') = Count(socks) + 1 /\ Count(socks) \in Nat
      BY <2>2, CountFacts
    <2>4. listeners' \in [Sockets -> Nat] /\ \A i \in Sockets : listeners'[i] <= listeners[i] + 1
      <3>1. \A i \in Sockets : listeners[i] \in Nat /\ listeners[i] + 1 \in Nat
        BY DEF Counters
      <3>2. listeners \in [Sockets -> Nat]
        BY DEF Counters
      <3>3. listeners' \in [Sockets -> Nat]
        BY <2>1, <3>1, <3>2
      <3>4. ASSUME NEW i \in Sockets PROVE listeners'[i] <= listeners[i] + 1
        <4>1. listeners'[i] = listeners[i] \/ listeners'[i] = listeners[i] + 1
          BY <2>1, <3>2
        <4> QED
          BY <3>1, <4>1
      <3> QED
        BY <3>3, <3>4
    <2>5. \A i \in Sockets : listeners'[i] <= Count(socks')
      <3>1. \A i \in Sockets : listeners[i] \in Nat /\ listeners'[i] \in Nat /\ listeners[i] <= Count(socks)
        BY <2>4 DEF Counters
      <3> QED
        BY <2>3, <2>4, <3>1
    <2>6. open' \in Nat /\ open' >= 1 /\ open' <= Count(socks')
      BY <2>1, <2>3 DEF Counters
    <2>7. \A i \in Sockets : i > cur' => socks'[i] = "none"
      BY <1>0, <2>1 DEF Counters, Ranges
    <2> QED
      BY <2>4, <2>5, <2>6, <2>7 DEF Counters
  <1>7. ASSUME NEW k \in Sockets, hostError(k) PROVE Counters'
    <2>1. socks' = [Destroyed(cur) EXCEPT ![k] = "closing"] /\ socks[k] # "none" /\ UNCHANGED <<cur, listeners>>
      BY <1>7 DEF hostError, Alive, client
    <2>2. /\ Past(socks) \subseteq Past(Destroyed(cur))
          /\ \A i \in Sockets : Destroyed(cur)[i] = "none" <=> socks[i] = "none"
          /\ Destroyed(cur) \in [Sockets -> {"none", "connecting", "up", "closing", "closed"}]
      BY <1>0, DestroyedGrows, DestroyedFacts
    <2>3. Past(socks) \subseteq Past(socks') /\ \A i \in Sockets : i > cur' => socks'[i] = "none"
      BY <2>1, <2>2 DEF Past, Counters
    <2> QED
      BY <1>7, <2>1, <2>3, CountersKept DEF hostError
  <1>8. ASSUME NEW k \in Sockets, hostCloses(k) PROVE Counters'
    <2>1. /\ socks[k] = "up" /\ socks' = [socks EXCEPT ![k] = "closing"]
          /\ UNCHANGED <<conn, cur, listeners, open>>
      BY <1>8 DEF hostCloses
    <2>2. Past(socks) \subseteq Past(socks') /\ \A i \in Sockets : i > cur' => socks'[i] = "none"
      BY <1>0, <2>1 DEF Past, Counters, Ranges
    <2> QED
      BY <2>1, <2>2, CountersKept
  <1>9. ASSUME NEW k \in Sockets, hostSocketClosed(k) PROVE Counters'
    <2>1. socks[k] = "closing" /\ UNCHANGED <<cur, listeners>>
      BY <1>9 DEF hostSocketClosed
    <2>2. /\ Past(socks) \subseteq Past(Destroyed(cur))
          /\ \A i \in Sockets : Destroyed(cur)[i] = "none" <=> socks[i] = "none"
          /\ Destroyed(cur) \in [Sockets -> {"none", "connecting", "up", "closing", "closed"}]
      BY <1>0, DestroyedGrows, DestroyedFacts
    <2>3. CASE listeners[k] = 0
      <3>1. socks' = [socks EXCEPT ![k] = "closed"] /\ UNCHANGED <<conn, open>>
        BY <1>9, <2>3 DEF hostSocketClosed
      <3>2. Past(socks) \subseteq Past(socks') /\ \A i \in Sockets : i > cur' => socks'[i] = "none"
        BY <1>0, <2>1, <3>1 DEF Past, Counters, Ranges
      <3> QED
        BY <2>1, <3>1, <3>2, CountersKept
    <2>4. CASE listeners[k] # 0
      <3>1. socks' = [Destroyed(cur) EXCEPT ![k] = "closed"]
        BY <1>9, <2>4 DEF hostSocketClosed
      <3>2. Past(socks) \subseteq Past(socks') /\ \A i \in Sockets : i > cur' => socks'[i] = "none"
        BY <2>1, <2>2, <3>1 DEF Past, Counters
      <3> QED
        BY <1>9, <2>1, <2>4, <3>2, CountersKept DEF hostSocketClosed
    <2> QED
      BY <2>3, <2>4
  <1>10. ASSUME NEW n \in 1 .. Len(stream), handleData(n) PROVE Counters'
    <2>1. CASE kind = "ssh"
      BY <1>1, <1>2, <1>10, <2>1 DEF handleData, sshData
    <2>2. CASE kind # "ssh"
      BY <1>1, <1>10, <2>2 DEF handleData
    <2> QED
      BY <2>1, <2>2
  <1>11. ASSUME \/ \E fingerprint, accept \in BOOLEAN : certificateAnswer(fingerprint, accept)
                \/ clientData \/ authenticationAnswer \/ \E x \in {0, 1} : channelRequest(x)
         PROVE Counters'
    BY <1>1, <1>11 DEF certificateAnswer, clientData, authenticationAnswer, channelRequest, Idle
  <1>12. ASSUME serverReads \/ hostReads \/ hostSends \/ serverRekeys \/ serverDisconnects
         PROVE  Counters'
    BY <1>1, <1>12 DEF serverReads, hostReads, hostSends, serverRekeys, serverDisconnects, ServerSpeaks
  <1>13. CASE UNCHANGED vars
    BY <1>1, <1>13 DEF vars
  <1> QED
    BY <1>3, <1>4, <1>5, <1>6, <1>7, <1>8, <1>9, <1>10, <1>11, <1>12, <1>13 DEF Next

\* Every variable keeps to its range: whatever the host sends, however TCP
\* cuts it and whatever the user does meanwhile, the session stays one ssh.js
\* knows, its window between nothing and the initial one, and the counters of
\* connections and of listeners no larger than the connections ever made.
THEOREM TypeCorrect == Spec => []TypeOK
PROOF
  <1>1. Spec => [](IInv /\ Counters /\ Typed)
    <2>1. Init => IInv /\ Counters /\ Typed
      BY InitIInv, InitCounters, InitTyped
    <2>2. (IInv /\ Counters /\ Typed) /\ [Next]_vars => (IInv /\ Counters /\ Typed)'
      BY NextIInv, NextCounters, NextTyped
    <2> QED
      BY <2>1, <2>2, PTL DEF Spec
  <1>2. IInv /\ Counters /\ Typed => TypeOK
    <2> SUFFICES ASSUME IInv, Counters, Typed PROVE TypeOK
      OBVIOUS
    <2>1. Count(socks) \in 0 .. MaxConnects
      BY CountFacts
    <2>2. open \in 0 .. MaxConnects /\ listeners \in [Sockets -> 0 .. MaxConnects]
      <3>1. \A k \in Sockets : listeners[k] \in Nat /\ listeners[k] <= Count(socks)
        BY DEF Counters
      <3>2. \A k \in Sockets : listeners[k] \in 0 .. MaxConnects
        BY <2>1, <3>1, TerminalAssumption
      <3>3. listeners \in [Sockets -> Nat] /\ open \in Nat /\ open <= Count(socks)
        BY DEF Counters
      <3> QED
        BY <2>1, <3>2, <3>3, TerminalAssumption
    <2>3. ssh.exists => /\ ssh.expected \in Expected /\ ssh.primary \in Nat
                        /\ ssh.window \in 0 .. InitialWindow
      <3>1. ssh.exists => ssh \in Session
        BY SshExists DEF Typed
      <3> QED
        BY <3>1 DEF Session
    <2> QED
      BY <2>2, <2>3 DEF IInv, Ranges, Typed, TypeOK, Expected
  <1> QED
    BY <1>1, <1>2, PTL

-----------------------------------------------------------------------------
(* What a packet of the host does to the session *)

SameKeys(t, s) ==
  t.kex = s.kex /\ t.initSent = s.initSent /\ t.sent = s.sent /\ t.encrypted = s.encrypted
SameChannels(t, s) ==
  t.channels = s.channels /\ t.primary = s.primary /\ t.highest = s.highest
SameMain(t, s) ==
  /\ SameKeys(t, s) /\ SameChannels(t, s) /\ t.expected = s.expected
  /\ t.queue = s.queue /\ t.authenticated = s.authenticated
SameReading(t, s) ==
  t.incomplete = s.incomplete /\ t.received = s.received /\ t.macFailed = s.macFailed

LEMMA SendIs ==
  ASSUME NEW r \in Results, NEW p \in ClientPackets
  PROVE  /\ Send(r, p) \in Results /\ Send(r, p).s = r.s /\ Send(r, p).out = Append(r.out, p)
         /\ Send(r, p).msgs = r.msgs /\ Send(r, p).error = r.error
PROOF
  <1>1. Append(r.out, p) \in Seq(ClientPackets)
    BY DEF Results
  <1> QED
    BY <1>1, PartsTyped DEF Send, Results

LEMMA PassIs ==
  ASSUME NEW r \in Results, NEW code \in HostCodes, NEW x \in Values
  PROVE  LET q == Pass(r, code, x) IN
         /\ q \in Results /\ q.s = r.s /\ q.out = r.out /\ q.error = r.error
         /\ q.msgs = Append(r.msgs, [code |-> code, x |-> x])
PROOF
  <1> DEFINE m == [code |-> code, x |-> x]
  <1>1. Pass(r, code, x) = [r EXCEPT !.msgs = Append(@, m)]
    BY DEF Pass
  <1> HIDE DEF m
  <1>2. /\ [r EXCEPT !.msgs = Append(@, m)].s = r.s /\ [r EXCEPT !.msgs = Append(@, m)].out = r.out
        /\ [r EXCEPT !.msgs = Append(@, m)].error = r.error
        /\ [r EXCEPT !.msgs = Append(@, m)].msgs = Append(r.msgs, m)
    BY DEF Results
  <1> QED
    BY <1>1, <1>2, PartsTyped DEF m

LEMMA FailIs ==
  ASSUME NEW r \in Results
  PROVE  /\ Fail(r) \in Results /\ Fail(r).s = r.s /\ Fail(r).out = r.out
         /\ Fail(r).error = TRUE /\ Fail(r).msgs = <<>>
  BY PartsTyped DEF Fail, Results

LEMMA FlushIs ==
  ASSUME NEW r \in Results
  PROVE  /\ Flush(r) \in Results /\ Flush(r).out = r.out \o r.s.queue /\ Flush(r).s.queue = <<>>
         /\ Flush(r).msgs = r.msgs /\ Flush(r).error = r.error
         /\ SameKeys(Flush(r).s, r.s) /\ SameChannels(Flush(r).s, r.s)
         /\ Flush(r).s.expected = r.s.expected /\ Flush(r).s.authenticated = r.s.authenticated
         /\ SameReading(Flush(r).s, r.s)
PROOF
  <1>1. r.out \o r.s.queue \in Seq(ClientPackets) /\ <<>> \in Seq(ClientPackets)
    BY DEF Results, Session
  <1> QED
    BY <1>1, PartsTyped, ZenonT(60) DEF Flush, Results, Session, SameKeys, SameChannels, SameReading

\* The packets of the host, one case each: what they send and pass on, and
\* what they change of the session.
Passes(h, q, p) ==
  /\ SameMain(h.s, q.s) /\ h.out = q.out /\ h.error = q.error
  /\ h.msgs = IF p.code \in ToProxy THEN Append(q.msgs, [code |-> p.code, x |-> p.x]) ELSE q.msgs
LogsIn(h, q, channel) ==
  /\ SameKeys(h.s, q.s) /\ SameChannels(h.s, q.s) /\ h.s.queue = q.s.queue
  /\ h.s.expected = "OPEN_CONFIRMATION" /\ h.s.authenticated = TRUE
  /\ h.out = Append(q.out, Packet("CHANNEL_OPEN", 0, channel)) /\ h.error = q.error
  /\ h.msgs = Append(q.msgs, [code |-> "USERAUTH_SUCCESS", x |-> 0])
OpensChannel(h, q, p, channel) ==
  /\ SameKeys(h.s, q.s) /\ h.s.queue = q.s.queue /\ h.s.authenticated = q.s.authenticated
  /\ q.s.expected \in {"none", "OPEN_CONFIRMATION"} /\ h.s.expected = q.s.expected
  /\ h.s.primary = q.s.primary /\ h.s.highest = q.s.highest
  /\ DOMAIN h.s.channels = DOMAIN q.s.channels \cup {channel}
  /\ h.out = Append(q.out, Packet("pty-req", p.x, 0)) /\ h.error = q.error /\ h.msgs = q.msgs
Succeeds(h, q, channel) ==
  /\ SameKeys(h.s, q.s) /\ h.s.queue = q.s.queue /\ h.s.authenticated = q.s.authenticated
  /\ h.s.expected = q.s.expected /\ h.error = q.error /\ h.msgs = q.msgs
  /\ DOMAIN h.s.channels = DOMAIN q.s.channels
  /\ \/ h.out = q.out /\ h.s.primary = q.s.primary /\ h.s.highest = q.s.highest
     \/ /\ h.out = Append(q.out, Packet("shell", 0, 0))
        /\ h.s.primary = q.s.primary /\ h.s.highest = q.s.highest
     \/ /\ h.out = q.out /\ HasChannel(q.s, channel)
        /\ h.s.primary = q.s.highest /\ h.s.highest = q.s.highest + 1
Rekeys(h, q, p) ==
  /\ h.s.kex = TRUE /\ h.s.initSent = TRUE /\ h.s.expected = "GEX_GROUP"
  /\ h.s.sent = (IF p.x = "gex" THEN "GEX_REQUEST" ELSE "GEX_REQUEST_OLD")
  /\ h.s.encrypted = q.s.encrypted /\ SameChannels(h.s, q.s) /\ h.s.queue = q.s.queue
  /\ h.s.authenticated = q.s.authenticated /\ h.error = q.error /\ h.msgs = q.msgs
  /\ h.out = Append(IF q.s.initSent THEN q.out ELSE Append(q.out, Plain("KEXINIT")), Plain(h.s.sent))
TakesGroup(h, q) ==
  /\ q.s.expected = "GEX_GROUP" /\ SameKeys(h.s, q.s) /\ SameChannels(h.s, q.s)
  /\ h.s.queue = q.s.queue /\ h.s.authenticated = q.s.authenticated
  /\ h.error = q.error /\ h.msgs = q.msgs
  /\ IF q.s.sent = "GEX_REQUEST"
     THEN h.s.expected = "GEX_REPLY" /\ h.out = Append(q.out, Plain("GEX_INIT"))
     ELSE h.s.expected = "NEWKEYS" /\ h.out = q.out
TakesReply(h, q) ==
  /\ q.s.expected = "GEX_REPLY" /\ h.s.expected = "NEWKEYS"
  /\ SameKeys(h.s, q.s) /\ SameChannels(h.s, q.s) /\ h.s.queue = q.s.queue
  /\ h.s.authenticated = q.s.authenticated
  /\ h.out = q.out /\ h.error = q.error /\ h.msgs = q.msgs
Keyed(q) ==
  LET keys == Append(q.out, Plain("NEWKEYS"))
  IN  IF q.s.kex THEN keys \o q.s.queue ELSE keys
TakesKeys(h, q) ==
  /\ q.s.expected = "NEWKEYS" /\ h.s.encrypted = TRUE /\ h.s.kex = FALSE /\ h.s.sent = q.s.sent
  /\ h.s.initSent = (IF q.s.kex THEN FALSE ELSE q.s.initSent)
  /\ h.s.queue = (IF q.s.kex THEN <<>> ELSE q.s.queue)
  /\ SameChannels(h.s, q.s) /\ h.s.authenticated = q.s.authenticated
  /\ h.s.expected = (IF q.s.authenticated THEN q.s.expected ELSE "SERVICE_ACCEPT")
  /\ h.out = IF q.s.authenticated THEN Keyed(q) ELSE Append(Keyed(q), Plain("SERVICE_REQUEST"))
  /\ h.error = q.error /\ h.msgs = q.msgs
Fails(h, q) == SameMain(h.s, q.s) /\ h.out = q.out /\ h.error = TRUE /\ h.msgs = <<>>

Outcomes(h, q, p, channel) ==
  \/ p.code \in ToProxy \cup {"VERSION"} /\ Passes(h, q, p)
  \/ p.code = "USERAUTH_SUCCESS" /\ LogsIn(h, q, channel)
  \/ p.code = "OPEN_CONFIRMATION" /\ OpensChannel(h, q, p, channel)
  \/ p.code = "CHANNEL_SUCCESS" /\ Succeeds(h, q, channel)
  \/ p.code = "KEXINIT" /\ Rekeys(h, q, p)
  \/ p.code = "GEX_GROUP" /\ TakesGroup(h, q)
  \/ p.code = "GEX_REPLY" /\ TakesReply(h, q)
  \/ p.code = "NEWKEYS" /\ TakesKeys(h, q)
  \/ /\ Fails(h, q)
     /\ \/ p.code = "OPEN_CONFIRMATION" /\ q.s.expected \notin {"none", "OPEN_CONFIRMATION"}
        \/ p.code \in {"GEX_GROUP", "GEX_REPLY", "NEWKEYS"} /\ q.s.expected # p.code

LEMMA HandleOutcome ==
  ASSUME NEW q \in Results, NEW p \in HostPackets, NEW channel \in Nat
  PROVE  LET h == Handle(q, p, channel) IN
         h \in Results /\ SameReading(h.s, q.s) /\ Outcomes(h, q, p, channel)
PROOF
  <1> DEFINE h == Handle(q, p, channel)
             G(t) == SameReading(t.s, q.s) /\ Outcomes(t, q, p, channel)
  <1>0. /\ p.code \in HostCodes /\ p.x \in Values /\ channel \in Values /\ 0 \in Values
        /\ q.s \in Session /\ q.s.kex \in BOOLEAN /\ q.s.authenticated \in BOOLEAN
        /\ q.s.initSent \in BOOLEAN
    BY DEF HostPackets, Values, Results, Session
  <1>1. h \in Results
    BY HandleTyped
  <1>2. SameMain(q.s, q.s) /\ SameReading(q.s, q.s) /\ SameKeys(q.s, q.s) /\ SameChannels(q.s, q.s)
    BY DEF SameMain, SameReading, SameKeys, SameChannels
  <1>3. Fails(Fail(q), q) /\ SameReading(Fail(q).s, q.s)
    BY <1>2, FailIs DEF Fails
  <1>4. CASE p.code \in ToProxy
    <2>1. h = Pass(q, p.code, p.x)
      BY <1>4 DEF Handle, ToProxy
    <2>2. h.s = q.s /\ h.out = q.out /\ h.error = q.error
          /\ h.msgs = Append(q.msgs, [code |-> p.code, x |-> p.x])
      BY <1>0, <2>1, PassIs
    <2> HIDE DEF h
    <2>3. Passes(h, q, p) /\ SameReading(h.s, q.s)
      BY <1>2, <1>4, <2>2 DEF Passes
    <2> QED
      BY <1>1, <1>4, <2>3 DEF Outcomes, h
  <1>5. CASE p.code = "VERSION"
    <2>1. h = q
      BY <1>5 DEF Handle, ToProxy
    <2> HIDE DEF h
    <2>2. Passes(h, q, p) /\ SameReading(h.s, q.s)
      BY <1>2, <1>5, <2>1 DEF Passes, ToProxy
    <2> QED
      BY <1>1, <1>5, <2>2 DEF Outcomes, h
  <1>6. CASE p.code = "USERAUTH_SUCCESS"
    <2> DEFINE r == Pass(q, "USERAUTH_SUCCESS", 0)
               t == [r EXCEPT !.s.authenticated = TRUE, !.s.expected = "OPEN_CONFIRMATION"]
               o == Packet("CHANNEL_OPEN", 0, channel)
    <2>1. /\ r \in Results /\ r.s = q.s /\ r.out = q.out /\ r.error = q.error
          /\ r.msgs = Append(q.msgs, [code |-> "USERAUTH_SUCCESS", x |-> 0])
      BY <1>0, <1>6, PassIs
    <2> HIDE DEF r
    <2>2. /\ t \in Results /\ t.out = r.out /\ t.error = r.error /\ t.msgs = r.msgs
          /\ SameKeys(t.s, r.s) /\ SameChannels(t.s, r.s) /\ t.s.queue = r.s.queue
          /\ t.s.expected = "OPEN_CONFIRMATION" /\ t.s.authenticated = TRUE
          /\ SameReading(t.s, r.s)
      BY <2>1 DEF Results, Session, Expected, SameKeys, SameChannels, SameReading
    <2>3. h = Send(t, o)
      BY <1>6 DEF Handle, ToProxy, UserauthSuccess, r
    <2> HIDE DEF t, h
    <2>4. o \in ClientPackets
      BY <1>0, PacketsTyped DEF ClientCodes
    <2> HIDE DEF o
    <2>5. h.s = t.s /\ h.out = Append(t.out, o) /\ h.msgs = t.msgs /\ h.error = t.error
      BY <2>2, <2>3, <2>4, SendIs
    <2>6. LogsIn(h, q, channel) /\ SameReading(h.s, q.s)
      BY <2>1, <2>2, <2>5 DEF LogsIn, o
    <2> QED
      BY <1>1, <1>6, <2>6 DEF Outcomes, h
  <1>7. CASE p.code = "OPEN_CONFIRMATION"
    <2>0. h = OpenConfirmation(q, p, channel)
      BY <1>7 DEF Handle, ToProxy
    <2>1. CASE q.s.expected \notin {"none", "OPEN_CONFIRMATION"}
      <3>1. h = Fail(q)
        BY <2>0, <2>1 DEF OpenConfirmation
      <3> HIDE DEF h
      <3> QED
        BY <1>1, <1>3, <1>7, <2>1, <3>1 DEF Outcomes, h
    <2>2. CASE q.s.expected \in {"none", "OPEN_CONFIRMATION"}
      <3> DEFINE old == q.s.channels
                 ch == [c \in DOMAIN old \cup {channel} |->
                           IF c = channel THEN [server |-> p.x, shell |-> FALSE] ELSE old[c]]
                 t == [q EXCEPT !.s.channels = ch, !.s.window = InitialWindow]
                 o == Packet("pty-req", p.x, 0)
      <3>1. h = Send(t, o)
        BY <2>0, <2>2 DEF OpenConfirmation
      <3>2. IsChannels(old)
        BY ChannelsAre DEF Results, Session
      <3>3. IsChannels(ch) /\ DOMAIN ch = DOMAIN old \cup {channel}
        BY <1>0, <3>2 DEF IsChannels, Channel
      <3>4. ch \in Channels /\ InitialWindow \in 0 .. InitialWindow
        BY <3>3, ChannelsAre, SshAssumption
      <3> HIDE DEF ch, h
      <3>5. /\ t \in Results /\ t.out = q.out /\ t.error = q.error /\ t.msgs = q.msgs
            /\ SameKeys(t.s, q.s) /\ t.s.channels = ch /\ t.s.queue = q.s.queue
            /\ t.s.expected = q.s.expected /\ t.s.authenticated = q.s.authenticated
            /\ t.s.primary = q.s.primary /\ t.s.highest = q.s.highest
            /\ SameReading(t.s, q.s)
        BY <3>4 DEF Results, Session, SameKeys, SameReading
      <3>6. o \in ClientPackets
        BY <1>0, PacketsTyped DEF ClientCodes
      <3> HIDE DEF t, o
      <3>7. h.s = t.s /\ h.out = Append(t.out, o) /\ h.msgs = t.msgs /\ h.error = t.error
        BY <3>1, <3>5, <3>6, SendIs
      <3>8. OpensChannel(h, q, p, channel) /\ SameReading(h.s, q.s)
        BY <2>2, <3>3, <3>5, <3>7 DEF OpensChannel, o
      <3> QED
        BY <1>1, <1>7, <3>8 DEF Outcomes, h
    <2> QED
      BY <2>1, <2>2
  <1>8. CASE p.code = "CHANNEL_SUCCESS"
    <2>0. h = ChannelSuccess(q, channel)
      BY <1>8 DEF Handle, ToProxy
    <2>1. CASE ~HasChannel(q.s, channel)
      <3>1. h = q
        BY <2>0, <2>1 DEF ChannelSuccess
      <3> HIDE DEF h
      <3>2. Succeeds(h, q, channel)
        BY <1>2, <3>1 DEF Succeeds
      <3> QED
        BY <1>1, <1>2, <1>8, <3>1, <3>2 DEF Outcomes, h
    <2>2. CASE HasChannel(q.s, channel) /\ ~q.s.channels[channel].shell
      <3> DEFINE ch == [q.s.channels EXCEPT ![channel].shell = TRUE]
                 t == [q EXCEPT !.s.channels[channel].shell = TRUE]
                 o == Packet("shell", 0, 0)
      <3>0. h = Send(t, o)
        BY <2>0, <2>2 DEF ChannelSuccess
      <3>1. IsChannels(q.s.channels)
        BY ChannelsAre DEF Results, Session
      <3>2. IsChannels(ch) /\ DOMAIN ch = DOMAIN q.s.channels
        BY <2>2, <3>1 DEF IsChannels, Channel, HasChannel
      <3>3. ch \in Channels
        BY <3>2, ChannelsAre
      <3>4. t = [q EXCEPT !.s.channels = ch]
        BY DEF Results, Session
      <3> HIDE DEF ch, h, t
      <3>5. /\ t \in Results /\ t.out = q.out /\ t.error = q.error /\ t.msgs = q.msgs
            /\ SameKeys(t.s, q.s) /\ t.s.channels = ch /\ t.s.queue = q.s.queue
            /\ t.s.expected = q.s.expected /\ t.s.authenticated = q.s.authenticated
            /\ t.s.primary = q.s.primary /\ t.s.highest = q.s.highest
            /\ SameReading(t.s, q.s)
        BY <3>3, <3>4 DEF Results, Session, SameKeys, SameReading
      <3>6. o \in ClientPackets
        BY <1>0, PacketsTyped DEF ClientCodes
      <3> HIDE DEF o
      <3>7. h.s = t.s /\ h.out = Append(t.out, o) /\ h.msgs = t.msgs /\ h.error = t.error
        BY <3>0, <3>5, <3>6, SendIs
      <3>8. Succeeds(h, q, channel) /\ SameReading(h.s, q.s)
        BY <3>2, <3>5, <3>7 DEF Succeeds, o
      <3> QED
        BY <1>1, <1>8, <3>8 DEF Outcomes, h
    <2>3. CASE HasChannel(q.s, channel) /\ q.s.channels[channel].shell
      <3>0. q.s.highest \in Nat /\ q.s.highest + 1 \in Nat
        BY DEF Results, Session
      <3>1. h = [q EXCEPT !.s.primary = q.s.highest, !.s.highest = @ + 1]
        BY <2>0, <2>3 DEF ChannelSuccess
      <3> HIDE DEF h
      <3>2. /\ h.out = q.out /\ h.error = q.error /\ h.msgs = q.msgs
            /\ SameKeys(h.s, q.s) /\ h.s.channels = q.s.channels /\ h.s.queue = q.s.queue
            /\ h.s.expected = q.s.expected /\ h.s.authenticated = q.s.authenticated
            /\ h.s.primary = q.s.highest /\ h.s.highest = q.s.highest + 1
            /\ SameReading(h.s, q.s)
        BY <3>0, <3>1 DEF Results, Session, SameKeys, SameReading
      <3>3. Succeeds(h, q, channel)
        BY <2>3, <3>2 DEF Succeeds
      <3> QED
        BY <1>1, <1>8, <3>2, <3>3 DEF Outcomes, h
    <2> QED
      BY <2>1, <2>2, <2>3
  <1>9. CASE p.code = "KEXINIT"
    <2> DEFINE answered == IF q.s.initSent THEN q ELSE Send(q, makeKeyExchangeResponse)
               request == IF getAgreeableAlgorithms(p) = "gex" THEN "GEX_REQUEST" ELSE "GEX_REQUEST_OLD"
               t == [answered EXCEPT !.s.kex = TRUE, !.s.initSent = TRUE,
                            !.s.expected = "GEX_GROUP", !.s.sent = request]
    <2>0. h = Send(t, Plain(request))
      BY <1>9 DEF Handle, ToProxy, KexInit
    <2>1. /\ answered \in Results /\ answered.s = q.s /\ answered.msgs = q.msgs /\ answered.error = q.error
          /\ answered.out = IF q.s.initSent THEN q.out ELSE Append(q.out, Plain("KEXINIT"))
      <3>1. makeKeyExchangeResponse = Plain("KEXINIT") /\ Plain("KEXINIT") \in ClientPackets
        BY <1>0, PacketsTyped DEF makeKeyExchangeResponse, ClientCodes
      <3> QED
        BY <3>1, SendIs
    <2>2. request \in {"GEX_REQUEST", "GEX_REQUEST_OLD"}
          /\ request = IF p.x = "gex" THEN "GEX_REQUEST" ELSE "GEX_REQUEST_OLD"
      BY DEF getAgreeableAlgorithms
    <2> HIDE DEF answered, request, h
    <2>3. /\ t \in Results /\ t.out = answered.out /\ t.error = q.error /\ t.msgs = q.msgs
          /\ t.s.kex = TRUE /\ t.s.initSent = TRUE /\ t.s.expected = "GEX_GROUP" /\ t.s.sent = request
          /\ t.s.encrypted = q.s.encrypted /\ SameChannels(t.s, q.s) /\ t.s.queue = q.s.queue
          /\ t.s.authenticated = q.s.authenticated /\ SameReading(t.s, q.s)
      BY <2>1, <2>2 DEF Results, Session, Expected, SameChannels, SameReading
    <2>4. Plain(request) \in ClientPackets
      BY <1>0, <2>2, PacketsTyped DEF ClientCodes
    <2> HIDE DEF t
    <2>5. h.s = t.s /\ h.out = Append(t.out, Plain(request)) /\ h.msgs = t.msgs /\ h.error = t.error
      BY <2>0, <2>3, <2>4, SendIs
    <2>6. Rekeys(h, q, p) /\ SameReading(h.s, q.s)
      BY <2>1, <2>2, <2>3, <2>5 DEF Rekeys
    <2> QED
      BY <1>1, <1>9, <2>6 DEF Outcomes, h
  <1>10. ASSUME NEW r \in Results, r.s.expected = "GEX_REPLY"
         PROVE  /\ GexReply(r) \in Results /\ GexReply(r).s.expected = "NEWKEYS"
                /\ GexReply(r).out = r.out /\ GexReply(r).error = r.error /\ GexReply(r).msgs = r.msgs
                /\ SameKeys(GexReply(r).s, r.s) /\ SameChannels(GexReply(r).s, r.s)
                /\ GexReply(r).s.queue = r.s.queue
                /\ GexReply(r).s.authenticated = r.s.authenticated /\ SameReading(GexReply(r).s, r.s)
    BY <1>10 DEF GexReply, Results, Session, Expected, SameKeys, SameChannels, SameReading
  <1>11. CASE p.code = "GEX_GROUP"
    <2>0. h = GexGroup(q)
      BY <1>11 DEF Handle, ToProxy
    <2>1. CASE q.s.expected # "GEX_GROUP"
      <3>1. h = Fail(q)
        BY <2>0, <2>1 DEF GexGroup
      <3> HIDE DEF h
      <3> QED
        BY <1>1, <1>3, <1>11, <2>1, <3>1 DEF Outcomes, h
    <2>2. CASE q.s.expected = "GEX_GROUP"
      <3> DEFINE t == [q EXCEPT !.s.expected = "GEX_REPLY"]
      <3>1. h = IF q.s.sent = "GEX_REQUEST" THEN Send(t, Plain("GEX_INIT")) ELSE GexReply(t)
        BY <2>0, <2>2 DEF GexGroup
      <3>2. /\ t \in Results /\ t.out = q.out /\ t.error = q.error /\ t.msgs = q.msgs
            /\ t.s.expected = "GEX_REPLY" /\ SameKeys(t.s, q.s) /\ SameChannels(t.s, q.s)
            /\ t.s.queue = q.s.queue /\ t.s.authenticated = q.s.authenticated /\ SameReading(t.s, q.s)
        BY DEF Results, Session, Expected, SameKeys, SameChannels, SameReading
      <3>3. Plain("GEX_INIT") \in ClientPackets
        BY <1>0, PacketsTyped DEF ClientCodes
      <3> HIDE DEF t, h
      <3>4. CASE q.s.sent = "GEX_REQUEST"
        <4>1. h.s = t.s /\ h.out = Append(t.out, Plain("GEX_INIT")) /\ h.msgs = t.msgs /\ h.error = t.error
          BY <3>1, <3>2, <3>3, <3>4, SendIs
        <4>2. TakesGroup(h, q) /\ SameReading(h.s, q.s)
          BY <2>2, <3>2, <3>4, <4>1 DEF TakesGroup
        <4> QED
          BY <1>1, <1>11, <4>2 DEF Outcomes, h
      <3>5. CASE q.s.sent # "GEX_REQUEST"
        <4>1. h = GexReply(t)
          BY <3>1, <3>5
        <4>2. TakesGroup(h, q) /\ SameReading(h.s, q.s)
          BY <1>10, <2>2, <3>2, <3>5, <4>1 DEF TakesGroup, SameKeys, SameChannels, SameReading
        <4> QED
          BY <1>1, <1>11, <4>2 DEF Outcomes, h
      <3> QED
        BY <3>4, <3>5
    <2> QED
      BY <2>1, <2>2
  <1>12. CASE p.code = "GEX_REPLY"
    <2>0. h = GexReply(q)
      BY <1>12 DEF Handle, ToProxy
    <2>1. CASE q.s.expected # "GEX_REPLY"
      <3>1. h = Fail(q)
        BY <2>0, <2>1 DEF GexReply
      <3> HIDE DEF h
      <3> QED
        BY <1>1, <1>3, <1>12, <2>1, <3>1 DEF Outcomes, h
    <2>2. CASE q.s.expected = "GEX_REPLY"
      <3> HIDE DEF h
      <3>1. TakesReply(h, q) /\ SameReading(h.s, q.s)
        BY <1>10, <2>0, <2>2 DEF TakesReply
      <3> QED
        BY <1>1, <1>12, <3>1 DEF Outcomes, h
    <2> QED
      BY <2>1, <2>2
  <1>13. CASE p.code = "NEWKEYS"
    <2>0. h = NewKeys(q)
      BY <1>13 DEF Handle, ToProxy
    <2>1. CASE q.s.expected # "NEWKEYS"
      <3>1. h = Fail(q)
        BY <2>0, <2>1 DEF NewKeys
      <3> HIDE DEF h
      <3> QED
        BY <1>1, <1>3, <1>13, <2>1, <3>1 DEF Outcomes, h
    <2>2. CASE q.s.expected = "NEWKEYS"
      <3> DEFINE keyed == initializeCrypto(Send(q, Plain("NEWKEYS")))
                 plain == [keyed EXCEPT !.s.kex = FALSE, !.s.initSent = FALSE]
                 flushed == IF q.s.kex THEN Flush(plain) ELSE keyed
                 expecting == [flushed EXCEPT !.s.expected = "SERVICE_ACCEPT"]
      <3>1. h = IF q.s.authenticated THEN flushed ELSE Send(expecting, Plain("SERVICE_REQUEST"))
        BY <2>0, <2>2 DEF NewKeys
      <3>2. Plain("NEWKEYS") \in ClientPackets /\ Plain("SERVICE_REQUEST") \in ClientPackets
        BY <1>0, PacketsTyped DEF ClientCodes
      <3>3. /\ keyed \in Results /\ keyed.out = Append(q.out, Plain("NEWKEYS")) /\ keyed.msgs = q.msgs
            /\ keyed.error = q.error /\ keyed.s.encrypted = TRUE /\ keyed.s.kex = q.s.kex
            /\ keyed.s.initSent = q.s.initSent /\ keyed.s.sent = q.s.sent
            /\ SameChannels(keyed.s, q.s) /\ keyed.s.expected = q.s.expected
            /\ keyed.s.queue = q.s.queue /\ keyed.s.authenticated = q.s.authenticated
            /\ SameReading(keyed.s, q.s)
        <4> DEFINE r == Send(q, Plain("NEWKEYS"))
        <4>1. r \in Results /\ r.s = q.s /\ r.out = Append(q.out, Plain("NEWKEYS")) /\ r.msgs = q.msgs /\ r.error = q.error
          BY <3>2, SendIs
        <4>2. keyed = [r EXCEPT !.s.encrypted = TRUE]
          BY DEF initializeCrypto
        <4> HIDE DEF r, keyed
        <4> QED
          BY <4>1, <4>2 DEF Results, Session, SameChannels, SameReading
      <3> HIDE DEF keyed, h
      <3>4. /\ plain \in Results /\ plain.out = keyed.out /\ plain.msgs = keyed.msgs /\ plain.error = keyed.error
            /\ plain.s.encrypted = TRUE /\ plain.s.kex = FALSE /\ plain.s.initSent = FALSE
            /\ plain.s.sent = keyed.s.sent /\ SameChannels(plain.s, keyed.s)
            /\ plain.s.expected = keyed.s.expected /\ plain.s.queue = keyed.s.queue
            /\ plain.s.authenticated = keyed.s.authenticated /\ SameReading(plain.s, keyed.s)
        BY <3>3 DEF Results, Session, SameChannels, SameReading
      <3> HIDE DEF plain
      <3>5. /\ flushed \in Results /\ flushed.out = Keyed(q) /\ flushed.msgs = q.msgs /\ flushed.error = q.error
            /\ flushed.s.encrypted = TRUE /\ flushed.s.kex = FALSE /\ flushed.s.sent = q.s.sent
            /\ flushed.s.initSent = (IF q.s.kex THEN FALSE ELSE q.s.initSent)
            /\ flushed.s.queue = (IF q.s.kex THEN <<>> ELSE q.s.queue)
            /\ SameChannels(flushed.s, q.s) /\ flushed.s.expected = q.s.expected
            /\ flushed.s.authenticated = q.s.authenticated /\ SameReading(flushed.s, q.s)
        <4>1. CASE q.s.kex
          <5>1. flushed = Flush(plain)
            BY <4>1
          <5> HIDE DEF flushed
          <5>2. /\ flushed \in Results /\ flushed.out = plain.out \o plain.s.queue /\ flushed.s.queue = <<>>
                /\ flushed.msgs = plain.msgs /\ flushed.error = plain.error
                /\ SameKeys(flushed.s, plain.s) /\ SameChannels(flushed.s, plain.s)
                /\ flushed.s.expected = plain.s.expected
                /\ flushed.s.authenticated = plain.s.authenticated /\ SameReading(flushed.s, plain.s)
            BY <3>4, <5>1, FlushIs
          <5>3. flushed.out = Keyed(q)
            BY <3>3, <3>4, <4>1, <5>2 DEF Keyed
          <5>4. SameChannels(flushed.s, q.s) /\ SameReading(flushed.s, q.s)
            BY <3>3, <3>4, <5>2 DEF SameChannels, SameReading
          <5>5. flushed.s.encrypted = TRUE /\ flushed.s.kex = FALSE /\ flushed.s.sent = q.s.sent
                /\ flushed.s.initSent = FALSE
            BY <3>3, <3>4, <5>2 DEF SameKeys
          <5> QED
            BY <3>3, <3>4, <4>1, <5>2, <5>3, <5>4, <5>5
        <4>2. CASE ~q.s.kex
          <5>1. flushed = keyed /\ q.s.kex = FALSE
            BY <1>0, <4>2
          <5> HIDE DEF flushed
          <5> QED
            BY <3>3, <4>2, <5>1 DEF Keyed
        <4> QED
          BY <4>1, <4>2
      <3> HIDE DEF flushed
      <3>6. /\ expecting \in Results /\ expecting.out = flushed.out /\ expecting.msgs = flushed.msgs
            /\ expecting.error = flushed.error /\ expecting.s.expected = "SERVICE_ACCEPT"
            /\ SameKeys(expecting.s, flushed.s) /\ SameChannels(expecting.s, flushed.s)
            /\ expecting.s.queue = flushed.s.queue /\ expecting.s.authenticated = flushed.s.authenticated
            /\ SameReading(expecting.s, flushed.s)
        BY <3>5 DEF Results, Session, Expected, SameKeys, SameChannels, SameReading
      <3> HIDE DEF expecting
      <3>7. CASE q.s.authenticated
        <4>1. h = flushed
          BY <3>1, <3>7
        <4>2. TakesKeys(h, q) /\ SameReading(h.s, q.s)
          BY <2>2, <3>5, <3>7, <4>1 DEF TakesKeys
        <4> QED
          BY <1>1, <1>13, <4>2 DEF Outcomes, h
      <3>8. CASE ~q.s.authenticated
        <4>1. h = Send(expecting, Plain("SERVICE_REQUEST"))
          BY <3>1, <3>8
        <4>2. h.s = expecting.s /\ h.out = Append(expecting.out, Plain("SERVICE_REQUEST"))
              /\ h.msgs = expecting.msgs /\ h.error = expecting.error
          BY <3>2, <3>6, <4>1, SendIs
        <4>3. TakesKeys(h, q) /\ SameReading(h.s, q.s)
          BY <2>2, <3>5, <3>6, <3>8, <4>2 DEF TakesKeys, SameKeys, SameChannels, SameReading
        <4> QED
          BY <1>1, <1>13, <4>3 DEF Outcomes, h
      <3> QED
        BY <3>7, <3>8
    <2> QED
      BY <2>1, <2>2
  <1>14. p.code \in ToProxy \cup {"VERSION", "USERAUTH_SUCCESS", "OPEN_CONFIRMATION", "CHANNEL_SUCCESS",
                                 "KEXINIT", "GEX_GROUP", "GEX_REPLY", "NEWKEYS"}
    BY <1>0 DEF HostCodes, ToProxy
  <1> QED
    BY <1>4, <1>5, <1>6, <1>7, <1>8, <1>9, <1>11, <1>12, <1>13, <1>14

-----------------------------------------------------------------------------
(* A chunk is a number of packets, handled in their order *)

\* The units of a packet follow each other, and a packet follows a packet.
Follows(u, v) == IF u.k < u.p.len THEN v = [p |-> u.p, k |-> 2] ELSE v.k = 1
Whole(u) ==
  /\ \A i \in DOMAIN u : u[i].k <= u[i].p.len
  /\ \A i \in 1 .. Len(u) - 1 : Follows(u[i], u[i + 1])

\* What the reading keeps of a session, and what it counts at a packet.
Kept(t, s) == SameMain(t, s) /\ t.received = s.received /\ t.macFailed = s.macFailed
Counts(t, s, p) ==
  /\ SameMain(t, s) /\ t.incomplete = s.incomplete /\ t.received = s.received + 1
  /\ t.macFailed = (s.macFailed \/ (s.encrypted /\ s.received # p.id))

LEMMA ReadCounts ==
  ASSUME NEW s \in Session, NEW raw \in Seq(HostUnits), NEW pos \in 1 .. Len(raw)
  PROVE  LET read == readSSHv2PDUData(s, raw, pos) IN
         /\ read.kind # "pdu" => Kept(read.s, s)
         /\ read.kind = "pdu" => /\ Counts(read.s, s, raw[pos].p)
                                 /\ s.encrypted => pos + raw[pos].p.len <= Len(raw) + 1
         /\ read.kind = "error" => raw[pos].k # 1
         /\ read.kind = "wait" /\ ~s.encrypted => raw[pos].k # 1 \/ raw[pos].p.len > Len(raw)
PROOF
  <1> DEFINE kept == SubSeq(raw, pos, Len(raw))
             p == raw[pos].p
             next == pos + p.len
             ready == [s EXCEPT !.firstDecrypted = FALSE]
             checked == [ready EXCEPT !.macFailed = @ \/ s.received # p.id]
             With(q, units) == [q EXCEPT !.incomplete = units]
             Counted1(q) == [q EXCEPT !.received = @ + 1]
             read == readSSHv2PDUData(s, raw, pos)
  <1>0. s.encrypted \in BOOLEAN /\ s.macFailed \in BOOLEAN /\ kept \in Seq(HostUnits)
        /\ Len(raw) \in Nat /\ pos \in Nat /\ p.len \in Nat
    <2>1. raw[pos] \in HostUnits /\ kept \in Seq(HostUnits)
      OBVIOUS
    <2>2. p \in HostPackets
      BY <2>1 DEF HostUnits
    <2>3. p.len \in Nat
      BY <2>2 DEF HostPackets
    <2> QED
      BY <2>1, <2>3 DEF Session
  <1>1. ASSUME NEW q \in Session, NEW units \in Seq(HostUnits)
        PROVE  Kept(With(q, units), q)
    BY DEF Session, Kept, SameMain, SameKeys, SameChannels
  <1>2. ASSUME NEW q \in Session
        PROVE  /\ SameMain(Counted1(q), q) /\ Counted1(q).incomplete = q.incomplete
               /\ Counted1(q).received = q.received + 1 /\ Counted1(q).macFailed = q.macFailed
    BY DEF Session, SameMain, SameKeys, SameChannels
  <1>3. ready \in Session /\ Kept(ready, s) /\ ready.incomplete = s.incomplete
    BY DEF Session, Kept, SameMain, SameKeys, SameChannels
  <1> HIDE DEF ready, kept
  <1>4. /\ checked \in Session /\ SameMain(checked, ready) /\ checked.incomplete = ready.incomplete
        /\ checked.received = ready.received
        /\ checked.macFailed = (ready.macFailed \/ s.received # p.id)
    BY <1>3 DEF Session, SameMain, SameKeys, SameChannels
  <1> HIDE DEF checked
  <1>5. \A t, u, v : SameMain(t, u) /\ SameMain(u, v) => SameMain(t, v)
    BY DEF SameMain, SameKeys, SameChannels
  <1>6. CASE s.encrypted
    <2>0. read = ReadEncrypted(s, raw, pos)
      BY <1>6 DEF readSSHv2PDUData
    <2> HIDE DEF read
    <2>1. CASE read = Wait(s, kept)
      <3>1. read.kind = "wait" /\ read.s = With(s, kept)
        BY <2>1 DEF Wait
      <3> HIDE DEF With
      <3> QED
        BY <1>0, <1>1, <1>6, <3>1 DEF read
    <2>2. CASE raw[pos].k # 1 /\ read = [kind |-> "error", s |-> ready]
      BY <1>3, <2>2 DEF read
    <2>3. CASE read = Wait(ready, kept)
      <3>1. read.kind = "wait" /\ read.s = With(ready, kept)
        BY <2>3 DEF Wait
      <3> HIDE DEF With
      <3>2. Kept(read.s, ready)
        BY <1>0, <1>1, <1>3, <3>1
      <3>3. Kept(read.s, s)
        BY <1>3, <1>5, <3>2 DEF Kept
      <3> QED
        BY <1>6, <3>1, <3>3 DEF read
    <2>4. CASE ~(p.len > Len(raw) - pos + 1) /\ read = Pdu(checked, p, next)
      <3>1. read.kind = "pdu" /\ read.s = Counted1(checked)
        BY <2>4 DEF Pdu
      <3> HIDE DEF Counted1
      <3>2. /\ SameMain(read.s, checked) /\ read.s.incomplete = checked.incomplete
            /\ read.s.received = checked.received + 1 /\ read.s.macFailed = checked.macFailed
        BY <1>2, <1>4, <3>1
      <3>3. SameMain(read.s, s) /\ read.s.incomplete = s.incomplete /\ read.s.received = s.received + 1
        BY <1>3, <1>4, <1>5, <3>2 DEF Kept
      <3>4. read.s.macFailed = (s.macFailed \/ (s.encrypted /\ s.received # p.id))
        BY <1>3, <1>4, <1>6, <3>2 DEF Kept
      <3>5. pos + p.len <= Len(raw) + 1
        BY <1>0, <2>4
      <3> QED
        BY <3>1, <3>3, <3>4, <3>5 DEF read, Counts
    <2> QED
      BY <2>0, <2>1, <2>2, <2>3, <2>4 DEF ReadEncrypted, kept, ready, checked
  <1>7. CASE ~s.encrypted
    <2>0. read = ReadPlain(s, raw, pos)
      BY <1>7 DEF readSSHv2PDUData
    <2> HIDE DEF read
    <2>1. CASE (raw[pos].k # 1 \/ raw[pos].p.len > Len(raw)) /\ read = Wait(s, raw)
      <3>1. read.kind = "wait" /\ read.s = With(s, raw)
        BY <2>1 DEF Wait
      <3> HIDE DEF With
      <3> QED
        BY <1>1, <1>7, <2>1, <3>1 DEF read
    <2>2. CASE read = Pdu(s, p, next)
      <3>1. read.kind = "pdu" /\ read.s = Counted1(s)
        BY <2>2 DEF Pdu
      <3> HIDE DEF Counted1
      <3>2. /\ SameMain(read.s, s) /\ read.s.incomplete = s.incomplete
            /\ read.s.received = s.received + 1 /\ read.s.macFailed = s.macFailed
        BY <1>2, <3>1
      <3>3. read.s.macFailed = (s.macFailed \/ (s.encrypted /\ s.received # p.id))
        BY <1>0, <1>7, <3>2
      <3> QED
        BY <1>7, <3>1, <3>2, <3>3 DEF read, Counts
    <2> QED
      BY <2>0, <2>1, <2>2 DEF ReadPlain
  <1> QED
    BY <1>0, <1>6, <1>7

\* Where the packets that a packet at a leaves begin.
After(raw, a) == IF a + raw[a].p.len <= Len(raw) + 1 THEN a + raw[a].p.len ELSE Len(raw) + 1

\* G holds of a result and of where the packets not yet handled begin.  It
\* holds after the chunk if reading keeps it, an error in the reading does,
\* and the handling of the next packet does.
Chunks(G, raw, channel) ==
  /\ G \subseteq Results \X (1 .. Len(raw) + 1)
  /\ \A q \in Results, a \in 1 .. Len(raw) + 1, t \in Session :
       <<q, a>> \in G /\ ~q.error =>
         /\ Kept(t, q.s) => <<[q EXCEPT !.s = t], a>> \in G
         /\ Kept(t, q.s) /\ q.s.encrypted /\ a <= Len(raw) /\ raw[a].k # 1 =>
              <<Fail([q EXCEPT !.s = t]), a>> \in G
         /\ a <= Len(raw) /\ raw[a].k = 1 /\ Counts(t, q.s, raw[a].p)
            /\ (q.s.encrypted => a + raw[a].p.len <= Len(raw) + 1) =>
              <<Handle([q EXCEPT !.s = t], raw[a].p, channel), After(raw, a)>> \in G

LEMMA ChunkRule ==
  ASSUME NEW r \in Results, NEW raw \in Seq(HostUnits), NEW channel \in Nat, Whole(raw),
         r.s.incomplete = <<>>, ~r.error, NEW G, Chunks(G, raw, channel), <<r, 1>> \in G
  PROVE  LET f == ReadLoop(r, raw, channel) IN
         \E a \in 1 .. Len(raw) + 1 :
           <<f, a>> \in G /\ (~f.error => f.s.incomplete = SubSeq(raw, a, Len(raw)))
PROOF
  <1> DEFINE n == Len(raw)
             Ends(lp, a) == lp.next = 0 /\ lp.r.s.incomplete = SubSeq(raw, a, n)
             Goes(lp, a, pos) ==
               /\ lp.next > pos /\ lp.r.s.incomplete = <<>>
               /\ a = (IF lp.next <= n + 1 THEN lp.next ELSE n + 1)
               /\ 1 < a /\ a <= n => raw[a].k = 1
             In(lp, pos) ==
               \E a \in 1 .. n + 1 :
                 <<lp.r, a>> \in G /\ (lp.r.error \/ Ends(lp, a) \/ Goes(lp, a, pos))
             S == [pos \in 0 .. n |-> {lp \in [r : Results, next : Nat] : In(lp, pos)}]
  <1>0. n \in Nat
    OBVIOUS
  <1>1. [r |-> r, next |-> 1] \in S[0]
    <2> DEFINE lp == [r |-> r, next |-> 1]
    <2>1. lp \in [r : Results, next : Nat] /\ lp.r = r /\ lp.next = 1
      OBVIOUS
    <2> HIDE DEF lp
    <2>2. In(lp, 0)
      <3>1. 1 \in 1 .. n + 1 /\ <<lp.r, 1>> \in G
        BY <1>0, <2>1
      <3>2. Goes(lp, 1, 0)
        BY <1>0, <2>1
      <3> QED
        BY <3>1, <3>2
    <2> HIDE DEF In
    <2>3. S[0] = {l \in [r : Results, next : Nat] : In(l, 0)}
      BY <1>0
    <2> HIDE DEF S
    <2> QED
      BY <2>1, <2>2, <2>3 DEF lp
  <1>2. ASSUME NEW pos \in 1 .. n, NEW lp \in S[pos - 1]
        PROVE  ReadStep(lp, raw, pos, channel) \in S[pos]
    <2> DEFINE st == ReadStep(lp, raw, pos, channel)
    <2>1. lp \in [r : Results, next : Nat] /\ In(lp, pos - 1) /\ pos - 1 \in Nat /\ pos \in 0 .. n
      <3> HIDE DEF In
      <3>1. pos - 1 \in 0 .. n /\ pos - 1 \in Nat /\ pos \in 0 .. n
        BY <1>0
      <3>2. S[pos - 1] = {l \in [r : Results, next : Nat] : In(l, pos - 1)}
        BY <3>1
      <3> HIDE DEF S
      <3> QED
        BY <1>2, <3>1, <3>2
    <2>2. PICK a \in 1 .. n + 1 :
            <<lp.r, a>> \in G /\ (lp.r.error \/ Ends(lp, a) \/ Goes(lp, a, pos - 1))
      BY <2>1
    <2>3. st \in [r : Results, next : Nat]
      BY <2>1, ReadStepTyped
    <2> SUFFICES In(st, pos)
      <3> HIDE DEF In, st
      <3>1. S[pos] = {l \in [r : Results, next : Nat] : In(l, pos)}
        BY <2>1
      <3> QED
        BY <2>3, <3>1 DEF st
    <2> HIDE DEF S
    <2>4. CASE lp.r.error \/ pos # lp.next
      <3>1. st = lp
        BY <2>4 DEF ReadStep
      <3> HIDE DEF st
      <3>2. Goes(lp, a, pos - 1) /\ pos # lp.next => Goes(lp, a, pos)
        BY <2>1
      <3> QED
        BY <2>2, <2>4, <3>1, <3>2
    <2>5. CASE ~lp.r.error /\ pos = lp.next
      <3> DEFINE q == lp.r
                 read == readSSHv2PDUData(q.s, raw, pos)
                 after == [q EXCEPT !.s = read.s]
      <3>1. q \in Results /\ q.s \in Session /\ a = pos /\ q.s.incomplete = <<>>
            /\ (1 < a => raw[a].k = 1) /\ <<q, a>> \in G /\ ~q.error
        BY <1>0, <2>1, <2>2, <2>5 DEF Results
      <3>2. /\ read.kind \in {"error", "wait", "pdu"} /\ read.s \in Session
            /\ read.kind = "wait" =>
                 read.s.incomplete = IF q.s.encrypted THEN SubSeq(raw, pos, n) ELSE raw
            /\ read.kind = "error" => q.s.encrypted
            /\ read.kind = "pdu" => /\ raw[pos].k = 1 /\ read.p = raw[pos].p
                                    /\ read.next = pos + raw[pos].p.len
        BY <3>1, ReadFacts
      <3>3. /\ read.kind # "pdu" => Kept(read.s, q.s)
            /\ read.kind = "pdu" => /\ Counts(read.s, q.s, raw[pos].p)
                                    /\ q.s.encrypted => pos + raw[pos].p.len <= n + 1
            /\ read.kind = "error" => raw[pos].k # 1
            /\ read.kind = "wait" /\ ~q.s.encrypted => raw[pos].k # 1 \/ raw[pos].p.len > n
        BY <3>1, ReadCounts
      <3>4. raw[pos] \in HostUnits /\ raw[pos].p \in HostPackets /\ raw[pos].p.len \in {1, 2}
        <4>1. raw[pos] \in HostUnits
          OBVIOUS
        <4> QED
          BY <4>1 DEF HostUnits, HostPackets
      <3>5. st = CASE read.kind = "error" -> [r |-> Fail(after), next |-> 0]
                   [] read.kind = "wait"  -> [r |-> after, next |-> 0]
                   [] read.kind = "pdu"   -> [r |-> Handle(after, read.p, channel), next |-> read.next]
        BY <2>5 DEF ReadStep
      <3>6. after \in Results /\ after.s = read.s /\ after.error = q.error /\ after.out = q.out
        BY <3>1, <3>2 DEF Results
      <3> HIDE DEF st, read, q
      <3>7. CASE read.kind = "error"
        <4>1. st.r = Fail(after) /\ st.next = 0
          BY <3>5, <3>7
        <4>2. <<Fail(after), a>> \in G
          <5>1. Kept(read.s, q.s) /\ q.s.encrypted /\ a <= Len(raw) /\ raw[a].k # 1
            BY <1>0, <3>1, <3>2, <3>3, <3>7
          <5> QED
            BY <3>1, <3>2, <5>1 DEF Chunks
        <4>3. st.r.error = TRUE
          BY <3>6, <4>1, FailIs
        <4> QED
          BY <4>1, <4>2, <4>3
      <3>8. CASE read.kind = "wait"
        <4>1. st.r = after /\ st.next = 0
          BY <3>5, <3>8
        <4>2. <<after, a>> \in G
          BY <3>1, <3>2, <3>3, <3>8 DEF Chunks
        <4>3. after.s.incomplete = SubSeq(raw, a, n)
          <5>1. CASE q.s.encrypted
            BY <3>1, <3>2, <3>6, <3>8, <5>1
          <5>2. CASE ~q.s.encrypted
            <6>1. pos = 1
              BY <1>0, <3>1, <3>3, <3>4, <3>8, <5>2
            <6>2. raw = SubSeq(raw, 1, n)
              OBVIOUS
            <6> QED
              BY <3>1, <3>2, <3>6, <3>8, <5>2, <6>1, <6>2
          <5> QED
            BY <5>1, <5>2
        <4> QED
          BY <4>1, <4>2, <4>3
      <3>9. CASE read.kind = "pdu"
        <4> DEFINE h == Handle(after, read.p, channel)
        <4>1. st.r = h /\ st.next = pos + raw[pos].p.len
          BY <3>2, <3>5, <3>9
        <4>2. read.p = raw[pos].p /\ raw[pos].k = 1 /\ pos <= n
          BY <3>2, <3>9
        <4>3. <<h, After(raw, pos)>> \in G
          BY <3>1, <3>2, <3>3, <3>9, <4>2 DEF Chunks
        <4>4. h.s.incomplete = after.s.incomplete
          BY <3>4, <3>6, <4>2, HandleOutcome, ZenonT(60) DEF SameReading
        <4>5. after.s.incomplete = <<>>
          BY <3>1, <3>3, <3>6, <3>9 DEF Counts
        <4> HIDE DEF h
        <4> DEFINE b == After(raw, pos)
        <4>6. b \in 1 .. n + 1 /\ b = IF st.next <= n + 1 THEN st.next ELSE n + 1
          BY <3>4, <4>1 DEF After
        <4>7. ASSUME 1 < b, b <= n PROVE raw[b].k = 1
          <5>1. b = pos + raw[pos].p.len
            BY <3>4, <4>7 DEF After
          <5>2. CASE raw[pos].p.len = 1
            <6>1. pos \in 1 .. Len(raw) - 1 /\ b = pos + 1
              BY <4>7, <5>1, <5>2
            <6>2. Follows(raw[pos], raw[b])
              BY <6>1 DEF Whole
            <6>3. ~(raw[pos].k < raw[pos].p.len)
              BY <4>2, <5>2
            <6> QED
              BY <6>2, <6>3 DEF Follows
          <5>3. CASE raw[pos].p.len = 2
            <6>1. pos \in 1 .. Len(raw) - 1 /\ pos + 1 \in 1 .. Len(raw) - 1 /\ b = pos + 1 + 1
              BY <4>7, <5>1, <5>3
            <6>2. raw[pos + 1] = [p |-> raw[pos].p, k |-> 2]
              BY <4>2, <5>3, <6>1 DEF Whole, Follows
            <6>3. ~(raw[pos + 1].k < raw[pos + 1].p.len)
              BY <5>3, <6>2
            <6> QED
              BY <6>1, <6>3 DEF Whole, Follows
          <5> QED
            BY <3>4, <5>2, <5>3
        <4>8. st.next > pos
          BY <3>4, <4>1
        <4> HIDE DEF b
        <4>9. Goes(st, b, pos)
          BY <4>1, <4>4, <4>5, <4>6, <4>7, <4>8
        <4> QED
          BY <4>1, <4>3, <4>6, <4>9 DEF b
      <3> QED
        BY <3>2, <3>7, <3>8, <3>9
    <2> QED
      BY <2>4, <2>5
  <1>3. PICK lp \in S[n] : ReadLoop(r, raw, channel) = lp.r
    <2> HIDE DEF S
    <2> QED
      BY <1>0, <1>1, <1>2, LoopRule
  <1>4. lp \in [r : Results, next : Nat] /\ In(lp, n)
    BY <1>0, <1>3
  <1>5. PICK a \in 1 .. n + 1 : <<lp.r, a>> \in G /\ (lp.r.error \/ Ends(lp, a) \/ Goes(lp, a, n))
    BY <1>4
  <1>6. Goes(lp, a, n) => lp.r.s.incomplete = SubSeq(raw, a, n)
    <2>1. SubSeq(raw, n + 1, n) = <<>>
      OBVIOUS
    <2>2. Goes(lp, a, n) => a = n + 1
      BY <1>0, <1>4
    <2> QED
      BY <2>1, <2>2
  <1> QED
    BY <1>3, <1>5, <1>6

LEMMA JoinedFacts ==
  ASSUME NEW s \in Session, NEW data \in Seq(HostUnits)
  PROVE  LET j == Joined(s, data) IN
         /\ j \in Results /\ Kept(j.s, s) /\ j.s.incomplete = <<>>
         /\ j.error = FALSE /\ j.msgs = <<>>
         /\ j.out \in {<<>>, <<Packet("WINDOW_ADJUST", 0, 0)>>}
PROOF
  <1> DEFINE size == Len(data)
             c == AccountWindow(Result(s), size, CurrentChannel(s))
             o == Packet("WINDOW_ADJUST", 0, 0)
             G(t) == /\ t \in Results /\ Kept(t.s, s) /\ t.s.incomplete = s.incomplete
                     /\ t.error = FALSE /\ t.msgs = <<>> /\ t.out \in {<<>>, <<o>>}
  <1>1. Result(s) \in Results /\ Result(s).s = s /\ Result(s).out = <<>> /\ Result(s).msgs = <<>>
        /\ Result(s).error = FALSE /\ size \in Nat
    BY ResultTyped DEF Result
  <1>2. Kept(s, s)
    BY DEF Kept, SameMain, SameKeys, SameChannels
  <1>3. G(c)
    <2>1. CASE c = Result(s)
      BY <1>1, <1>2, <2>1
    <2>2. CASE c = Send([Result(s) EXCEPT !.s.window = InitialWindow], o)
      <3> DEFINE t == [Result(s) EXCEPT !.s.window = InitialWindow]
      <3>0. InitialWindow \in 0 .. InitialWindow
        BY SshAssumption
      <3>1. /\ t \in Results /\ t.out = <<>> /\ t.msgs = <<>> /\ t.error = FALSE
            /\ Kept(t.s, s) /\ t.s.incomplete = s.incomplete
        BY <1>1, <3>0 DEF Results, Session, Kept, SameMain, SameKeys, SameChannels
      <3>2. o \in ClientPackets
        BY PacketsTyped DEF Values, ClientCodes
      <3> HIDE DEF t, o
      <3>3. c = Send(t, o)
        BY <2>2 DEF t
      <3>4. /\ c \in Results /\ c.s = t.s /\ c.out = Append(t.out, o) /\ c.msgs = t.msgs
            /\ c.error = t.error
        BY <3>1, <3>2, <3>3, SendIs
      <3>5. Append(<<>>, o) = <<o>>
        OBVIOUS
      <3> QED
        BY <3>1, <3>4, <3>5
    <2>3. CASE c = [Result(s) EXCEPT !.s.window = @ - size] /\ ~(s.window < size + MaxPacketSize)
      <3>1. s.window - size \in 0 .. InitialWindow
        BY <1>1, <2>3, SshAssumption DEF Session
      <3> HIDE DEF c
      <3> QED
        BY <1>1, <2>3, <3>1 DEF Results, Session, Kept, SameMain, SameKeys, SameChannels
    <2> QED
      BY <1>1, <2>1, <2>2, <2>3 DEF AccountWindow
  <1> HIDE DEF c, o
  <1>4. Joined(s, data) = [c EXCEPT !.s.firstDecrypted = @ \/ (Len(s.incomplete) > 1 /\ s.encrypted),
                                    !.s.incomplete = <<>>]
    BY DEF Joined, c
  <1>5. <<>> \in Seq(HostUnits) /\ (c.s.firstDecrypted \/ (Len(s.incomplete) > 1 /\ s.encrypted)) \in BOOLEAN
    BY <1>3 DEF Results, Session
  <1> DEFINE j == Joined(s, data)
  <1>6. /\ j \in Results /\ j.error = c.error /\ j.msgs = c.msgs /\ j.out = c.out
        /\ Kept(j.s, c.s) /\ j.s.incomplete = <<>>
    <2> DEFINE first == c.s.firstDecrypted \/ (Len(s.incomplete) > 1 /\ s.encrypted)
    <2>1. j = [c EXCEPT !.s.firstDecrypted = first, !.s.incomplete = <<>>]
      BY <1>4
    <2>2. first \in BOOLEAN
      BY <1>5
    <2> HIDE DEF j, first
    <2>3. c.s \in Session
      BY <1>3 DEF Results
    <2>4. j.s = [c.s EXCEPT !.firstDecrypted = first, !.incomplete = <<>>]
          /\ j.error = c.error /\ j.msgs = c.msgs /\ j.out = c.out
      BY <1>3, <2>1, <2>3 DEF Results
    <2>5. /\ j.s \in Session /\ j.s.incomplete = <<>> /\ Kept(j.s, c.s)
      BY <1>5, <2>2, <2>3, <2>4, ZenonT(60) DEF Session, Kept, SameMain, SameKeys, SameChannels
    <2>6. j \in Results
      BY JoinedTyped DEF j
    <2> QED
      BY <2>4, <2>5, <2>6
  <1>7. Kept(j.s, s)
    BY <1>3, <1>6 DEF Kept, SameMain, SameKeys, SameChannels
  <1> QED
    BY <1>3, <1>6, <1>7 DEF o

-----------------------------------------------------------------------------
(* The order of the packets on their way *)

\* A sequence as the codes in it; the later units of a packet have none.
AllCodes == HostCodes \cup ClientCodes \cup {"rest"}
CodesIn(u) == [i \in DOMAIN u |-> IF u[i].k = 1 THEN u[i].p.code ELSE "rest"]
CodesOut(n) == [i \in DOMAIN n |-> n[i].code]

\* Between KEXINIT and NEWKEYS there are none of the others.  begun: the one
\* who reads has had KEXINIT and not yet NEWKEYS; ends: the one who writes has.
Shut(c, i, j) == \E l \in i .. j : c[l] = "NEWKEYS"
Ordered(c, begun, ends, others) ==
  /\ \A i, j \in DOMAIN c : i < j /\ c[i] = "KEXINIT" /\ c[j] \in others => Shut(c, i, j)
  /\ begun => \A j \in DOMAIN c : c[j] \in others => Shut(c, 1, j)
  /\ ~ends => \A i \in DOMAIN c : c[i] = "KEXINIT" => Shut(c, i, Len(c))
  /\ begun /\ ~ends => Shut(c, 1, Len(c))

LEMMA OrderedAppend ==
  ASSUME NEW c \in Seq(AllCodes), NEW x \in AllCodes, NEW begun \in BOOLEAN, NEW ends \in BOOLEAN,
         NEW others, "KEXINIT" \notin others, Ordered(c, begun, ends, others),
         x \in others => ~ends
  PROVE  Ordered(Append(c, x), begun, x = "KEXINIT" \/ (x # "NEWKEYS" /\ ends), others)
PROOF
  <1> DEFINE d == Append(c, x)
             n == Len(c)
             after == x = "KEXINIT" \/ (x # "NEWKEYS" /\ ends)
  <1>1. /\ n \in Nat /\ Len(d) = n + 1 /\ DOMAIN d = 1 .. n + 1 /\ DOMAIN c = 1 .. n
        /\ d[n + 1] = x /\ \A i \in 1 .. n : d[i] = c[i]
    OBVIOUS
  <1> HIDE DEF d, n
  <1>2. \A i \in 1 .. n + 1, j \in 1 .. n : Shut(c, i, j) => Shut(d, i, j) /\ Shut(d, i, n + 1)
    BY <1>1 DEF Shut
  <1>3. x = "NEWKEYS" => \A i \in 1 .. n + 1 : Shut(d, i, n + 1)
    BY <1>1 DEF Shut
  <1>4. ASSUME NEW i \in 1 .. n + 1, NEW j \in 1 .. n + 1, i < j, d[i] = "KEXINIT", d[j] \in others
        PROVE  Shut(d, i, j)
    <2>1. i \in 1 .. n
      BY <1>1, <1>4
    <2>2. CASE j \in 1 .. n
      BY <1>1, <1>2, <1>4, <2>1, <2>2 DEF Ordered
    <2>3. CASE j = n + 1
      <3>1. ~ends
        BY <1>1, <1>4, <2>3
      <3>2. n \in 1 .. n /\ Shut(c, i, n)
        BY <1>1, <1>4, <2>1, <3>1 DEF Ordered, n
      <3> QED
        BY <1>2, <2>1, <2>3, <3>2
    <2> QED
      BY <1>1, <2>2, <2>3
  <1>5. ASSUME begun, NEW j \in 1 .. n + 1, d[j] \in others
        PROVE  Shut(d, 1, j)
    <2>1. CASE j \in 1 .. n
      BY <1>1, <1>2, <1>5, <2>1 DEF Ordered
    <2>2. CASE j = n + 1
      <3>1. Shut(c, 1, n)
        BY <1>1, <1>5, <2>2 DEF Ordered, n
      <3>2. n \in 1 .. n
        BY <1>1, <3>1 DEF Shut
      <3> QED
        BY <1>1, <1>2, <2>2, <3>1, <3>2
    <2> QED
      BY <1>1, <2>1, <2>2
  <1>6. ASSUME ~after, NEW i \in 1 .. n + 1, d[i] = "KEXINIT"
        PROVE  Shut(d, i, n + 1)
    <2>1. i \in 1 .. n
      BY <1>1, <1>6
    <2>2. CASE x = "NEWKEYS"
      BY <1>3, <2>2
    <2>3. CASE x # "NEWKEYS"
      <3>1. Shut(c, i, n) /\ n \in 1 .. n
        BY <1>1, <1>6, <2>1, <2>3 DEF Ordered, n
      <3> QED
        BY <1>2, <2>1, <3>1
    <2> QED
      BY <2>2, <2>3
  <1>7. ASSUME begun, ~after PROVE Shut(d, 1, n + 1)
    <2>1. CASE x = "NEWKEYS"
      BY <1>1, <1>3, <2>1
    <2>2. CASE x # "NEWKEYS"
      <3>1. Shut(c, 1, n)
        BY <1>7, <2>2 DEF Ordered, n
      <3>2. n \in 1 .. n
        BY <1>1, <3>1 DEF Shut
      <3> QED
        BY <1>1, <1>2, <3>1, <3>2
    <2> QED
      BY <2>1, <2>2
  <1> HIDE DEF after
  <1>8. Ordered(d, begun, after, others)
    BY <1>1, <1>4, <1>5, <1>6, <1>7 DEF Ordered
  <1> QED
    BY <1>8 DEF d, after

\* A packet is taken from the front.
LEMMA OrderedDrop ==
  ASSUME NEW c \in Seq(AllCodes), NEW d \in {1, 2}, d <= Len(c), d = 2 => c[2] = "rest",
         NEW begun \in BOOLEAN, NEW ends \in BOOLEAN, NEW others,
         "NEWKEYS" \notin others, Ordered(c, begun, ends, others)
  PROVE  /\ Ordered(SubSeq(c, d + 1, Len(c)), c[1] = "KEXINIT" \/ (c[1] # "NEWKEYS" /\ begun), ends, others)
         /\ begun => c[1] \notin others
PROOF
  <1> DEFINE e == SubSeq(c, d + 1, Len(c))
             n == Len(c)
             after == c[1] = "KEXINIT" \/ (c[1] # "NEWKEYS" /\ begun)
  <1>1. /\ n \in Nat /\ Len(e) = n - d /\ DOMAIN e = 1 .. n - d /\ DOMAIN c = 1 .. n
        /\ \A i \in 1 .. n - d : e[i] = c[i + d] /\ i + d \in 1 .. n
    OBVIOUS
  <1> HIDE DEF e
  <1>2. \A i, j \in 1 .. n - d : Shut(c, i + d, j + d) => Shut(e, i, j)
    <2> SUFFICES ASSUME NEW i \in 1 .. n - d, NEW j \in 1 .. n - d, Shut(c, i + d, j + d)
                 PROVE  Shut(e, i, j)
      OBVIOUS
    <2>1. PICK l \in i + d .. j + d : c[l] = "NEWKEYS"
      BY DEF Shut
    <2>2. l - d \in i .. j /\ e[l - d] = c[l]
      BY <1>1
    <2> QED
      BY <2>1, <2>2 DEF Shut
  <1>3. c[1] # "NEWKEYS" => \A j \in 1 .. n - d : Shut(c, 1, j + d) => Shut(e, 1, j)
    <2> SUFFICES ASSUME c[1] # "NEWKEYS", NEW j \in 1 .. n - d, Shut(c, 1, j + d)
                 PROVE  Shut(e, 1, j)
      OBVIOUS
    <2>1. PICK l \in 1 .. j + d : c[l] = "NEWKEYS"
      BY DEF Shut
    <2>2. l > d
      BY <2>1
    <2>3. l - d \in 1 .. j /\ e[l - d] = c[l]
      BY <1>1, <2>1, <2>2
    <2> QED
      BY <2>1, <2>3 DEF Shut
  <1>4. begun => c[1] \notin others
    <2> SUFFICES ASSUME begun, c[1] \in others PROVE FALSE
      OBVIOUS
    <2>1. Shut(c, 1, 1)
      BY <1>1 DEF Ordered
    <2> QED
      BY <2>1 DEF Shut
  <1>5. ASSUME NEW i \in 1 .. n - d, NEW j \in 1 .. n - d, i < j, e[i] = "KEXINIT", e[j] \in others
        PROVE  Shut(e, i, j)
    BY <1>1, <1>2, <1>5, SMTT(30) DEF Ordered
  <1>6. ASSUME after, NEW j \in 1 .. n - d, e[j] \in others
        PROVE  Shut(e, 1, j)
    <2>1. Shut(c, 1, j + d)
      BY <1>1, <1>6 DEF Ordered
    <2>2. c[1] # "NEWKEYS"
      BY <1>6
    <2> QED
      BY <1>3, <2>1, <2>2
  <1>7. ASSUME ~ends, NEW i \in 1 .. n - d, e[i] = "KEXINIT"
        PROVE  Shut(e, i, n - d)
    <2>1. Shut(c, i + d, n)
      BY <1>1, <1>7 DEF Ordered
    <2>2. n - d \in 1 .. n - d /\ n = (n - d) + d
      BY <1>1
    <2>3. Shut(c, i + d, (n - d) + d)
      BY <2>1, <2>2
    <2> QED
      BY <1>2, <2>2, <2>3
  <1>8. ASSUME after, ~ends PROVE Shut(e, 1, n - d)
    <2>1. Shut(c, 1, n) /\ c[1] # "NEWKEYS"
      BY <1>1, <1>8 DEF Ordered
    <2>2. PICK l \in 1 .. n : c[l] = "NEWKEYS"
      BY <2>1 DEF Shut
    <2>3. l > d
      BY <2>1, <2>2
    <2>4. l - d \in 1 .. n - d /\ e[l - d] = c[l]
      BY <1>1, <2>3
    <2> QED
      BY <2>2, <2>4 DEF Shut
  <1> HIDE DEF after
  <1>9. Ordered(e, after, ends, others)
    BY <1>1, <1>5, <1>6, <1>7, <1>8 DEF Ordered
  <1> QED
    BY <1>4, <1>9 DEF e, after

\* The rest of what is under way, when no key exchange has begun.
LEMMA OrderedRest ==
  ASSUME NEW c \in Seq(AllCodes), NEW m \in 0 .. Len(c), NEW ends \in BOOLEAN, NEW others,
         Ordered(c, FALSE, ends, others)
  PROVE  Ordered(SubSeq(c, m + 1, Len(c)), FALSE, ends, others)
PROOF
  <1> DEFINE e == SubSeq(c, m + 1, Len(c))
             n == Len(c)
  <1>1. /\ n \in Nat /\ Len(e) = n - m /\ DOMAIN e = 1 .. n - m /\ DOMAIN c = 1 .. n
        /\ \A i \in 1 .. n - m : e[i] = c[i + m] /\ i + m \in 1 .. n
    OBVIOUS
  <1> HIDE DEF e
  <1>2. \A i, j \in 1 .. n - m : Shut(c, i + m, j + m) => Shut(e, i, j)
    <2> SUFFICES ASSUME NEW i \in 1 .. n - m, NEW j \in 1 .. n - m, Shut(c, i + m, j + m)
                 PROVE  Shut(e, i, j)
      OBVIOUS
    <2>1. PICK l \in i + m .. j + m : c[l] = "NEWKEYS"
      BY DEF Shut
    <2>2. l - m \in i .. j /\ e[l - m] = c[l]
      BY <1>1
    <2> QED
      BY <2>1, <2>2 DEF Shut
  <1>3. ASSUME NEW i \in 1 .. n - m, NEW j \in 1 .. n - m, i < j, e[i] = "KEXINIT", e[j] \in others
        PROVE  Shut(e, i, j)
    <2>1. /\ i + m \in DOMAIN c /\ j + m \in DOMAIN c /\ i + m < j + m
          /\ c[i + m] = "KEXINIT" /\ c[j + m] \in others
      BY <1>1, <1>3
    <2>2. Shut(c, i + m, j + m)
      BY <2>1 DEF Ordered
    <2> QED
      BY <1>2, <2>2
  <1>4. ASSUME ~ends, NEW i \in 1 .. n - m, e[i] = "KEXINIT"
        PROVE  Shut(e, i, n - m)
    <2>1. Shut(c, i + m, n)
      BY <1>1, <1>4 DEF Ordered
    <2>2. n - m \in 1 .. n - m /\ n = (n - m) + m
      BY <1>1
    <2>3. Shut(c, i + m, (n - m) + m)
      BY <2>1, <2>2
    <2> QED
      BY <1>2, <2>2, <2>3
  <1>5. Ordered(e, FALSE, ends, others)
    BY <1>1, <1>3, <1>4 DEF Ordered
  <1> QED
    BY <1>5 DEF e

\* A number of the others can follow when the writer is between key exchanges.
LEMMA OrderedConcat ==
  ASSUME NEW c \in Seq(AllCodes), NEW d \in Seq(AllCodes), NEW begun \in BOOLEAN, NEW others,
         "KEXINIT" \notin others, Ordered(c, begun, FALSE, others), \A i \in DOMAIN d : d[i] \in others
  PROVE  Ordered(c \o d, begun, FALSE, others)
PROOF
  <1> DEFINE e == c \o d
             n == Len(c)
             m == Len(d)
  <1>1. /\ n \in Nat /\ m \in Nat /\ Len(e) = n + m /\ DOMAIN e = 1 .. n + m /\ DOMAIN c = 1 .. n
        /\ DOMAIN d = 1 .. m /\ \A i \in 1 .. n : e[i] = c[i]
        /\ \A i \in 1 .. n + m : i > n => e[i] = d[i - n] /\ i - n \in 1 .. m
    OBVIOUS
  <1> HIDE DEF e, n, m
  <1>2. \A i \in 1 .. n + m, j \in 1 .. n, k \in 1 .. n + m : j <= k /\ Shut(c, i, j) => Shut(e, i, k)
    BY <1>1 DEF Shut
  <1>3. \A i \in 1 .. n + m : e[i] = "KEXINIT" => i \in 1 .. n /\ c[i] = "KEXINIT" /\ n \in 1 .. n
                                                  /\ Shut(c, i, n)
    <2> SUFFICES ASSUME NEW i \in 1 .. n + m, e[i] = "KEXINIT"
                 PROVE  i \in 1 .. n /\ c[i] = "KEXINIT" /\ n \in 1 .. n /\ Shut(c, i, n)
      OBVIOUS
    <2>1. i \in 1 .. n
      <3>1. CASE i > n
        BY <1>1, <3>1
      <3> QED
        BY <1>1, <3>1
    <2>2. c[i] = "KEXINIT" /\ i \in DOMAIN c /\ n \in 1 .. n
      BY <1>1, <2>1
    <2>3. Shut(c, i, n)
      BY <2>2 DEF Ordered, n
    <2> QED
      BY <2>1, <2>2, <2>3
  <1>4. ASSUME NEW i \in 1 .. n + m, NEW j \in 1 .. n + m, i < j, e[i] = "KEXINIT", e[j] \in others
        PROVE  Shut(e, i, j)
    <2>1. CASE j \in 1 .. n
      BY <1>1, <1>2, <1>3, <1>4, <2>1 DEF Ordered
    <2>2. CASE j > n
      BY <1>1, <1>2, <1>3, <1>4, <2>2
    <2> QED
      BY <1>1, <2>1, <2>2
  <1>5. begun => n \in 1 .. n /\ Shut(c, 1, n)
    <2>1. begun => Shut(c, 1, n)
      BY DEF Ordered, n
    <2> QED
      BY <1>1, <2>1 DEF Shut
  <1>6. ASSUME begun, NEW j \in 1 .. n + m, e[j] \in others PROVE Shut(e, 1, j)
    <2>1. CASE j \in 1 .. n
      BY <1>1, <1>2, <1>6, <2>1 DEF Ordered
    <2>2. CASE j > n
      BY <1>1, <1>2, <1>5, <1>6, <2>2
    <2> QED
      BY <1>1, <2>1, <2>2
  <1>7. \A i \in 1 .. n + m : e[i] = "KEXINIT" => Shut(e, i, n + m)
    BY <1>1, <1>2, <1>3
  <1>8. begun => Shut(e, 1, n + m)
    BY <1>1, <1>2, <1>5
  <1> QED
    BY <1>1, <1>4, <1>6, <1>7, <1>8 DEF Ordered, e

LEMMA SameSequence ==
  ASSUME NEW S, NEW T, NEW s \in Seq(S), NEW t \in Seq(T), Len(s) = Len(t), \A i \in 1 .. Len(s) : s[i] = t[i]
  PROVE  s = t
PROOF
  <1>1. s \in [1 .. Len(s) -> S] /\ t \in [1 .. Len(t) -> T]
    OBVIOUS
  <1> QED
    BY <1>1

LEMMA JoinFacts ==
  ASSUME NEW S, NEW s \in Seq(S), NEW t \in Seq(S)
  PROVE  /\ s \o t \in Seq(S) /\ Len(s \o t) = Len(s) + Len(t) /\ Len(s) \in Nat /\ Len(t) \in Nat
         /\ DOMAIN s = 1 .. Len(s) /\ DOMAIN t = 1 .. Len(t) /\ DOMAIN (s \o t) = 1 .. Len(s) + Len(t)
         /\ \A i \in 1 .. Len(s) : (s \o t)[i] = s[i]
         /\ \A i \in 1 .. Len(t) : (s \o t)[Len(s) + i] = t[i]
  OBVIOUS

\* The codes of what is joined, cut or added.
LEMMA CodesInFacts ==
  ASSUME NEW u \in Seq(HostUnits)
  PROVE  /\ CodesIn(u) \in Seq(AllCodes) /\ Len(CodesIn(u)) = Len(u)
         /\ \A i \in 1 .. Len(u) : CodesIn(u)[i] = IF u[i].k = 1 THEN u[i].p.code ELSE "rest"
         /\ \A a \in 1 .. Len(u) + 1 :
              CodesIn(SubSeq(u, a, Len(u))) = SubSeq(CodesIn(u), a, Len(u))
PROOF
  <1>1. \A i \in 1 .. Len(u) : u[i].p.code \in AllCodes
    <2>1. ASSUME NEW i \in 1 .. Len(u) PROVE u[i].p.code \in AllCodes
      <3>1. u[i] \in HostUnits
        OBVIOUS
      <3> QED
        BY <3>1 DEF HostUnits, HostPackets, AllCodes
    <2> QED
      BY <2>1
  <1>2. "rest" \in AllCodes /\ DOMAIN u = 1 .. Len(u) /\ Len(u) \in Nat
    BY DEF AllCodes
  <1>3. \A i \in 1 .. Len(u) : CodesIn(u)[i] = IF u[i].k = 1 THEN u[i].p.code ELSE "rest"
    BY <1>2 DEF CodesIn
  <1>4. CodesIn(u) \in Seq(AllCodes) /\ Len(CodesIn(u)) = Len(u)
    <2>1. CodesIn(u) \in [1 .. Len(u) -> AllCodes]
      BY <1>1, <1>2 DEF CodesIn
    <2> QED
      BY <1>2, <2>1
  <1>5. ASSUME NEW a \in 1 .. Len(u) + 1
        PROVE  CodesIn(SubSeq(u, a, Len(u))) = SubSeq(CodesIn(u), a, Len(u))
    <2> DEFINE v == SubSeq(u, a, Len(u))
               l == CodesIn(v)
               r == SubSeq(CodesIn(u), a, Len(u))
    <2>1. Len(v) = Len(u) - a + 1 /\ DOMAIN v = 1 .. Len(v) /\ \A i \in 1 .. Len(v) : v[i] = u[i + a - 1]
      BY <1>2
    <2>2. Len(r) = Len(v) /\ DOMAIN r = 1 .. Len(v) /\ \A i \in 1 .. Len(v) : r[i] = CodesIn(u)[i + a - 1]
      BY <1>2, <1>4, <2>1
    <2>3. r = [i \in 1 .. Len(v) |-> r[i]]
      <3>1. r \in Seq(AllCodes)
        BY <1>2, <1>4
      <3> HIDE DEF r, v
      <3> QED
        BY <2>2, <3>1
    <2> HIDE DEF v, r
    <2>4. \A i \in 1 .. Len(v) : r[i] = IF v[i].k = 1 THEN v[i].p.code ELSE "rest"
      BY <1>2, <1>3, <2>1, <2>2, SMTT(30)
    <2>5. l = [i \in 1 .. Len(v) |-> IF v[i].k = 1 THEN v[i].p.code ELSE "rest"]
      BY <2>1 DEF CodesIn
    <2>6. l = r
      BY <2>3, <2>4, <2>5
    <2> QED
      BY <2>6 DEF v, r
  <1> QED
    BY <1>3, <1>4, <1>5

LEMMA CodesInAdd ==
  ASSUME NEW u \in Seq(HostUnits), NEW p \in HostPackets
  PROVE  LET c == Append(CodesIn(u), p.code)
         IN  CodesIn(u \o Units(p)) = IF p.len = 1 THEN c ELSE Append(c, "rest")
PROOF
  <1> DEFINE v == u \o Units(p)
             n == Len(u)
             c == Append(CodesIn(u), p.code)
             d == IF p.len = 1 THEN c ELSE Append(c, "rest")
  <1>1. p.len \in {1, 2} /\ p.code \in AllCodes /\ "rest" \in AllCodes
    BY DEF HostPackets, AllCodes
  <1>2. Units(p) \in Seq(HostUnits) /\ Len(Units(p)) = p.len /\ \A k \in 1 .. p.len : Units(p)[k] = [p |-> p, k |-> k]
    BY UnitsFacts
  <1>3. v \in Seq(HostUnits) /\ Len(v) = n + p.len /\ (\A i \in 1 .. n : v[i] = u[i])
        /\ \A k \in 1 .. p.len : v[n + k] = Units(p)[k]
    BY <1>1, <1>2
  <1>4. CodesIn(u) \in Seq(AllCodes) /\ Len(CodesIn(u)) = n /\ n \in Nat
    BY CodesInFacts
  <1>5. d \in Seq(AllCodes) /\ Len(d) = n + p.len /\ (\A i \in 1 .. n : d[i] = CodesIn(u)[i])
        /\ d[n + 1] = p.code /\ (p.len = 2 => d[n + 2] = "rest")
    <2> DEFINE b == Append(CodesIn(u), p.code)
               f == Append(b, "rest")
    <2>1. /\ b \in Seq(AllCodes) /\ Len(b) = n + 1 /\ (\A i \in 1 .. n : b[i] = CodesIn(u)[i])
          /\ b[n + 1] = p.code
      BY <1>1, <1>4
    <2>2. d = IF p.len = 1 THEN b ELSE f
      OBVIOUS
    <2> HIDE DEF b, d
    <2>3. /\ f \in Seq(AllCodes) /\ Len(f) = n + 2 /\ (\A i \in 1 .. n : f[i] = CodesIn(u)[i])
          /\ f[n + 1] = p.code /\ f[n + 2] = "rest"
      BY <1>1, <1>4, <2>1
    <2> HIDE DEF f
    <2>4. CASE p.len = 1
      BY <2>1, <2>2, <2>4
    <2>5. CASE p.len = 2
      BY <2>2, <2>3, <2>5
    <2> QED
      BY <1>1, <2>4, <2>5
  <1>6. CodesIn(v) \in Seq(AllCodes) /\ Len(CodesIn(v)) = n + p.len
        /\ \A i \in 1 .. n + p.len : CodesIn(v)[i] = IF v[i].k = 1 THEN v[i].p.code ELSE "rest"
    BY <1>3, CodesInFacts
  <1>7. ASSUME NEW i \in 1 .. n + p.len PROVE CodesIn(v)[i] = d[i]
    <2> HIDE DEF v, d
    <2>1. CASE i \in 1 .. n
      <3>1. CodesIn(u)[i] = IF u[i].k = 1 THEN u[i].p.code ELSE "rest"
        BY <2>1, CodesInFacts
      <3> QED
        BY <1>3, <1>5, <1>6, <2>1, <3>1
    <2>2. CASE i = n + 1
      <3>1. v[i] = [p |-> p, k |-> 1]
        BY <1>1, <1>2, <1>3, <2>2, SMTT(30)
      <3> QED
        BY <1>5, <1>6, <2>2, <3>1
    <2>3. CASE p.len = 2 /\ i = n + 2
      <3>1. v[i] = [p |-> p, k |-> 2]
        BY <1>2, <1>3, <2>3
      <3> QED
        BY <1>5, <1>6, <2>3, <3>1
    <2> QED
      BY <1>1, <1>4, <2>1, <2>2, <2>3
  <1> HIDE DEF v, d
  <1>8. CodesIn(v) = d
    <2>1. Len(CodesIn(v)) = Len(d) /\ \A i \in 1 .. Len(CodesIn(v)) : CodesIn(v)[i] = d[i]
      BY <1>5, <1>6, <1>7
    <2> QED
      BY <1>5, <1>6, <2>1, SameSequence
  <1> QED
    BY <1>8 DEF v, d

LEMMA CodesOutFacts ==
  ASSUME NEW n \in Seq(ClientPackets)
  PROVE  /\ CodesOut(n) \in Seq(AllCodes) /\ Len(CodesOut(n)) = Len(n)
         /\ \A i \in 1 .. Len(n) : CodesOut(n)[i] = n[i].code
         /\ \A m \in Seq(ClientPackets) : CodesOut(n \o m) = CodesOut(n) \o CodesOut(m)
         /\ \A p \in ClientPackets : CodesOut(Append(n, p)) = Append(CodesOut(n), p.code)
         /\ n # <<>> => CodesOut(Tail(n)) = SubSeq(CodesOut(n), 2, Len(n)) /\ CodesOut(n)[1] = Head(n).code
PROOF
  <1>0. ASSUME NEW m \in Seq(ClientPackets)
        PROVE  CodesOut(m) \in Seq(AllCodes) /\ Len(CodesOut(m)) = Len(m)
               /\ \A i \in 1 .. Len(m) : CodesOut(m)[i] = m[i].code
    <2>1. ASSUME NEW i \in 1 .. Len(m) PROVE m[i].code \in AllCodes
      <3>1. m[i] \in ClientPackets
        OBVIOUS
      <3> QED
        BY <3>1 DEF ClientPackets, AllCodes
    <2>2. DOMAIN m = 1 .. Len(m) /\ Len(m) \in Nat
      OBVIOUS
    <2>3. CodesOut(m) \in [1 .. Len(m) -> AllCodes] /\ \A i \in 1 .. Len(m) : CodesOut(m)[i] = m[i].code
      BY <2>1, <2>2 DEF CodesOut
    <2> QED
      BY <2>2, <2>3
  <1>1. ASSUME NEW m \in Seq(ClientPackets) PROVE CodesOut(n \o m) = CodesOut(n) \o CodesOut(m)
    <2> DEFINE e == n \o m
               c == CodesOut(n)
               d == CodesOut(m)
    <2>1. e \in Seq(ClientPackets) /\ Len(e) = Len(n) + Len(m) /\ Len(n) \in Nat /\ Len(m) \in Nat
          /\ \A i \in 1 .. Len(n) + Len(m) :
               e[i] = (IF i <= Len(n) THEN n[i] ELSE m[i - Len(n)])
               /\ (i > Len(n) => i - Len(n) \in 1 .. Len(m))
      OBVIOUS
    <2>2. /\ c \in Seq(AllCodes) /\ Len(c) = Len(n) /\ \A i \in 1 .. Len(n) : c[i] = n[i].code
          /\ d \in Seq(AllCodes) /\ Len(d) = Len(m) /\ \A i \in 1 .. Len(m) : d[i] = m[i].code
          /\ CodesOut(e) \in Seq(AllCodes) /\ Len(CodesOut(e)) = Len(e)
          /\ \A i \in 1 .. Len(e) : CodesOut(e)[i] = e[i].code
      BY <1>0, <2>1
    <2> HIDE DEF e, c, d
    <2>3. c \o d \in Seq(AllCodes) /\ Len(c \o d) = Len(e)
          /\ \A i \in 1 .. Len(e) : (c \o d)[i] = IF i <= Len(n) THEN c[i] ELSE d[i - Len(n)]
      BY <2>1, <2>2
    <2>4. ASSUME NEW i \in 1 .. Len(e) PROVE CodesOut(e)[i] = (c \o d)[i]
      <3>1. CASE i <= Len(n)
        <4>1. i \in 1 .. Len(n) /\ e[i] = n[i] /\ (c \o d)[i] = c[i]
          BY <2>1, <2>3, <3>1
        <4> QED
          BY <2>2, <4>1
      <3>2. CASE i > Len(n)
        <4>1. i - Len(n) \in 1 .. Len(m) /\ e[i] = m[i - Len(n)] /\ (c \o d)[i] = d[i - Len(n)]
          BY <2>1, <2>3, <3>2
        <4> QED
          BY <2>2, <4>1
      <3>3. i <= Len(n) \/ i > Len(n)
        BY <2>1
      <3> QED
        BY <3>1, <3>2, <3>3
    <2>5. CodesOut(e) = c \o d
      BY <2>2, <2>3, <2>4, SameSequence
    <2> QED
      BY <2>5 DEF e, c, d
  <1>2. ASSUME NEW p \in ClientPackets PROVE CodesOut(Append(n, p)) = Append(CodesOut(n), p.code)
    <2> DEFINE e == Append(n, p)
               c == CodesOut(n)
    <2>1. e \in Seq(ClientPackets) /\ Len(e) = Len(n) + 1 /\ Len(n) \in Nat /\ p.code \in AllCodes
          /\ \A i \in 1 .. Len(n) + 1 : e[i] = IF i <= Len(n) THEN n[i] ELSE p
      BY DEF ClientPackets, AllCodes
    <2>2. /\ c \in Seq(AllCodes) /\ Len(c) = Len(n) /\ \A i \in 1 .. Len(n) : c[i] = n[i].code
          /\ CodesOut(e) \in Seq(AllCodes) /\ Len(CodesOut(e)) = Len(e)
          /\ \A i \in 1 .. Len(e) : CodesOut(e)[i] = e[i].code
      BY <1>0, <2>1
    <2> HIDE DEF e, c
    <2>3. Append(c, p.code) \in Seq(AllCodes) /\ Len(Append(c, p.code)) = Len(e)
          /\ \A i \in 1 .. Len(e) : Append(c, p.code)[i] = IF i <= Len(n) THEN c[i] ELSE p.code
      BY <2>1, <2>2
    <2>4. \A i \in 1 .. Len(e) : CodesOut(e)[i] = Append(c, p.code)[i]
      BY <2>1, <2>2, <2>3
    <2>5. CodesOut(e) = Append(c, p.code)
      BY <2>2, <2>3, <2>4
    <2> QED
      BY <2>5 DEF e, c
  <1>3. ASSUME n # <<>>
        PROVE  CodesOut(Tail(n)) = SubSeq(CodesOut(n), 2, Len(n)) /\ CodesOut(n)[1] = Head(n).code
    <2> DEFINE e == Tail(n)
               c == CodesOut(n)
    <2>1. e \in Seq(ClientPackets) /\ Len(e) = Len(n) - 1 /\ Len(n) \in Nat /\ Len(n) >= 1
          /\ Head(n) = n[1] /\ \A i \in 1 .. Len(n) - 1 : e[i] = n[i + 1]
      BY <1>3
    <2>2. /\ c \in Seq(AllCodes) /\ Len(c) = Len(n) /\ \A i \in 1 .. Len(n) : c[i] = n[i].code
          /\ CodesOut(e) \in Seq(AllCodes) /\ Len(CodesOut(e)) = Len(e)
          /\ \A i \in 1 .. Len(e) : CodesOut(e)[i] = e[i].code
      BY <1>0, <2>1
    <2> HIDE DEF e, c
    <2>3. SubSeq(c, 2, Len(n)) \in Seq(AllCodes) /\ Len(SubSeq(c, 2, Len(n))) = Len(e)
          /\ \A i \in 1 .. Len(e) : SubSeq(c, 2, Len(n))[i] = c[i + 1]
      BY <2>1, <2>2
    <2>4. \A i \in 1 .. Len(e) : CodesOut(e)[i] = SubSeq(c, 2, Len(n))[i]
      BY <2>1, <2>2, <2>3
    <2>5. CodesOut(e) = SubSeq(c, 2, Len(n))
      BY <2>2, <2>3, <2>4
    <2> QED
      BY <2>1, <2>2, <2>5 DEF e, c
  <1> QED
    BY <1>0, <1>1, <1>2, <1>3

\* Whole packets, the last one complete.
Ended(u) == u # <<>> => u[Len(u)].k = u[Len(u)].p.len

LEMMA WholeAdd ==
  ASSUME NEW u \in Seq(HostUnits), Whole(u), Ended(u), NEW p \in HostPackets
  PROVE  Whole(u \o Units(p)) /\ Ended(u \o Units(p))
PROOF
  <1> DEFINE v == u \o Units(p)
             n == Len(u)
  <1>1. p.len \in {1, 2} /\ n \in Nat
    BY DEF HostPackets
  <1>2. Units(p) \in Seq(HostUnits) /\ Len(Units(p)) = p.len /\ \A k \in 1 .. p.len : Units(p)[k] = [p |-> p, k |-> k]
    BY UnitsFacts
  <1>3. v \in Seq(HostUnits) /\ Len(v) = n + p.len /\ DOMAIN v = 1 .. n + p.len /\ DOMAIN u = 1 .. n
        /\ (\A i \in 1 .. n : v[i] = u[i])
    BY <1>1, <1>2
  <1>4. v[n + 1] = [p |-> p, k |-> 1] /\ (p.len = 2 => v[n + 2] = [p |-> p, k |-> 2])
    BY <1>1, <1>2
  <1> HIDE DEF v
  <1>5. \A i \in DOMAIN v : v[i].k <= v[i].p.len
    <2>1. ASSUME NEW i \in 1 .. n PROVE v[i].k <= v[i].p.len
      BY <1>3, <2>1 DEF Whole
    <2>2. ASSUME NEW i \in 1 .. n + p.len, i > n PROVE v[i].k <= v[i].p.len
      <3>1. i = n + 1 \/ (p.len = 2 /\ i = n + 2)
        BY <1>1, <2>2
      <3> QED
        BY <1>1, <1>4, <3>1
    <2> QED
      BY <1>1, <1>3, <2>1, <2>2
  <1>6. ASSUME NEW i \in 1 .. n + p.len - 1 PROVE Follows(v[i], v[i + 1])
    <2>1. CASE i \in 1 .. n - 1
      <3>1. v[i] = u[i] /\ v[i + 1] = u[i + 1]
        BY <1>1, <1>3, <2>1
      <3> QED
        BY <2>1, <3>1 DEF Whole
    <2>2. CASE i = n
      <3>1. u # <<>> /\ v[i] = u[n] /\ v[i + 1] = [p |-> p, k |-> 1]
        BY <1>1, <1>3, <1>4, <2>2
      <3>2. u[n].k = u[n].p.len
        BY <3>1 DEF Ended
      <3>3. u[n].p.len \in Nat
        <4>1. u[n] \in HostUnits
          BY <1>1, <2>2
        <4> QED
          BY <4>1 DEF HostUnits, HostPackets
      <3>4. ~(u[n].k < u[n].p.len)
        BY <3>2, <3>3
      <3> QED
        BY <3>1, <3>4 DEF Follows
    <2>3. CASE p.len = 2 /\ i = n + 1
      BY <1>4, <2>3 DEF Follows
    <2> QED
      BY <1>1, <2>1, <2>2, <2>3
  <1>7. Ended(v)
    BY <1>1, <1>3, <1>4 DEF Ended
  <1>8. Whole(v)
    <2>0. Len(v) - 1 = n + p.len - 1
      BY <1>1, <1>3
    <2>1. \A i \in 1 .. Len(v) - 1 : Follows(v[i], v[i + 1])
      BY <1>6, <2>0
    <2> QED
      BY <1>5, <2>1 DEF Whole
  <1> QED
    BY <1>7, <1>8 DEF v

Rest(u, a) == SubSeq(u, a, Len(u))
LEMMA RestFacts ==
  ASSUME NEW u \in Seq(HostUnits), NEW a \in 1 .. Len(u) + 1
  PROVE  /\ Rest(u, a) \in Seq(HostUnits) /\ Len(Rest(u, a)) = Len(u) + 1 - a
         /\ \A i \in 1 .. Len(u) + 1 - a : Rest(u, a)[i] = u[a + i - 1]
         /\ Whole(u) => Whole(Rest(u, a))
         /\ Ended(u) => Ended(Rest(u, a))
         /\ Rest(u, 1) = u
         /\ \A b \in 1 .. Len(u) + 2 - a : Rest(Rest(u, a), b) = Rest(u, a + b - 1)
PROOF
  <1> DEFINE v == Rest(u, a)
             n == Len(u)
  <1>1. v \in Seq(HostUnits) /\ Len(v) = n + 1 - a /\ DOMAIN v = 1 .. n + 1 - a /\ n \in Nat
        /\ DOMAIN u = 1 .. n /\ \A i \in 1 .. n + 1 - a : v[i] = u[a + i - 1]
    BY DEF Rest
  <1>2. Rest(u, 1) = u
    BY DEF Rest
  <1>3. ASSUME NEW b \in 1 .. n + 2 - a PROVE Rest(v, b) = Rest(u, a + b - 1)
    <2> DEFINE l == Rest(v, b)
               r == Rest(u, a + b - 1)
    <2> HIDE DEF v
    <2>1. l \in Seq(HostUnits) /\ Len(l) = n + 2 - a - b /\ \A i \in 1 .. n + 2 - a - b : l[i] = v[b + i - 1]
      BY <1>1, SMTT(30) DEF Rest
    <2>2. r \in Seq(HostUnits) /\ Len(r) = n + 2 - a - b /\ \A i \in 1 .. n + 2 - a - b : r[i] = u[a + b - 1 + i - 1]
      BY <1>1 DEF Rest
    <2> HIDE DEF l, r
    <2>3. ASSUME NEW i \in 1 .. n + 2 - a - b PROVE l[i] = r[i]
      <3>1. b + i - 1 \in 1 .. n + 1 - a /\ a + (b + i - 1) - 1 = a + b - 1 + i - 1
        BY <1>1
      <3>2. v[b + i - 1] = u[a + (b + i - 1) - 1]
        BY <1>1, <3>1
      <3> QED
        BY <2>1, <2>2, <3>1, <3>2
    <2>4. l = r
      BY <2>1, <2>2, <2>3, SameSequence
    <2> QED
      BY <2>4 DEF l, r
  <1> HIDE DEF v
  <1>4. Whole(u) => Whole(v)
    <2> SUFFICES ASSUME Whole(u) PROVE Whole(v)
      OBVIOUS
    <2>1. ASSUME NEW i \in 1 .. n + 1 - a PROVE v[i].k <= v[i].p.len
      <3>1. v[i] = u[a + i - 1] /\ a + i - 1 \in DOMAIN u
        BY <1>1
      <3> QED
        BY <3>1 DEF Whole
    <2>2. ASSUME NEW i \in 1 .. Len(v) - 1 PROVE Follows(v[i], v[i + 1])
      <3>1. v[i] = u[a + i - 1] /\ v[i + 1] = u[a + i - 1 + 1] /\ a + i - 1 \in 1 .. n - 1
        BY <1>1
      <3> QED
        BY <3>1 DEF Whole
    <2> QED
      BY <1>1, <2>1, <2>2 DEF Whole
  <1>5. Ended(u) => Ended(v)
    <2> SUFFICES ASSUME Ended(u), v # <<>> PROVE v[Len(v)].k = v[Len(v)].p.len
      BY DEF Ended
    <2>1. Len(v) \in 1 .. n + 1 - a /\ v[Len(v)] = u[n] /\ u # <<>>
      BY <1>1
    <2> QED
      BY <2>1 DEF Ended
  <1> QED
    BY <1>1, <1>2, <1>3, <1>4, <1>5 DEF v

\* What the handling of a packet takes from the front of what is under way:
\* its first unit and, unless the chunk ended there, the other one.
Taken(full, m, raw, a) ==
  LET b == After(raw, a)
      u == Rest(full, a)
      d == b - a IN
  /\ b \in 1 .. m + 1 /\ d \in {1, 2} /\ d <= Len(u) /\ u[1] = raw[a] /\ u \in Seq(HostUnits)
  /\ d = 2 => u[2] = [p |-> raw[a].p, k |-> 2]
  /\ Rest(full, b) = SubSeq(u, d + 1, Len(u))
  /\ a + raw[a].p.len <= m + 1 => d = raw[a].p.len
  /\ raw[a] \in HostUnits /\ raw[a].p \in HostPackets
  /\ Whole(u) /\ Ended(u)

LEMMA TakesPacket ==
  ASSUME NEW full \in Seq(HostUnits), Whole(full), Ended(full), NEW m \in 0 .. Len(full),
         NEW raw, raw = SubSeq(full, 1, m), NEW a \in 1 .. m, raw[a].k = 1
  PROVE  Taken(full, m, raw, a)
PROOF
  <1> DEFINE b == After(raw, a)
             u == Rest(full, a)
             d == b - a
  <1>1. Len(full) \in Nat /\ m \in Nat /\ Len(raw) = m /\ raw[a] = full[a] /\ a \in 1 .. Len(full) + 1
        /\ raw[a] \in HostUnits
    OBVIOUS
  <1>2. raw[a].p \in HostPackets /\ raw[a].p.len \in {1, 2}
    BY <1>1 DEF HostUnits, HostPackets
  <1>3. /\ u \in Seq(HostUnits) /\ Len(u) = Len(full) + 1 - a
        /\ \A i \in 1 .. Len(full) + 1 - a : u[i] = full[a + i - 1]
        /\ Whole(u) /\ Ended(u)
        /\ \A c \in 1 .. Len(full) + 2 - a : Rest(u, c) = Rest(full, a + c - 1)
    BY <1>1, RestFacts
  <1>4. b \in 1 .. m + 1 /\ d \in {1, 2} /\ (a + raw[a].p.len <= m + 1 => d = raw[a].p.len)
        /\ (d = 2 => raw[a].p.len = 2)
    BY <1>1, <1>2 DEF After
  <1> HIDE DEF u, b
  <1>5. d <= Len(u) /\ u[1] = raw[a]
    <2>1. 1 \in 1 .. Len(full) + 1 - a /\ a + 1 - 1 = a
      BY <1>1
    <2>2. u[1] = full[a + 1 - 1]
      BY <1>3, <2>1
    <2>3. d <= Len(u)
      BY <1>1, <1>3, <1>4
    <2> QED
      BY <1>1, <2>1, <2>2, <2>3
  <1>6. d = 2 => u[2] = [p |-> raw[a].p, k |-> 2]
    <2> SUFFICES ASSUME d = 2 PROVE u[2] = [p |-> raw[a].p, k |-> 2]
      OBVIOUS
    <2>1. 1 \in 1 .. Len(u) - 1 /\ Len(u) \in Nat
      BY <1>3, <1>5
    <2>2. Follows(u[1], u[1 + 1])
      BY <1>3, <2>1 DEF Whole
    <2> QED
      BY <1>4, <1>5, <2>2 DEF Follows
  <1>7. Rest(full, b) = SubSeq(u, d + 1, Len(u))
    <2>1. d + 1 \in 1 .. Len(full) + 2 - a /\ a + (d + 1) - 1 = b
      BY <1>1, <1>3, <1>4, <1>5
    <2> QED
      BY <1>3, <2>1 DEF Rest
  <1> QED
    BY <1>1, <1>2, <1>3, <1>4, <1>5, <1>6, <1>7 DEF Taken, u, b

-----------------------------------------------------------------------------
(* Before the connection, and beside SSH *)

Live == kind = "ssh" /\ cur = 1 /\ socks[1] = "up"

\* The first connection has not been made yet: nothing has happened.
Unconnected == cur <= 1 /\ socks[1] \in {"none", "connecting"}
FreshServer ==
  [sent |-> 0, kex |-> FALSE, quiet |-> FALSE, confused |-> FALSE, keys |-> FALSE,
   held |-> <<>>, got |-> <<>>, rekeys |-> 0, tries |-> 0, over |-> FALSE,
   authed |-> FALSE, method |-> "gex"]
Blank(h) ==
  /\ h.typed = <<>> /\ h.shown = <<>> /\ h.data = 0 /\ h.raw = FALSE /\ h.extra = FALSE
  /\ h.failed = FALSE
Untouched ==
  /\ conn = FALSE /\ ssh = NoSession /\ net = <<>> /\ stream = <<>> /\ buffered = <<>>
  /\ awaiting = FALSE /\ asked = "none" /\ srv = FreshServer /\ Blank(seen)

\* A host that is not reached over SSH is written to and shown as it is.
PlainUnits(st) == \A i \in DOMAIN st : st[i].k = 1 /\ st[i].p.len = 1 /\ st[i].p.code = "CHANNEL_DATA"
PlainPackets(n) == \A i \in DOMAIN n : n[i].code = "RAW"
PlainServer(sv) == sv.kex = FALSE /\ sv.keys = FALSE /\ sv.held = <<>>
Base ==
  /\ kind = "ssh" => cur <= 1
  /\ kind # "ssh" => ssh = NoSession /\ PlainServer(srv) /\ PlainPackets(net) /\ PlainUnits(stream)
  /\ Unconnected => Untouched
  /\ {"shown", "mixed"} \subseteq DOMAIN seen

Good == IInv /\ Counters /\ Typed /\ Base

\* Steps that end something, or do nothing.
LEMMA BaseEnds ==
  ASSUME Good, UNCHANGED <<client, cur, srv>>, net' = net \/ net' = <<>>,
         stream' = stream \/ stream' = <<>>, conn' = conn \/ conn' = FALSE,
         socks'[1] \in {"none", "connecting"} => socks[1] \in {"none", "connecting"}
  PROVE  Base'
PROOF
  <1>1. Unconnected' => Unconnected
    BY DEF Unconnected
  <1>2. Unconnected' => Untouched'
    BY <1>1 DEF Good, Base, Untouched, client
  <1>3. kind' # "ssh" => PlainPackets(net') /\ PlainUnits(stream')
    BY DEF Good, Base, client, PlainPackets, PlainUnits
  <1> QED
    BY <1>2, <1>3 DEF Good, Base, client

\* Steps once the connection has been made.
LEMMA BaseGoesOn ==
  ASSUME Good, ~Unconnected, UNCHANGED <<kind, cur, socks>>,
         kind # "ssh" => ssh' = ssh /\ PlainServer(srv') /\ PlainPackets(net') /\ PlainUnits(stream'),
         {"shown", "mixed"} \subseteq DOMAIN seen'
  PROVE  Base'
  BY DEF Good, Base, Unconnected

LEMMA PlainAdd ==
  ASSUME NEW st \in Seq(HostUnits), PlainUnits(st), NEW p \in HostPackets,
         p.len = 1, p.code = "CHANNEL_DATA"
  PROVE  PlainUnits(st \o Units(p))
PROOF
  <1> DEFINE w == Units(p)
             v == st \o w
  <1>1. w \in Seq(HostUnits) /\ Len(w) = 1 /\ w[1] = [p |-> p, k |-> 1]
    <2>1. w \in Seq(HostUnits) /\ Len(w) = p.len /\ \A k \in 1 .. p.len : w[k] = [p |-> p, k |-> k]
      BY UnitsFacts
    <2> HIDE DEF w
    <2> QED
      BY <2>1
  <1> HIDE DEF w
  <1>2. DOMAIN v = 1 .. Len(st) + 1 /\ DOMAIN st = 1 .. Len(st) /\ Len(st) \in Nat
        /\ (\A i \in 1 .. Len(st) : v[i] = st[i]) /\ v[Len(st) + 1] = w[1]
    <2>1. /\ Len(v) = Len(st) + Len(w) /\ Len(st) \in Nat
          /\ DOMAIN st = 1 .. Len(st) /\ DOMAIN v = 1 .. Len(st) + Len(w)
          /\ \A i \in 1 .. Len(st) : v[i] = st[i]
      BY <1>1, JoinFacts
    <2>2. \A i \in 1 .. Len(w) : v[Len(st) + i] = w[i]
      <3> HIDE <1>1
      <3>1. w \in Seq(HostUnits)
        BY <1>1
      <3>2. ASSUME NEW i \in 1 .. Len(w) PROVE v[Len(st) + i] = w[i]
        BY <3>1
      <3> QED
        BY <3>2
    <2>3. 1 \in 1 .. Len(w)
      BY <1>1
    <2> QED
      BY <1>1, <2>1, <2>2, <2>3
  <1> HIDE DEF v
  <1>3. ASSUME NEW i \in 1 .. Len(st) + 1
        PROVE  v[i].k = 1 /\ v[i].p.len = 1 /\ v[i].p.code = "CHANNEL_DATA"
    BY <1>1, <1>2 DEF PlainUnits
  <1>4. PlainUnits(v)
    BY <1>2, <1>3 DEF PlainUnits
  <1> QED
    BY <1>4 DEF v, w

LEMMA InitBase == Init => Base
PROOF
  <1> SUFFICES ASSUME Init PROVE Base
    OBVIOUS
  <1>1. Blank(seen) /\ {"shown", "mixed"} \subseteq DOMAIN seen
    BY DEF Init, Blank
  <1>2. srv = FreshServer
    BY DEF Init, FreshServer
  <1>3. Untouched
    BY <1>1, <1>2 DEF Init, Untouched
  <1>4. PlainServer(srv) /\ PlainPackets(net) /\ PlainUnits(stream)
    BY DEF Init, PlainServer, PlainPackets, PlainUnits
  <1> QED
    BY <1>1, <1>3, <1>4 DEF Init, Base

LEMMA NextBase == Good /\ [Next]_vars => Base'
PROOF
  <1> SUFFICES ASSUME Good, [Next]_vars PROVE Base'
    OBVIOUS
  <1>0. /\ Ranges /\ Typed /\ Base /\ 1 \in Sockets /\ {"shown", "mixed"} \subseteq DOMAIN seen
        /\ \A k \in Sockets : k > cur => socks[k] = "none"
    BY TerminalAssumption DEF Good, IInv, Base, Counters, Sockets
  <1>d. \A k : Destroyed(k)[1] \in {"none", "connecting"} => socks[1] \in {"none", "connecting"}
    BY <1>0, DestroyedFacts
  <1>e. \A k, j : [Destroyed(k) EXCEPT ![j] = "closing"][1] \in {"none", "connecting"} =>
                    socks[1] \in {"none", "connecting"}
    BY <1>0, <1>d, DestroyedFacts
  <1>f. \A k, j : [Destroyed(k) EXCEPT ![j] = "closed"][1] \in {"none", "connecting"} =>
                    socks[1] \in {"none", "connecting"}
    BY <1>0, <1>d, DestroyedFacts
  <1>t. Takes => ~Unconnected
    BY <1>0 DEF Takes, Base, Untouched
  <1>u. cur # 0 /\ socks[cur] = "up" => ~Unconnected
    BY <1>0 DEF Unconnected, Ranges
  <1>1. CASE wsError \/ NotJson
    <2>1. closeConnection /\ UNCHANGED <<client, cur, srv>>
      BY <1>1 DEF wsError, NotJson
    <2>2. socks' = socks \/ socks' = Destroyed(cur)
      BY <2>1 DEF closeConnection
    <2>3. socks'[1] \in {"none", "connecting"} => socks[1] \in {"none", "connecting"}
      BY <1>d, <2>2
    <2> QED
      BY <2>1, <2>3, BaseEnds DEF closeConnection
  <1>2. CASE handleWebsocketClosed
    <2>1. socks' = socks \/ socks' = Destroyed(cur)
      BY <1>2 DEF handleWebsocketClosed
    <2>2. socks'[1] \in {"none", "connecting"} => socks[1] \in {"none", "connecting"}
      BY <1>d, <2>1
    <2> QED
      BY <1>2, <2>2, BaseEnds DEF handleWebsocketClosed
  <1>3. ASSUME NEW kd \in Kinds, connect(kd) PROVE Base'
    <2>1. /\ kind \in {"none", kd} /\ kind' = kd /\ cur' = cur + 1 /\ cur < IF kd = "ssh" THEN 1 ELSE MaxConnects
          /\ UNCHANGED <<conn, awaiting, buffered, ssh, asked, net, stream, srv>>
          /\ cur \in Nat
      BY <1>0, <1>3 DEF connect, Ranges
    <2>2. Blank(seen) => Blank(seen')
      BY <1>0, <1>3 DEF connect, Blank, Typed, IsHistory, SeenFields
    <2>3. {"shown", "mixed"} \subseteq DOMAIN seen'
      BY <1>0, <1>3 DEF connect
    <2>4. Unconnected' => Unconnected
      BY <1>0, <2>1 DEF Unconnected
    <2>5. Unconnected' => Untouched'
      BY <1>0, <2>1, <2>2, <2>4 DEF Base, Untouched
    <2> QED
      BY <1>0, <2>1, <2>3, <2>5 DEF Base
  <1>4. ASSUME NEW k \in Sockets, connectHandler(k) PROVE Base'
    <2>1. /\ socks[k] = "connecting" /\ socks' = [socks EXCEPT ![k] = "up"]
          /\ UNCHANGED <<ws, kind, cur, buffered, ssh, asked, net, seen>>
          /\ kind # "ssh" => UNCHANGED <<stream, srv>>
      BY <1>4 DEF connectHandler
    <2>2. ~Unconnected'
      BY <1>0, <2>1 DEF Unconnected, Ranges, Sockets
    <2> QED
      BY <1>0, <2>1, <2>2 DEF Base
  <1>5. ASSUME NEW k \in Sockets, hostError(k) \/ hostCloses(k) \/ hostSocketClosed(k)
        PROVE  Base'
    <2>1. CASE hostError(k)
      <3>1. socks' = [Destroyed(cur) EXCEPT ![k] = "closing"]
        BY <2>1 DEF hostError
      <3>2. socks'[1] \in {"none", "connecting"} => socks[1] \in {"none", "connecting"}
        BY <1>e, <3>1
      <3> QED
        BY <2>1, <3>2, BaseEnds DEF hostError
    <2>2. CASE hostCloses(k)
      <3>1. socks'[1] \in {"none", "connecting"} => socks[1] \in {"none", "connecting"}
        BY <1>0, <2>2 DEF hostCloses, Ranges
      <3> QED
        BY <2>2, <3>1, BaseEnds DEF hostCloses
    <2>3. CASE hostSocketClosed(k)
      <3>1. socks'[1] \in {"none", "connecting"} => socks[1] \in {"none", "connecting"}
        <4>1. \/ socks' = [socks EXCEPT ![k] = "closed"]
              \/ socks' = [Destroyed(cur) EXCEPT ![k] = "closed"]
          BY <2>3 DEF hostSocketClosed
        <4>2. [socks EXCEPT ![k] = "closed"][1] \in {"none", "connecting"} => socks[1] \in {"none", "connecting"}
          BY <1>0 DEF Ranges
        <4>3. [Destroyed(cur) EXCEPT ![k] = "closed"][1] \in {"none", "connecting"} =>
                socks[1] \in {"none", "connecting"}
          BY <1>f
        <4> DEFINE s == [socks EXCEPT ![k] = "closed"]
                   t == [Destroyed(cur) EXCEPT ![k] = "closed"]
        <4> HIDE DEF s, t
        <4>4. socks' = s \/ socks' = t
          BY <4>1 DEF s, t
        <4> QED
          BY <4>2, <4>3, <4>4 DEF s, t
      <3> QED
        BY <2>3, <3>1, BaseEnds DEF hostSocketClosed
    <2> QED
      BY <1>5, <2>1, <2>2, <2>3
  <1>6. ASSUME NEW n \in 1 .. Len(stream), handleData(n) PROVE Base'
    <2>0. ~Unconnected
      BY <1>6, <1>u DEF handleData
    <2>1. CASE kind = "ssh"
      <3>1. sshData(SubSeq(stream, 1, n))
        BY <1>6, <2>1 DEF handleData
      <3>2. UNCHANGED <<kind, cur>> /\ (UNCHANGED socks \/ socks' = Destroyed(cur) \/ closeConnection)
        BY <1>0, <3>1 DEF sshData
      <3>3. {"shown", "mixed"} \subseteq DOMAIN seen'
        BY <1>0, <3>1 DEF sshData
      <3>4. ~Unconnected'
        BY <1>d, <2>0, <3>2 DEF Unconnected, closeConnection
      <3> QED
        BY <1>0, <2>1, <3>2, <3>3, <3>4 DEF Base
    <2>2. CASE kind # "ssh"
      <3>1. /\ stream' = SubSeq(stream, n + 1, Len(stream)) /\ stream \in Seq(HostUnits)
            /\ UNCHANGED <<kind, cur, socks, ssh, net, srv>>
        BY <1>0, <1>6, <2>2 DEF handleData, Typed
      <3>2. {"shown", "mixed"} \subseteq DOMAIN seen'
        BY <1>0, <1>6, <2>2 DEF handleData
      <3>3. PlainUnits(stream')
        BY <1>0, <2>2, <3>1 DEF Base, PlainUnits
      <3> QED
        BY <1>0, <2>0, <2>2, <3>1, <3>2, <3>3, BaseGoesOn DEF Base
    <2> QED
      BY <2>1, <2>2
  <1>7. ASSUME NEW fingerprint \in BOOLEAN, NEW accept \in BOOLEAN,
               certificateAnswer(fingerprint, accept)
        PROVE  Base'
    <2>1. {"shown", "mixed"} \subseteq DOMAIN seen'
      BY <1>0, <1>7 DEF certificateAnswer
    <2>2. ~Unconnected /\ UNCHANGED <<kind, cur, socks, ssh, net, srv, stream>>
      BY <1>7, <1>t DEF certificateAnswer, Idle
    <2> QED
      BY <1>0, <2>1, <2>2, BaseGoesOn DEF Base
  <1>8. CASE clientData
    <2>1. {"shown", "mixed"} \subseteq DOMAIN seen'
      BY <1>0, <1>8 DEF clientData
    <2>2. ~Unconnected /\ UNCHANGED <<kind, cur, socks, srv, stream>>
      BY <1>8, <1>t DEF clientData, Idle
    <2>3. kind # "ssh" => ssh' = ssh /\ \E x : net' = Append(net, Packet("RAW", 0, x))
      BY <1>8 DEF clientData, SshReady
    <2>4. kind # "ssh" => PlainPackets(net')
      <3> SUFFICES ASSUME kind # "ssh" PROVE PlainPackets(net')
        OBVIOUS
      <3>1. PICK x : net' = Append(net, Packet("RAW", 0, x))
        BY <2>3
      <3>2. PlainPackets(net) /\ net \in Seq(ClientPackets) /\ Packet("RAW", 0, x).code = "RAW"
        BY <1>0 DEF Base, Typed, Packet
      <3> QED
        BY <3>1, <3>2 DEF PlainPackets
    <2> QED
      BY <1>0, <2>1, <2>2, <2>3, <2>4, BaseGoesOn DEF Base
  <1>9. CASE authenticationAnswer
    BY <1>0, <1>9, <1>t, BaseGoesOn DEF authenticationAnswer, Idle, SshReady
  <1>10. ASSUME NEW x \in {0, 1}, channelRequest(x) PROVE Base'
    <2>1. {"shown", "mixed"} \subseteq DOMAIN seen'
      BY <1>0, <1>10 DEF channelRequest
    <2> QED
      BY <2>1, <1>10, <1>t, BaseGoesOn DEF channelRequest, Idle, SshReady
  <1>11. CASE serverReads
    BY <1>0, <1>11, <1>u, BaseGoesOn DEF serverReads, client
  <1>12. CASE hostReads
    <2>1. /\ kind # "ssh" /\ net # <<>> /\ net' = Tail(net) /\ net \in Seq(ClientPackets)
          /\ srv' = [srv EXCEPT !.got = Append(@, Head(net).x)] /\ cur # 0 /\ socks[cur] = "up"
          /\ UNCHANGED <<client, cur, socks, stream>>
      BY <1>0, <1>12 DEF hostReads, Typed
    <2>2. PlainPackets(net')
      BY <1>0, <2>1 DEF Base, PlainPackets
    <2>3. PlainServer(srv')
      BY <1>0, <2>1 DEF Base, PlainServer, Typed, Servers
    <2> QED
      BY <1>0, <1>u, <2>1, <2>2, <2>3, BaseGoesOn DEF Base, client
  <1>13. CASE hostSends
    <2>0. ServerSpeaks(srv, "CHANNEL_DATA", seen.data + 1) /\ srv \in Servers
          /\ "CHANNEL_DATA" \in HostCodes /\ seen.data + 1 \in Values
      BY <1>0, <1>13 DEF hostSends, HostCodes, Values, Typed, IsHistory
    <2> DEFINE c == [code |-> "CHANNEL_DATA", x |-> seen.data + 1]
               e == Emitted(Outcome(srv, stream), c)
    <2>1. /\ c \in Commands /\ srv' = e.srv /\ stream' = e.stream /\ cur # 0 /\ socks[cur] = "up"
          /\ UNCHANGED <<kind, cur, socks, ssh, net>>
      BY <1>0, <2>0, SpeaksOutcome
    <2>2. {"shown", "mixed"} \subseteq DOMAIN seen'
      BY <1>0, <1>13 DEF hostSends
    <2>3. ASSUME kind # "ssh" PROVE PlainServer(srv') /\ PlainUnits(stream')
      <3>0. PlainServer(srv) /\ PlainUnits(stream) /\ stream \in Seq(HostUnits)
        BY <1>0, <2>3 DEF Base, Typed
      <3> DEFINE p == ServerPacket(srv, "CHANNEL_DATA", seen.data + 1)
      <3>1. e = Sent(Outcome(srv, stream), c)
        BY <3>0 DEF Emitted, Outcome, PlainServer
      <3>2. stream' = stream \o Units(p)
            /\ srv' = [srv EXCEPT !.sent = @ + 1, !.kex = @ \/ c.code = "KEXINIT"]
        BY <2>1, <3>1 DEF Sent, Outcome
      <3>3. p \in HostPackets /\ p.code = "CHANNEL_DATA" /\ p.len = 1
        <4>1. p.len = 1
          BY <3>0 DEF ServerPacket, PlainServer
        <4> QED
          BY <2>0, <4>1, ServerPacketTyped
      <3> HIDE DEF p
      <3>5. PlainUnits(stream')
        BY <3>0, <3>2, <3>3, PlainAdd
      <3>6. PlainServer(srv')
        BY <2>0, <3>0, <3>2 DEF PlainServer, Servers
      <3> QED
        BY <3>5, <3>6
    <2> HIDE DEF e, c
    <2> QED
      BY <1>0, <1>u, <2>1, <2>2, <2>3, BaseGoesOn DEF Base
  <1>14. CASE serverRekeys
    BY <1>0, <1>14, <1>u, BaseGoesOn DEF serverRekeys, ServerSpeaks
  <1>15. CASE serverDisconnects
    BY <1>0, <1>15, <1>u, BaseGoesOn DEF serverDisconnects, ServerSpeaks
  <1>16. CASE UNCHANGED vars
    BY <1>16, BaseEnds DEF vars, client
  <1> QED
    BY <1>1, <1>2, <1>3, <1>4, <1>5, <1>6, <1>7, <1>8, <1>9, <1>10, <1>11, <1>12, <1>13,
       <1>14, <1>15, <1>16 DEF Next

LEMMA GoodHolds == Spec => []Good
PROOF
  <1>1. Init => Good
    BY InitIInv, InitCounters, InitTyped, InitBase DEF Good
  <1>2. Good /\ [Next]_vars => Good'
    BY NextIInv, NextCounters, NextTyped, NextBase DEF Good
  <1> QED
    BY <1>1, <1>2, PTL DEF Spec

-----------------------------------------------------------------------------
(* The steps of a connection that is up *)

\* Which actions leave the one connection up.
LEMMA UpSteps ==
  ASSUME Good, [Next]_vars, cur' = 1, socks'[1] = "up"
  PROVE  \/ connectHandler(1) /\ cur = 1 /\ socks[1] = "connecting"
         \/ /\ cur = 1 /\ socks[1] = "up" /\ kind' = kind
            /\ \/ \E n \in 1 .. Len(stream) : handleData(n) /\ ~closeConnection
               \/ \E fingerprint, accept \in BOOLEAN : certificateAnswer(fingerprint, accept)
               \/ clientData \/ authenticationAnswer \/ \E x \in {0, 1} : channelRequest(x)
               \/ serverReads \/ hostReads \/ hostSends \/ serverRekeys \/ serverDisconnects
               \/ UNCHANGED <<ssh, asked, net, stream, srv, seen, awaiting, buffered, conn, ws, listeners>>
PROOF
  <1>0. /\ 1 \in Sockets /\ \A k \in Sockets : k > cur => socks[k] = "none"
        /\ socks \in [Sockets -> {"none", "connecting", "up", "closing", "closed"}] /\ cur \in Nat
    BY TerminalAssumption DEF Good, IInv, Ranges, Counters, Sockets
  <1>c. ASSUME NEW sk, sk = Destroyed(1) \/ \E k, v : sk = [Destroyed(1) EXCEPT ![k] = v] /\ v # "up"
        PROVE  sk[1] # "up"
    <2>1. Destroyed(1)[1] # "up" /\ 1 \in DOMAIN Destroyed(1)
      BY <1>0 DEF Destroyed, Alive
    <2> QED
      BY <1>c, <2>1
  <1>d. closeConnection => cur' # cur \/ cur # 1
    BY <1>c DEF closeConnection
  <1>1. CASE wsError \/ NotJson
    BY <1>1, <1>d DEF wsError, NotJson
  <1>2. CASE handleWebsocketClosed
    BY <1>2, <1>c DEF handleWebsocketClosed
  <1>3. ASSUME NEW kd \in Kinds, connect(kd) PROVE FALSE
    <2>1. cur' = cur + 1 /\ socks' = [socks EXCEPT ![cur'] = "connecting"]
      BY <1>3 DEF connect
    <2> QED
      BY <1>0, <2>1
  <1>4. ASSUME NEW k \in Sockets, connectHandler(k)
        PROVE  connectHandler(1) /\ cur = 1 /\ socks[1] = "connecting"
    <2>1. socks[k] = "connecting" /\ cur' = cur
      BY <1>4 DEF connectHandler
    <2>2. k = 1
      BY <1>0, <2>1 DEF Sockets
    <2> QED
      BY <1>4, <2>1, <2>2
  <1>5. ASSUME NEW k \in Sockets, hostError(k) PROVE FALSE
    <2>1. socks' = [Destroyed(cur) EXCEPT ![k] = "closing"] /\ cur' = cur
      BY <1>5 DEF hostError
    <2> QED
      BY <1>c, <2>1
  <1>6. ASSUME NEW k \in Sockets, hostCloses(k) PROVE FALSE
    <2>1. socks[k] = "up" /\ socks' = [socks EXCEPT ![k] = "closing"] /\ cur' = cur
      BY <1>6 DEF hostCloses
    <2>2. k = 1
      BY <1>0, <2>1 DEF Sockets
    <2> QED
      BY <1>0, <2>1, <2>2
  <1>7. ASSUME NEW k \in Sockets, hostSocketClosed(k) PROVE FALSE
    <2>1. socks[k] = "closing" /\ cur' = cur
          /\ (socks' = [socks EXCEPT ![k] = "closed"] \/ socks' = [Destroyed(cur) EXCEPT ![k] = "closed"])
      BY <1>7 DEF hostSocketClosed
    <2>2. k = 1
      BY <1>0, <2>1 DEF Sockets
    <2>3. socks'[1] = "closed" \/ socks'[1] # "up"
      BY <1>0, <1>c, <2>1, <2>2
    <2> QED
      BY <2>3
  <1>8. ASSUME NEW n \in 1 .. Len(stream), handleData(n)
        PROVE  cur = 1 /\ socks[1] = "up" /\ kind' = kind /\ ~closeConnection
    <2>1. cur' = cur /\ kind' = kind /\ socks[cur] = "up"
      BY <1>8 DEF handleData, sshData
    <2> QED
      BY <1>d, <2>1
  <1>9. ASSUME NEW fingerprint \in BOOLEAN, NEW accept \in BOOLEAN, certificateAnswer(fingerprint, accept)
        PROVE  cur = 1 /\ socks[1] = "up" /\ kind' = kind
    BY <1>9 DEF certificateAnswer, Idle
  <1>10. ASSUME clientData \/ authenticationAnswer \/ \E x \in {0, 1} : channelRequest(x)
         PROVE  cur = 1 /\ socks[1] = "up" /\ kind' = kind
    BY <1>10 DEF clientData, authenticationAnswer, channelRequest, Idle
  <1>11. ASSUME serverReads \/ hostReads \/ hostSends \/ serverRekeys \/ serverDisconnects
         PROVE  cur = 1 /\ socks[1] = "up" /\ kind' = kind
    BY <1>11 DEF serverReads, hostReads, hostSends, serverRekeys, serverDisconnects, ServerSpeaks, client
  <1>12. CASE UNCHANGED vars
    BY <1>12 DEF vars
  <1> QED
    BY <1>1, <1>2, <1>3, <1>4, <1>5, <1>6, <1>7, <1>8, <1>9, <1>10, <1>11, <1>12 DEF Next

UserCodes == {"CHANNEL_DATA", "CHANNEL_REQUEST", "USERAUTH_REQUEST", "USERAUTH_INFO_RESPONSE"}
\* A server between two packets: only its counters of attempts differ.
AsServer(sv) ==
  /\ sv \in Servers /\ sv.sent = srv.sent /\ sv.kex = srv.kex /\ sv.quiet = srv.quiet
  /\ sv.confused = srv.confused /\ sv.keys = srv.keys /\ sv.held = srv.held /\ sv.got = srv.got
  /\ sv.authed = srv.authed /\ sv.method = srv.method

\* The same under SSH, each step by what it does to the session and to what is
\* under way.
Begins ==
  /\ kind = "ssh" /\ Untouched /\ seen' = seen /\ asked' = "none" /\ ssh' = NoSession /\ net' = <<>>
  /\ \E eager \in BOOLEAN, method \in {"gex", "old"} :
       LET first == [id |-> 0, code |-> "VERSION", x |-> method, len |-> 1]
       IN  /\ stream' = Units(first) \o
                IF eager THEN Units(ServerPacket(srv, "KEXINIT", method)) ELSE <<>>
           /\ srv' = [srv EXCEPT !.kex = eager, !.sent = IF eager THEN 1 ELSE 0, !.method = method]
Hears(n) ==
  LET r == processEncryptedData(ssh, SubSeq(stream, 1, n)) IN
  /\ r \in Results /\ ssh' = r.s /\ ~r.error /\ net' = net \o r.out
  /\ stream' = SubSeq(stream, n + 1, Len(stream)) /\ srv' = srv /\ asked' = Asks(r.msgs)
  /\ seen'.extra = seen.extra /\ seen'.raw = seen.raw
Orders(code, x) ==
  /\ ssh \in Session /\ sendToHost(code, x) /\ UNCHANGED <<stream, srv>>
  /\ seen'.raw = seen.raw /\ seen'.extra = (seen.extra \/ (code = "CHANNEL_REQUEST" /\ x = 1))
  /\ asked # "none" \/ ssh.primary # 0
  /\ asked' \in {asked, "none"}
TypesRaw(x) ==
  /\ ssh = NoSession /\ net' = Append(net, Packet("RAW", 0, x)) /\ UNCHANGED <<ssh, stream, srv, asked>>
  /\ seen'.raw = TRUE /\ seen'.extra = seen.extra
Speaks(sv, code, x) ==
  /\ AsServer(sv) /\ ServerSpeaks(sv, code, x) /\ seen'.raw = seen.raw /\ seen'.extra = seen.extra
  /\ \/ code = "CHANNEL_DATA" /\ ssh.exists /\ ssh.primary # 0
     \/ code \in {"KEXINIT", "DISCONNECT"} /\ srv.keys /\ ~srv.kex
Still == UNCHANGED <<ssh, asked, net, stream, srv>> /\ seen'.raw = seen.raw /\ seen'.extra = seen.extra

LEMMA LiveSteps ==
  ASSUME Good, [Next]_vars, Live'
  PROVE  \/ Begins
         \/ /\ Live
            /\ \/ \E n \in 1 .. Len(stream) : Hears(n)
               \/ \E code \in UserCodes, x \in Values : Orders(code, x)
               \/ \E x \in Values : TypesRaw(x)
               \/ serverReads
               \/ \E sv, code, x : code \in HostCodes /\ x \in Values /\ Speaks(sv, code, x)
               \/ Still
PROOF
  <1>0. Typed /\ Base /\ cur' = 1 /\ socks'[1] = "up" /\ kind' = "ssh" /\ IsHistory(seen) /\ IsSsh(ssh)
        /\ srv \in Servers
    BY DEF Good, Live, Typed
  <1>1. CASE connectHandler(1) /\ cur = 1 /\ socks[1] = "connecting"
    <2>1. Untouched /\ kind = "ssh"
      BY <1>0, <1>1 DEF Base, Unconnected, connectHandler
    <2> QED
      BY <1>1, <2>1 DEF Begins, connectHandler, Untouched
  <1> SUFFICES ASSUME Live,
                 \/ \E n \in 1 .. Len(stream) : handleData(n) /\ ~closeConnection
                 \/ \E fingerprint, accept \in BOOLEAN : certificateAnswer(fingerprint, accept)
                 \/ clientData \/ authenticationAnswer \/ \E x \in {0, 1} : channelRequest(x)
                 \/ serverReads \/ hostReads \/ hostSends \/ serverRekeys \/ serverDisconnects
                 \/ UNCHANGED <<ssh, asked, net, stream, srv, seen, awaiting, buffered, conn, ws, listeners>>
               PROVE  \/ \E n \in 1 .. Len(stream) : Hears(n)
                      \/ \E code \in UserCodes, x \in Values : Orders(code, x)
                      \/ \E x \in Values : TypesRaw(x)
                      \/ serverReads
                      \/ \E sv, code, x : code \in HostCodes /\ x \in Values /\ Speaks(sv, code, x)
                      \/ Still
    BY <1>0, <1>1, UpSteps DEF Live
  <1>2. kind = "ssh" /\ cur = 1 /\ socks[1] = "up"
    BY DEF Live
  <1>3. ASSUME NEW n \in 1 .. Len(stream), handleData(n), ~closeConnection PROVE Hears(n)
    <2>1. sshData(SubSeq(stream, 1, n))
      BY <1>2, <1>3 DEF handleData
    <2> QED
      BY <1>0, <1>3, <2>1, SshDataOutcome DEF Hears
  <1>4. ASSUME NEW fingerprint \in BOOLEAN, NEW accept \in BOOLEAN, certificateAnswer(fingerprint, accept)
        PROVE  Still
    BY <1>0, <1>4 DEF certificateAnswer, Idle, Still, IsHistory, SeenFields
  <1>5. CASE clientData
    <2> DEFINE x == seen.inputs + 1
               raw == seen.raw \/ (kind = "ssh" /\ ~ssh.exists)
    <2>1. x \in Values /\ raw \in BOOLEAN
      BY <1>0 DEF Values, IsHistory
    <2>2. /\ IF SshReady THEN sendToHost("CHANNEL_DATA", x)
             ELSE net' = Append(net, Packet("RAW", 0, x)) /\ UNCHANGED ssh
          /\ SshReady => ssh.primary # 0
          /\ seen' = [seen EXCEPT !.inputs = x, !.typed = Append(@, x), !.raw = raw]
          /\ UNCHANGED <<stream, srv, asked>>
      BY <1>5 DEF clientData, Idle
    <2> HIDE DEF x, raw
    <2>3. seen'.raw = raw /\ seen'.extra = seen.extra
      BY <1>0, <2>2 DEF IsHistory, SeenFields
    <2>4. CASE SshReady
      <3>1. ssh \in Session /\ ssh.exists = TRUE
        BY <1>0, <2>4, SshExists DEF SshReady
      <3>2. raw = seen.raw
        BY <1>0, <3>1 DEF raw, IsHistory
      <3>3. Orders("CHANNEL_DATA", x)
        <4>1. seen'.extra = (seen.extra \/ ("CHANNEL_DATA" = "CHANNEL_REQUEST" /\ x = 1))
          BY <1>0, <2>3 DEF IsHistory
        <4> QED
          BY <2>2, <2>3, <2>4, <3>1, <3>2, <4>1 DEF Orders
      <3> QED
        BY <2>1, <3>3 DEF UserCodes
    <2>5. CASE ~SshReady
      <3>1. ssh = NoSession /\ ssh.exists = FALSE
        BY <1>0, <1>2, <2>5, SshExists DEF SshReady
      <3>2. raw = TRUE
        BY <1>2, <3>1 DEF raw
      <3>3. TypesRaw(x)
        BY <2>2, <2>3, <2>5, <3>1, <3>2 DEF TypesRaw
      <3> QED
        BY <2>1, <3>3
    <2> QED
      BY <2>4, <2>5
  <1>6. CASE authenticationAnswer
    <2> DEFINE code == IF asked = "auth" THEN "USERAUTH_REQUEST" ELSE "USERAUTH_INFO_RESPONSE"
    <2>1. /\ SshReady /\ asked # "none" /\ sendToHost(code, 0) /\ asked' = "none"
          /\ UNCHANGED <<stream, srv, seen>>
      BY <1>6 DEF authenticationAnswer, Idle
    <2>2. ssh \in Session /\ code \in UserCodes /\ 0 \in Values /\ code # "CHANNEL_REQUEST"
      BY <1>0, <2>1, SshExists DEF SshReady, UserCodes, Values
    <2> HIDE DEF code
    <2>3. Orders(code, 0)
      BY <1>0, <2>1, <2>2 DEF Orders, IsHistory
    <2> QED
      BY <2>2, <2>3
  <1>7. ASSUME NEW x \in {0, 1}, channelRequest(x)
        PROVE  \E code \in UserCodes, y \in Values : Orders(code, y)
    <2> DEFINE extra == seen.extra \/ x = 1
    <2>1. /\ SshReady /\ sendToHost("CHANNEL_REQUEST", x) /\ ssh.primary # 0
          /\ seen' = [seen EXCEPT !.requests = @ + 1, !.extra = extra]
          /\ UNCHANGED <<stream, srv, asked>>
      BY <1>7 DEF channelRequest, Idle
    <2>2. ssh \in Session /\ "CHANNEL_REQUEST" \in UserCodes /\ x \in Values /\ extra \in BOOLEAN
      BY <1>0, <2>1, SshExists DEF SshReady, UserCodes, Values, IsHistory
    <2> HIDE DEF extra
    <2>3. seen'.extra = extra /\ seen'.raw = seen.raw
      BY <1>0, <2>1 DEF IsHistory, SeenFields
    <2>4. Orders("CHANNEL_REQUEST", x)
      BY <1>0, <2>1, <2>2, <2>3 DEF Orders, extra
    <2> QED
      BY <2>2, <2>4
  <1>8. ~hostReads
    BY <1>2 DEF hostReads
  <1>9. CASE hostSends
    <2>1. /\ ssh.exists /\ ssh.primary # 0 /\ ServerSpeaks(srv, "CHANNEL_DATA", seen.data + 1)
          /\ seen' = [seen EXCEPT !.data = @ + 1]
      BY <1>2, <1>9 DEF hostSends
    <2>2. "CHANNEL_DATA" \in HostCodes /\ seen.data + 1 \in Values /\ AsServer(srv)
      BY <1>0 DEF HostCodes, Values, IsHistory, AsServer
    <2>3. seen'.raw = seen.raw /\ seen'.extra = seen.extra
      BY <1>0, <2>1 DEF IsHistory, SeenFields
    <2>4. Speaks(srv, "CHANNEL_DATA", seen.data + 1)
      BY <2>1, <2>2, <2>3 DEF Speaks
    <2> QED
      BY <2>2, <2>4
  <1>10. CASE serverRekeys
    <2> DEFINE sv == [srv EXCEPT !.rekeys = @ + 1]
    <2>1. ServerSpeaks(sv, "KEXINIT", srv.method) /\ srv.keys /\ ~srv.kex /\ seen' = seen
      BY <1>10 DEF serverRekeys
    <2>2. AsServer(sv) /\ srv.method \in Values /\ "KEXINIT" \in HostCodes
      BY <1>0, SMTT(30) DEF AsServer, Servers, Values, HostCodes
    <2> HIDE DEF sv
    <2>3. Speaks(sv, "KEXINIT", srv.method)
      BY <2>1, <2>2 DEF Speaks
    <2> QED
      BY <2>2, <2>3
  <1>11. CASE serverDisconnects
    <2> DEFINE sv == [srv EXCEPT !.over = TRUE]
    <2>1. ServerSpeaks(sv, "DISCONNECT", 0) /\ srv.keys /\ ~srv.kex /\ seen' = seen
      BY <1>11 DEF serverDisconnects
    <2>2. AsServer(sv) /\ 0 \in Values /\ "DISCONNECT" \in HostCodes
      BY <1>0 DEF AsServer, Servers, Values, HostCodes
    <2> HIDE DEF sv
    <2>3. Speaks(sv, "DISCONNECT", 0)
      BY <2>1, <2>2 DEF Speaks
    <2> QED
      BY <2>2, <2>3
  <1>12. CASE UNCHANGED <<ssh, asked, net, stream, srv, seen, awaiting, buffered, conn, ws, listeners>>
    BY <1>12 DEF Still
  <1> QED
    BY <1>3, <1>4, <1>5, <1>6, <1>7, <1>8, <1>9, <1>10, <1>11, <1>12

-----------------------------------------------------------------------------
(* Key exchanges and the packets around them *)

HostOthers == HostCodes \ KexCodes
ClientOthers == ClientCodes \ (KexCodes \cup {"WINDOW_ADJUST"})

\* The host's side: its packets whole and in order, what waits for NEWKEYS.
HeldBack(sv) ==
  /\ \A i \in DOMAIN sv.held : sv.held[i].code \in HostOthers
  /\ ~sv.kex => sv.held = <<>>
HostSide(u, begun, sv) ==
  /\ Whole(u) /\ Ended(u) /\ Ordered(CodesIn(u), begun, sv.kex, HostOthers) /\ HeldBack(sv)

LEMMA SentFields ==
  ASSUME NEW e \in Emissions, NEW c \in Commands
  PROVE  LET p == ServerPacket(e.srv, c.code, c.x)
             f == Sent(e, c) IN
         /\ p \in HostPackets /\ p.code = c.code /\ p.x = c.x /\ p.id = e.srv.sent
         /\ f \in Emissions /\ f.stream = e.stream \o Units(p)
         /\ f.srv.kex = (e.srv.kex \/ c.code = "KEXINIT") /\ f.srv.sent = e.srv.sent + 1
         /\ f.srv.held = e.srv.held /\ f.srv.authed = e.srv.authed /\ f.srv.keys = e.srv.keys
         /\ f.srv.quiet = e.srv.quiet /\ f.srv.confused = e.srv.confused /\ f.srv.got = e.srv.got
         /\ f.srv.over = e.srv.over /\ f.srv.method = e.srv.method
PROOF
  <1>1. e.srv \in Servers /\ c.code \in HostCodes /\ c.x \in Values
    BY DEF Emissions, Servers, Commands
  <1>2. Sent(e, c).srv = [e.srv EXCEPT !.sent = @ + 1, !.kex = @ \/ c.code = "KEXINIT"]
        /\ Sent(e, c).stream = e.stream \o Units(ServerPacket(e.srv, c.code, c.x))
    BY DEF Sent
  <1>3. (e.srv.kex \/ c.code = "KEXINIT") \in BOOLEAN
    BY <1>1 DEF Servers
  <1> DEFINE kex == e.srv.kex \/ c.code = "KEXINIT"
             s == [e.srv EXCEPT !.sent = @ + 1, !.kex = kex]
  <1>4. Sent(e, c).srv = s
    BY <1>2
  <1> HIDE DEF kex
  <1>5. /\ s.kex = kex /\ s.sent = e.srv.sent + 1 /\ s.held = e.srv.held /\ s.authed = e.srv.authed
        /\ s.keys = e.srv.keys /\ s.quiet = e.srv.quiet /\ s.confused = e.srv.confused
        /\ s.got = e.srv.got /\ s.over = e.srv.over /\ s.method = e.srv.method
    BY <1>1, <1>3 DEF Servers
  <1> HIDE DEF s
  <1> QED
    BY <1>1, <1>2, <1>4, <1>5, SentTyped, ServerPacketTyped DEF kex

\* NEWKEYS ends the exchange, and what was held back follows.
Keyed0(e, c) == [Sent(e, c) EXCEPT !.srv.kex = FALSE, !.srv.keys = TRUE, !.srv.held = <<>>]
LEMMA KeyedFields ==
  ASSUME NEW e \in Emissions, NEW c \in Commands
  PROVE  LET p == ServerPacket(e.srv, c.code, c.x)
             f == Keyed0(e, c) IN
         /\ f \in Emissions /\ f.stream = e.stream \o Units(p)
         /\ f.srv.kex = FALSE /\ f.srv.held = <<>> /\ f.srv.keys = TRUE
         /\ f.srv.sent = e.srv.sent + 1 /\ f.srv.authed = e.srv.authed
         /\ f.srv.quiet = e.srv.quiet /\ f.srv.confused = e.srv.confused /\ f.srv.got = e.srv.got
         /\ f.srv.over = e.srv.over /\ f.srv.method = e.srv.method
PROOF
  <1> DEFINE g == Sent(e, c)
  <1>1. g \in Emissions /\ g.stream = e.stream \o Units(ServerPacket(e.srv, c.code, c.x))
        /\ g.srv.sent = e.srv.sent + 1 /\ g.srv.authed = e.srv.authed
        /\ g.srv.quiet = e.srv.quiet /\ g.srv.confused = e.srv.confused /\ g.srv.got = e.srv.got
        /\ g.srv.over = e.srv.over /\ g.srv.method = e.srv.method
    BY SentFields
  <1>2. Keyed0(e, c) = [g EXCEPT !.srv.kex = FALSE, !.srv.keys = TRUE, !.srv.held = <<>>]
    BY DEF Keyed0
  <1>3. <<>> \in Seq(Commands)
    OBVIOUS
  <1>0. g.srv \in Servers /\ e.srv \in Servers
    BY <1>1 DEF Emissions, Servers
  <1> HIDE DEF g
  <1> DEFINE s == [g.srv EXCEPT !.kex = FALSE, !.keys = TRUE, !.held = <<>>]
             f == [g EXCEPT !.srv = s]
  <1>4. Keyed0(e, c) = f
    BY <1>1, <1>2 DEF Emissions
  <1>5. /\ s \in Servers /\ s.kex = FALSE /\ s.held = <<>> /\ s.keys = TRUE
        /\ s.sent = g.srv.sent /\ s.authed = g.srv.authed
        /\ s.quiet = g.srv.quiet /\ s.confused = g.srv.confused /\ s.got = g.srv.got
        /\ s.over = g.srv.over /\ s.method = g.srv.method
    BY <1>0, <1>3 DEF Servers
  <1> HIDE DEF s
  <1>6. f.srv = s /\ f.stream = g.stream /\ f \in Emissions
    BY <1>1, <1>5 DEF Emissions, Servers
  <1> HIDE DEF f
  <1> QED
    BY <1>1, <1>4, <1>5, <1>6

\* The three ways of emitting a packet.
LEMMA EmittedWays ==
  ASSUME NEW e \in Emissions, NEW c \in Commands
  PROVE  LET f == Emitted(e, c)
             h == [e EXCEPT !.srv.held = Append(@, c)] IN
         /\ e.srv.held \in Seq(Commands) /\ f \in Emissions
         /\ \/ /\ e.srv.kex /\ c.code \notin KexCodes /\ f = h /\ h \in Emissions
               /\ h.stream = e.stream /\ h.srv.held = Append(e.srv.held, c) /\ h.srv.kex = e.srv.kex
               /\ h.srv.sent = e.srv.sent /\ h.srv.authed = e.srv.authed /\ h.srv.keys = e.srv.keys
               /\ h.srv.quiet = e.srv.quiet /\ h.srv.confused = e.srv.confused /\ h.srv.got = e.srv.got
               /\ h.srv.over = e.srv.over /\ h.srv.method = e.srv.method
            \/ (~e.srv.kex \/ c.code \in KexCodes) /\ c.code # "NEWKEYS" /\ f = Sent(e, c)
            \/ c.code = "NEWKEYS" /\ f = InOrder(Sent, Keyed0(e, c), e.srv.held)
PROOF
  <1>1. e.srv.held \in Seq(Commands) /\ Append(e.srv.held, c) \in Seq(Commands)
    BY DEF Emissions
  <1>2. CASE e.srv.kex /\ c.code \notin KexCodes
    <2> DEFINE held == Append(e.srv.held, c)
               h == [e EXCEPT !.srv.held = held]
    <2>1. Emitted(e, c) = h
      BY <1>2 DEF Emitted
    <2>2. held \in Seq(Commands)
      BY <1>1
    <2> HIDE DEF held
    <2>3. /\ h \in Emissions /\ h.stream = e.stream /\ h.srv.held = held /\ h.srv.kex = e.srv.kex
          /\ h.srv.sent = e.srv.sent /\ h.srv.authed = e.srv.authed /\ h.srv.keys = e.srv.keys
          /\ h.srv.quiet = e.srv.quiet /\ h.srv.confused = e.srv.confused /\ h.srv.got = e.srv.got
          /\ h.srv.over = e.srv.over /\ h.srv.method = e.srv.method
      BY <2>2 DEF Emissions
    <2> QED
      BY <1>1, <1>2, <2>1, <2>3 DEF held
  <1>3. CASE ~(e.srv.kex /\ c.code \notin KexCodes) /\ c.code # "NEWKEYS"
    BY <1>1, <1>3, EmittedTyped DEF Emitted
  <1>4. CASE c.code = "NEWKEYS"
    BY <1>1, <1>4, EmittedTyped DEF Emitted, KexCodes, Keyed0
  <1> QED
    BY <1>2, <1>3, <1>4

\* Whatever the host emits, its side stays in order.
LEMMA HostSends1 ==
  ASSUME NEW inc \in Seq(HostUnits), NEW st \in Seq(HostUnits), NEW p \in HostPackets,
         NEW begun \in BOOLEAN, NEW kex \in BOOLEAN, Whole(inc \o st), Ended(inc \o st),
         Ordered(CodesIn(inc \o st), begun, kex, HostOthers), p.code \in HostOthers => ~kex
  PROVE  LET v == inc \o (st \o Units(p)) IN
         /\ Whole(v) /\ Ended(v)
         /\ Ordered(CodesIn(v), begun, p.code = "KEXINIT" \/ (p.code # "NEWKEYS" /\ kex), HostOthers)
PROOF
  <1> DEFINE u == inc \o st
             c == CodesIn(u)
             after == p.code = "KEXINIT" \/ (p.code # "NEWKEYS" /\ kex)
  <1>1. u \in Seq(HostUnits) /\ Units(p) \in Seq(HostUnits) /\ inc \o (st \o Units(p)) = u \o Units(p)
    BY UnitsFacts, ConcatAssociative
  <1>2. p.code \in AllCodes /\ "rest" \in AllCodes /\ p.code # "rest"
        /\ "KEXINIT" \notin HostOthers /\ "rest" \notin HostOthers
    BY DEF HostPackets, HostCodes, AllCodes, HostOthers, KexCodes
  <1> HIDE DEF u
  <1>3. c \in Seq(AllCodes)
    BY <1>1, CodesInFacts
  <1>4. after \in BOOLEAN
    OBVIOUS
  <1>5. Append(c, p.code) \in Seq(AllCodes) /\ Ordered(Append(c, p.code), begun, after, HostOthers)
    BY <1>2, <1>3, OrderedAppend DEF u
  <1>6. Ordered(Append(Append(c, p.code), "rest"), begun, "rest" = "KEXINIT" \/ ("rest" # "NEWKEYS" /\ after), HostOthers)
    <2> HIDE DEF after
    <2> QED
      BY <1>2, <1>4, <1>5, OrderedAppend
  <1>7. ("rest" = "KEXINIT" \/ ("rest" # "NEWKEYS" /\ after)) = after
    BY <1>4
  <1>8. CodesIn(u \o Units(p)) = IF p.len = 1 THEN Append(c, p.code) ELSE Append(Append(c, p.code), "rest")
    BY <1>1, CodesInAdd
  <1>9. Whole(u \o Units(p)) /\ Ended(u \o Units(p))
    BY <1>1, WholeAdd DEF u
  <1>10. Ordered(CodesIn(u \o Units(p)), begun, after, HostOthers)
    <2> HIDE DEF after
    <2> QED
      BY <1>5, <1>6, <1>7, <1>8
  <1> QED
    BY <1>1, <1>9, <1>10

LEMMA HostEmitted ==
  ASSUME NEW e \in Emissions, NEW c \in Commands, NEW inc \in Seq(HostUnits), NEW begun \in BOOLEAN,
         HostSide(inc \o e.stream, begun, e.srv)
  PROVE  HostSide(inc \o Emitted(e, c).stream, begun, Emitted(e, c).srv)
PROOF
  <1> DEFINE f == Emitted(e, c)
             Side(d) == HostSide(inc \o d.stream, begun, d.srv)
  <1>0. e.srv \in Servers /\ e.stream \in Seq(HostUnits) /\ e.srv.kex \in BOOLEAN /\ c.code \in HostCodes
    BY DEF Emissions, Servers, Commands
  <1>1. ASSUME NEW d \in Emissions, NEW a \in Commands, Side(d), a.code \in HostOthers => ~d.srv.kex
        PROVE  LET g == Sent(d, a)
                   v == inc \o g.stream IN
               /\ Whole(v) /\ Ended(v) /\ g.srv.held = d.srv.held
               /\ Ordered(CodesIn(v), begun, a.code = "KEXINIT" \/ (a.code # "NEWKEYS" /\ d.srv.kex), HostOthers)
    <2>1. d.stream \in Seq(HostUnits) /\ d.srv.kex \in BOOLEAN
      BY DEF Emissions
    <2> DEFINE p == ServerPacket(d.srv, a.code, a.x)
    <2>2. p \in HostPackets /\ p.code = a.code /\ Sent(d, a).stream = d.stream \o Units(p)
          /\ Sent(d, a).srv.held = d.srv.held
      BY SentFields
    <2> HIDE DEF p
    <2> QED
      BY <1>1, <2>1, <2>2, HostSends1 DEF HostSide
  <1>2. CASE /\ e.srv.kex /\ c.code \notin KexCodes
             /\ f.stream = e.stream /\ f.srv.held = Append(e.srv.held, c) /\ f.srv.kex = e.srv.kex
             /\ e.srv.held \in Seq(Commands)
    <2>1. c.code \in HostOthers
      BY <1>0, <1>2 DEF HostOthers
    <2> HIDE DEF f
    <2>2. HeldBack(f.srv)
      <3>1. /\ DOMAIN f.srv.held = 1 .. Len(e.srv.held) + 1 /\ DOMAIN e.srv.held = 1 .. Len(e.srv.held)
            /\ Len(e.srv.held) \in Nat /\ f.srv.held[Len(e.srv.held) + 1] = c
            /\ \A i \in 1 .. Len(e.srv.held) : f.srv.held[i] = e.srv.held[i]
        BY <1>2
      <3>2. \A i \in DOMAIN e.srv.held : e.srv.held[i].code \in HostOthers
        BY DEF HostSide, HeldBack
      <3>3. ASSUME NEW i \in DOMAIN f.srv.held PROVE f.srv.held[i].code \in HostOthers
        <4>1. CASE i \in 1 .. Len(e.srv.held)
          BY <3>1, <3>2, <4>1
        <4>2. CASE i = Len(e.srv.held) + 1
          BY <2>1, <3>1, <4>2
        <4> QED
          BY <3>1, <3>3, <4>1, <4>2
      <3> QED
        BY <1>2, <3>3 DEF HeldBack
    <2> QED
      BY <1>2, <2>2 DEF HostSide, f
  <1>3. CASE (~e.srv.kex \/ c.code \in KexCodes) /\ c.code # "NEWKEYS" /\ f = Sent(e, c)
    <2>1. c.code \in HostOthers => ~e.srv.kex
      BY <1>3 DEF HostOthers
    <2>2. /\ Whole(inc \o f.stream) /\ Ended(inc \o f.stream) /\ f.srv.held = e.srv.held
          /\ Ordered(CodesIn(inc \o f.stream), begun, c.code = "KEXINIT" \/ (c.code # "NEWKEYS" /\ e.srv.kex), HostOthers)
      BY <1>1, <1>3, <2>1
    <2>3. f.srv.kex = (c.code = "KEXINIT" \/ (c.code # "NEWKEYS" /\ e.srv.kex))
      <3>0. PICK g \in Emissions : g = Sent(e, c) /\ g.srv.kex = (e.srv.kex \/ c.code = "KEXINIT")
        BY SentFields
      <3>1. f = g
        BY <1>3, <3>0
      <3> HIDE DEF f
      <3>2. f.srv.kex = (e.srv.kex \/ c.code = "KEXINIT")
        BY <3>0, <3>1
      <3> QED
        BY <1>0, <1>3, <3>2
    <2> HIDE DEF f
    <2>4. HeldBack(f.srv)
      BY <1>0, <1>3, <2>2, <2>3 DEF HostSide, HeldBack
    <2> QED
      BY <2>2, <2>3, <2>4 DEF HostSide, f
  <1>4. CASE c.code = "NEWKEYS" /\ f = InOrder(Sent, Keyed0(e, c), e.srv.held)
    <2> DEFINE k == Keyed0(e, c)
               held == e.srv.held
               In(d) == Side(d) /\ d.srv.kex = FALSE /\ d.srv.held = <<>>
               S == [i \in 0 .. Len(held) |-> {d \in Emissions : In(d)}]
    <2>1. held \in Seq(Commands) /\ Len(held) \in Nat /\ \A i \in DOMAIN held : held[i].code \in HostOthers
      <3>1. e.srv.held \in Seq(Commands)
        BY DEF Emissions
      <3>2. \A i \in DOMAIN e.srv.held : e.srv.held[i].code \in HostOthers
        BY DEF HostSide, HeldBack
      <3> QED
        BY <3>1, <3>2
    <2>2. k \in Emissions /\ In(k)
      <3>1. c.code \notin HostOthers /\ ~("NEWKEYS" = "KEXINIT") /\ ~(c.code # "NEWKEYS" /\ e.srv.kex)
        BY <1>4 DEF HostOthers, KexCodes
      <3>2. /\ Whole(inc \o Sent(e, c).stream) /\ Ended(inc \o Sent(e, c).stream)
            /\ Ordered(CodesIn(inc \o Sent(e, c).stream), begun, c.code = "KEXINIT" \/ (c.code # "NEWKEYS" /\ e.srv.kex), HostOthers)
        BY <1>1, <3>1
      <3>3. (c.code = "KEXINIT" \/ (c.code # "NEWKEYS" /\ e.srv.kex)) = FALSE
        BY <1>4
      <3>4. Ordered(CodesIn(inc \o Sent(e, c).stream), begun, FALSE, HostOthers)
        BY <3>2, <3>3
      <3>5. k \in Emissions /\ k.stream = Sent(e, c).stream /\ k.srv.kex = FALSE /\ k.srv.held = <<>>
        <4>1. Sent(e, c).stream = e.stream \o Units(ServerPacket(e.srv, c.code, c.x))
          BY SentFields
        <4>2. /\ Keyed0(e, c) \in Emissions /\ Keyed0(e, c).srv.kex = FALSE /\ Keyed0(e, c).srv.held = <<>>
              /\ Keyed0(e, c).stream = e.stream \o Units(ServerPacket(e.srv, c.code, c.x))
          BY KeyedFields
        <4> QED
          BY <4>1, <4>2
      <3> HIDE DEF k
      <3>6. HeldBack(k.srv)
        BY <3>5 DEF HeldBack
      <3> QED
        BY <3>2, <3>4, <3>5, <3>6 DEF HostSide
    <2>3. ASSUME NEW d \in Emissions, In(d), NEW i \in 1 .. Len(held)
          PROVE  Sent(d, held[i]) \in Emissions /\ In(Sent(d, held[i]))
      <3> DEFINE a == held[i]
                 g == Sent(d, a)
      <3>1. a \in Commands /\ a.code \in HostOthers
        BY <2>1
      <3> HIDE DEF a, k, f
      <3>2. a.code # "KEXINIT"
        BY <3>1 DEF HostOthers, KexCodes
      <3>3. /\ Whole(inc \o g.stream) /\ Ended(inc \o g.stream) /\ g.srv.held = d.srv.held
            /\ Ordered(CodesIn(inc \o g.stream), begun, a.code = "KEXINIT" \/ (a.code # "NEWKEYS" /\ d.srv.kex), HostOthers)
        BY <1>1, <2>3, <3>1
      <3>4. (a.code = "KEXINIT" \/ (a.code # "NEWKEYS" /\ d.srv.kex)) = FALSE
        BY <2>3, <3>2
      <3>5. g \in Emissions /\ g.srv.kex = FALSE
        BY <2>3, <3>1, <3>2, SentFields
      <3> HIDE DEF g
      <3>6. Ordered(CodesIn(inc \o g.stream), begun, g.srv.kex, HostOthers)
        BY <3>3, <3>4, <3>5
      <3>7. HeldBack(g.srv)
        BY <2>3, <3>3, <3>5 DEF HeldBack
      <3> QED
        BY <2>3, <3>3, <3>5, <3>6, <3>7 DEF HostSide, g, a
    <2>4. f \in {d \in Emissions : In(d)}
      <3> HIDE DEF k, In, f
      <3>1. \A i \in 0 .. Len(held) : S[i] = {d \in Emissions : In(d)}
        OBVIOUS
      <3> HIDE DEF S
      <3>2. k \in S[0]
        BY <2>1, <2>2, <3>1
      <3>3. ASSUME NEW i \in 1 .. Len(held), NEW d \in S[i - 1] PROVE Sent(d, held[i]) \in S[i]
        <4>1. i - 1 \in 0 .. Len(held) /\ i \in 0 .. Len(held)
          BY <2>1
        <4>2. d \in Emissions /\ In(d)
          BY <3>1, <4>1
        <4> QED
          BY <2>3, <3>1, <4>1, <4>2
      <3>4. InOrder(Sent, k, held) \in S[Len(held)]
        BY <2>1, <3>2, <3>3, SendsRule
      <3> QED
        BY <1>4, <2>1, <3>1, <3>4 DEF k
    <2> HIDE DEF f
    <2> QED
      BY <2>4 DEF f
  <1> QED
    BY <1>2, <1>3, <1>4, EmittedWays

LEMMA HostEmits ==
  ASSUME NEW sv \in Servers, NEW st \in Seq(HostUnits), NEW codes,
         \/ codes = <<>>
         \/ \E a \in Commands : codes = <<a>>
         \/ \E a, b \in Commands : codes = <<a, b>>,
         NEW inc \in Seq(HostUnits), NEW begun \in BOOLEAN, HostSide(inc \o st, begun, sv)
  PROVE  LET e == Emit(sv, st, codes) IN HostSide(inc \o e.stream, begun, e.srv)
PROOF
  <1> DEFINE o == Outcome(sv, st)
  <1>1. o \in Emissions /\ o.srv = sv /\ o.stream = st
    BY EmissionsAre DEF Outcome
  <1> HIDE DEF o
  <1>2. CASE codes = <<>>
    <2>1. Emit(sv, st, codes) = o
      BY <1>2, EmitNone DEF o
    <2> QED
      BY <1>1, <2>1
  <1>3. ASSUME NEW a \in Commands, codes = <<a>>
        PROVE  LET e == Emit(sv, st, codes) IN HostSide(inc \o e.stream, begun, e.srv)
    <2>1. Emit(sv, st, codes) = Emitted(o, a)
      BY <1>3, EmitOne DEF o
    <2> QED
      BY <1>1, <2>1, HostEmitted
  <1>4. ASSUME NEW a \in Commands, NEW b \in Commands, codes = <<a, b>>
        PROVE  LET e == Emit(sv, st, codes) IN HostSide(inc \o e.stream, begun, e.srv)
    <2>1. Emit(sv, st, codes) = Emitted(Emitted(o, a), b)
      BY <1>4, EmitTwo DEF o
    <2>2. Emitted(o, a) \in Emissions
      BY <1>1, EmittedTyped
    <2>3. HostSide(inc \o Emitted(o, a).stream, begun, Emitted(o, a).srv)
      BY <1>1, HostEmitted
    <2> QED
      BY <2>1, <2>2, <2>3, HostEmitted
  <1> QED
    BY <1>2, <1>3, <1>4

\* What the client has written, with what the handling of a chunk adds to it.
NoRaw(n) == \A i \in DOMAIN n : n[i].code # "RAW"
Waiting(queue) == \A i \in DOMAIN queue : queue[i].code \in UserCodes
Out(n, o, quiet, kex) ==
  Ordered(CodesOut(n \o o), quiet, kex, ClientOthers) /\ (NoRaw(n) => NoRaw(n \o o))

LEMMA NoRawAdd ==
  ASSUME NEW n \in Seq(ClientPackets), NEW m \in Seq(ClientPackets), NoRaw(n), NoRaw(m)
  PROVE  NoRaw(n \o m)
PROOF
  <1> DEFINE v == n \o m
  <1>1. /\ DOMAIN v = 1 .. Len(n) + Len(m) /\ Len(n) \in Nat /\ Len(m) \in Nat
        /\ DOMAIN n = 1 .. Len(n) /\ DOMAIN m = 1 .. Len(m)
        /\ \A i \in 1 .. Len(n) : v[i] = n[i]
        /\ \A i \in 1 .. Len(m) : v[Len(n) + i] = m[i]
    BY JoinFacts
  <1> HIDE DEF v
  <1>2. ASSUME NEW i \in DOMAIN v PROVE v[i].code # "RAW"
    <2>1. CASE i \in 1 .. Len(n)
      BY <1>1, <2>1 DEF NoRaw
    <2>2. CASE i \notin 1 .. Len(n)
      <3> DEFINE j == i - Len(n)
      <3>1. j \in 1 .. Len(m) /\ i = Len(n) + j
        BY <1>1, <1>2, <2>2
      <3> HIDE DEF j
      <3>2. v[i] = m[j]
        BY <1>1, <3>1
      <3> QED
        BY <1>1, <3>1, <3>2 DEF NoRaw
    <2> QED
      BY <2>1, <2>2
  <1> QED
    BY <1>2 DEF NoRaw, v

LEMMA OutNone ==
  ASSUME NEW n \in Seq(ClientPackets), NEW quiet \in BOOLEAN, NEW kex \in BOOLEAN
  PROVE  Out(n, <<>>, quiet, kex) <=> Ordered(CodesOut(n), quiet, kex, ClientOthers)
PROOF
  <1>1. n \o <<>> = n
    OBVIOUS
  <1> QED
    BY <1>1 DEF Out

LEMMA OutAppends ==
  ASSUME NEW n \in Seq(ClientPackets), NEW o \in Seq(ClientPackets), NEW p \in ClientPackets,
         NEW quiet \in BOOLEAN, NEW kex \in BOOLEAN, Out(n, o, quiet, kex),
         p.code # "RAW", p.code \in ClientOthers => ~kex
  PROVE  Out(n, Append(o, p), quiet, p.code = "KEXINIT" \/ (p.code # "NEWKEYS" /\ kex))
PROOF
  <1> DEFINE v == n \o o
             c == CodesOut(v)
  <1>1. v \in Seq(ClientPackets) /\ n \o Append(o, p) = Append(v, p) /\ Append(v, p) = v \o <<p>>
        /\ <<p>> \in Seq(ClientPackets) /\ Append(o, p) \in Seq(ClientPackets)
    BY SMTT(30)
  <1> HIDE DEF v
  <1>2. c \in Seq(AllCodes) /\ CodesOut(Append(v, p)) = Append(c, p.code)
    BY <1>1, CodesOutFacts
  <1>3. p.code \in AllCodes /\ "KEXINIT" \notin ClientOthers
    BY DEF ClientPackets, AllCodes, ClientOthers, KexCodes
  <1>4. Ordered(c, quiet, kex, ClientOthers)
    BY DEF Out, v
  <1> HIDE DEF c
  <1>5. Ordered(Append(c, p.code), quiet, p.code = "KEXINIT" \/ (p.code # "NEWKEYS" /\ kex), ClientOthers)
    BY <1>2, <1>3, <1>4, OrderedAppend
  <1>6. NoRaw(<<p>>)
    BY DEF NoRaw
  <1>7. NoRaw(n) => NoRaw(Append(v, p))
    BY <1>1, <1>6, NoRawAdd DEF Out, v
  <1> QED
    BY <1>1, <1>2, <1>5, <1>7 DEF Out

LEMMA OutJoins ==
  ASSUME NEW n \in Seq(ClientPackets), NEW o \in Seq(ClientPackets), NEW q \in Seq(ClientPackets),
         NEW quiet \in BOOLEAN, Out(n, o, quiet, FALSE), Waiting(q)
  PROVE  Out(n, o \o q, quiet, FALSE)
PROOF
  <1> DEFINE v == n \o o
             c == CodesOut(v)
             d == CodesOut(q)
  <1>1. v \in Seq(ClientPackets) /\ n \o (o \o q) = v \o q
    <2>1. v \in Seq(ClientPackets)
      OBVIOUS
    <2>2. n \o (o \o q) = v \o q
      BY ConcatAssociative, SMTT(30)
    <2> QED
      BY <2>1, <2>2
  <1> HIDE DEF v
  <1>2. c \in Seq(AllCodes) /\ d \in Seq(AllCodes) /\ CodesOut(v \o q) = c \o d
    BY <1>1, CodesOutFacts
  <1>3. "KEXINIT" \notin ClientOthers /\ \A i \in DOMAIN d : d[i] \in ClientOthers
    BY DEF Waiting, CodesOut, UserCodes, ClientOthers, ClientCodes, KexCodes
  <1>4. Ordered(c, quiet, FALSE, ClientOthers)
    BY DEF Out, v
  <1> HIDE DEF c, d
  <1>5. Ordered(c \o d, quiet, FALSE, ClientOthers)
    BY <1>2, <1>3, <1>4, OrderedConcat
  <1>6. NoRaw(q)
    BY DEF NoRaw, Waiting, UserCodes
  <1>7. NoRaw(n) => NoRaw(v \o q)
    BY <1>1, <1>6, NoRawAdd DEF Out, v
  <1> QED
    BY <1>1, <1>2, <1>5, <1>7 DEF Out

\* A result in the middle of a chunk, u being what is still under way.
Orderly(q, u, n, ends, quiet) ==
  /\ Ordered(CodesIn(u), q.s.kex, ends, HostOthers)
  /\ Out(n, q.out, quiet, q.s.kex)
  /\ q.s.kex = q.s.initSent /\ Waiting(q.s.queue)

LEMMA HandleOrders ==
  ASSUME NEW q \in Results, NEW u \in Seq(HostUnits), NEW d \in {1, 2}, d <= Len(u),
         NEW p \in HostPackets, u[1].p = p, u[1].k = 1, d = 2 => u[2].k = 2, NEW channel \in Nat,
         NEW n \in Seq(ClientPackets), NEW ends \in BOOLEAN, NEW quiet \in BOOLEAN,
         Orderly(q, u, n, ends, quiet), ~Handle(q, p, channel).error
  PROVE  Orderly(Handle(q, p, channel), SubSeq(u, d + 1, Len(u)), n, ends, quiet)
PROOF
  <1> DEFINE h == Handle(q, p, channel)
             c == CodesIn(u)
             kex == q.s.kex
             v == SubSeq(u, d + 1, Len(u))
             begun == p.code = "KEXINIT" \/ (p.code # "NEWKEYS" /\ kex)
  <1>1. h \in Results /\ Outcomes(h, q, p, channel)
    BY HandleOutcome
  <1>2. /\ kex \in BOOLEAN /\ q.out \in Seq(ClientPackets) /\ q.s.queue \in Seq(ClientPackets)
        /\ p.code \in HostCodes /\ p.x \in Values /\ channel \in Values /\ 0 \in Values
    BY DEF Results, Session, HostPackets, Values
  <1>3. /\ c \in Seq(AllCodes) /\ Len(c) = Len(u) /\ c[1] = p.code /\ (d = 2 => c[2] = "rest")
        /\ CodesIn(v) = SubSeq(c, d + 1, Len(c))
    <2>1. 1 \in 1 .. Len(u) /\ d + 1 \in 1 .. Len(u) + 1 /\ (d = 2 => 2 \in 1 .. Len(u))
      OBVIOUS
    <2>2. c[1] = (IF u[1].k = 1 THEN u[1].p.code ELSE "rest")
          /\ (d = 2 => c[2] = IF u[2].k = 1 THEN u[2].p.code ELSE "rest")
      BY <2>1, CodesInFacts
    <2>3. c \in Seq(AllCodes) /\ Len(c) = Len(u) /\ CodesIn(v) = SubSeq(c, d + 1, Len(u))
      BY <2>1, CodesInFacts
    <2> QED
      BY <2>2, <2>3
  <1> HIDE DEF c, v, h
  <1>4. Ordered(c, kex, ends, HostOthers) /\ "NEWKEYS" \notin HostOthers
    BY DEF Orderly, c, HostOthers, KexCodes
  <1>5. Ordered(CodesIn(v), begun, ends, HostOthers) /\ (kex => p.code \notin HostOthers)
    BY <1>2, <1>3, <1>4, OrderedDrop
  <1>6. Out(n, q.out, quiet, kex) /\ kex = q.s.initSent /\ Waiting(q.s.queue)
    BY DEF Orderly
  <1>7. h.error = FALSE
    BY <1>1 DEF h, Results
  <1> HIDE DEF kex
  \* It is enough that the session agrees with what came, and the answer with it.
  <1> SUFFICES h.s.kex = begun /\ h.s.kex = h.s.initSent /\ Waiting(h.s.queue) /\ Out(n, h.out, quiet, begun)
    BY <1>5 DEF Orderly, h, v
  <1>8. ASSUME p.code # "KEXINIT", p.code # "NEWKEYS", SameKeys(h.s, q.s), h.s.queue = q.s.queue,
               Out(n, h.out, quiet, kex)
        PROVE  h.s.kex = begun /\ h.s.kex = h.s.initSent /\ Waiting(h.s.queue) /\ Out(n, h.out, quiet, begun)
    <2>1. begun = kex
      BY <1>2, <1>8
    <2> HIDE DEF begun
    <2> QED
      BY <1>6, <1>8, <2>1 DEF SameKeys, kex
  <1>9. ASSUME NEW o \in Seq(ClientPackets), NEW x \in ClientPackets, Out(n, o, quiet, kex),
               x.code \in {"CHANNEL_OPEN", "pty-req", "shell", "GEX_INIT"},
               x.code # "GEX_INIT" => p.code \in HostOthers
        PROVE  Out(n, Append(o, x), quiet, kex)
    <2>1. x.code # "RAW" /\ (x.code \in ClientOthers => ~kex)
      BY <1>5, <1>9 DEF ClientOthers, KexCodes
    <2>2. (x.code = "KEXINIT" \/ (x.code # "NEWKEYS" /\ kex)) = kex
      BY <1>2, <1>9
    <2>3. Out(n, Append(o, x), quiet, x.code = "KEXINIT" \/ (x.code # "NEWKEYS" /\ kex))
      BY <1>2, <1>9, <2>1, OutAppends
    <2> QED
      BY <2>2, <2>3
  <1>10. CASE p.code \in ToProxy \cup {"VERSION"} /\ Passes(h, q, p)
    BY <1>6, <1>8, <1>10 DEF Passes, SameMain, ToProxy
  <1>11. CASE p.code = "USERAUTH_SUCCESS" /\ LogsIn(h, q, channel)
    <2> DEFINE x == Packet("CHANNEL_OPEN", 0, channel)
    <2>1. x \in ClientPackets /\ x.code = "CHANNEL_OPEN"
      BY <1>2, PacketsTyped DEF ClientCodes, Packet
    <2>2. p.code \in HostOthers /\ h.out = Append(q.out, x)
      BY <1>2, <1>11 DEF HostOthers, KexCodes, LogsIn
    <2> HIDE DEF x
    <2>3. Out(n, h.out, quiet, kex)
      BY <1>2, <1>6, <1>9, <2>1, <2>2
    <2> QED
      BY <1>8, <1>11, <2>3 DEF LogsIn
  <1>12. CASE p.code = "OPEN_CONFIRMATION" /\ OpensChannel(h, q, p, channel)
    <2> DEFINE x == Packet("pty-req", p.x, 0)
    <2>1. x \in ClientPackets /\ x.code = "pty-req"
      BY <1>2, PacketsTyped DEF ClientCodes, Packet
    <2>2. p.code \in HostOthers /\ h.out = Append(q.out, x)
      BY <1>2, <1>12 DEF HostOthers, KexCodes, OpensChannel
    <2> HIDE DEF x
    <2>3. Out(n, h.out, quiet, kex)
      BY <1>2, <1>6, <1>9, <2>1, <2>2
    <2> QED
      BY <1>8, <1>12, <2>3 DEF OpensChannel
  <1>13. CASE p.code = "CHANNEL_SUCCESS" /\ Succeeds(h, q, channel)
    <2> DEFINE x == Packet("shell", 0, 0)
    <2>1. x \in ClientPackets /\ x.code = "shell"
      BY <1>2, PacketsTyped DEF ClientCodes, Packet
    <2>2. p.code \in HostOthers /\ (h.out = q.out \/ h.out = Append(q.out, x))
      BY <1>2, <1>13 DEF HostOthers, KexCodes, Succeeds
    <2> HIDE DEF x
    <2>3. Out(n, h.out, quiet, kex)
      BY <1>2, <1>6, <1>9, <2>1, <2>2
    <2> QED
      BY <1>8, <1>13, <2>3 DEF Succeeds
  <1>14. CASE p.code = "GEX_GROUP" /\ TakesGroup(h, q)
    <2> DEFINE x == Plain("GEX_INIT")
    <2>1. x \in ClientPackets /\ x.code = "GEX_INIT"
      BY <1>2, PacketsTyped DEF ClientCodes, Packet, Plain
    <2>2. h.out = q.out \/ h.out = Append(q.out, x)
      BY <1>14 DEF TakesGroup
    <2> HIDE DEF x
    <2>3. Out(n, h.out, quiet, kex)
      BY <1>2, <1>6, <1>9, <2>1, <2>2
    <2> QED
      BY <1>8, <1>14, <2>3 DEF TakesGroup
  <1>15. CASE p.code = "GEX_REPLY" /\ TakesReply(h, q)
    BY <1>6, <1>8, <1>15 DEF TakesReply
  <1>16. CASE p.code = "KEXINIT" /\ Rekeys(h, q, p)
    <2> DEFINE x == Plain("KEXINIT")
               y == Plain(h.s.sent)
               o == IF q.s.initSent THEN q.out ELSE Append(q.out, x)
    <2>1. h.s.sent \in {"GEX_REQUEST", "GEX_REQUEST_OLD"} /\ h.s.kex = TRUE /\ h.s.initSent = TRUE
          /\ h.s.queue = q.s.queue /\ h.out = Append(o, y)
      BY <1>16 DEF Rekeys
    <2>2. x \in ClientPackets /\ x.code = "KEXINIT" /\ y \in ClientPackets
          /\ y.code \in {"GEX_REQUEST", "GEX_REQUEST_OLD"}
      BY <1>2, <2>1, PacketsTyped DEF ClientCodes, Packet, Plain
    <2> HIDE DEF x, y
    <2>3. o \in Seq(ClientPackets) /\ Out(n, o, quiet, TRUE)
      <3>1. CASE q.s.initSent
        <4>1. kex = TRUE /\ o = q.out
          BY <1>2, <1>6, <3>1
        <4> QED
          BY <1>2, <1>6, <4>1
      <3>2. CASE ~q.s.initSent
        <4>1. o = Append(q.out, x) /\ x.code # "RAW" /\ x.code \notin ClientOthers
          BY <2>2, <3>2 DEF ClientOthers, KexCodes
        <4>2. (x.code = "KEXINIT" \/ (x.code # "NEWKEYS" /\ kex)) = TRUE
          BY <2>2
        <4>3. Out(n, Append(q.out, x), quiet, x.code = "KEXINIT" \/ (x.code # "NEWKEYS" /\ kex))
          BY <1>2, <1>6, <2>2, <4>1, OutAppends
        <4>4. Append(q.out, x) \in Seq(ClientPackets)
          BY <1>2, <2>2
        <4> QED
          BY <4>1, <4>2, <4>3, <4>4
      <3> QED
        BY <3>1, <3>2
    <2> HIDE DEF o
    <2>4. Out(n, Append(o, y), quiet, TRUE)
      <3>1. y.code # "RAW" /\ y.code \notin ClientOthers
        BY <2>2 DEF ClientOthers, KexCodes
      <3>2. (y.code = "KEXINIT" \/ (y.code # "NEWKEYS" /\ TRUE)) = TRUE
        BY <2>2
      <3>3. Out(n, Append(o, y), quiet, y.code = "KEXINIT" \/ (y.code # "NEWKEYS" /\ TRUE))
        BY <2>2, <2>3, <3>1, OutAppends
      <3> QED
        BY <3>2, <3>3
    <2>5. begun = TRUE
      BY <1>16
    <2> HIDE DEF begun
    <2> QED
      BY <1>6, <2>1, <2>4, <2>5
  <1>17. CASE p.code = "NEWKEYS" /\ TakesKeys(h, q)
    <2> DEFINE x == Plain("NEWKEYS")
               y == Plain("SERVICE_REQUEST")
               o == Append(q.out, x)
               w == IF q.s.kex THEN o \o q.s.queue ELSE o
    <2>1. /\ h.s.kex = FALSE /\ h.s.initSent = (IF q.s.kex THEN FALSE ELSE q.s.initSent)
          /\ h.s.queue = (IF q.s.kex THEN <<>> ELSE q.s.queue)
          /\ h.out = w \/ h.out = Append(w, y)
      BY <1>17 DEF TakesKeys, Keyed
    <2>2. x \in ClientPackets /\ x.code = "NEWKEYS" /\ y \in ClientPackets /\ y.code = "SERVICE_REQUEST"
      BY <1>2, PacketsTyped DEF ClientCodes, Packet, Plain
    <2> HIDE DEF x, y
    <2>3. o \in Seq(ClientPackets) /\ Out(n, o, quiet, FALSE)
      <3>1. x.code # "RAW" /\ x.code \notin ClientOthers
        BY <2>2 DEF ClientOthers, KexCodes
      <3>2. (x.code = "KEXINIT" \/ (x.code # "NEWKEYS" /\ kex)) = FALSE
        BY <2>2
      <3>3. Out(n, Append(q.out, x), quiet, x.code = "KEXINIT" \/ (x.code # "NEWKEYS" /\ kex))
        BY <1>2, <1>6, <2>2, <3>1, OutAppends
      <3>4. o \in Seq(ClientPackets)
        BY <1>2, <2>2
      <3> QED
        BY <3>2, <3>3, <3>4
    <2> HIDE DEF o
    <2>4. w \in Seq(ClientPackets) /\ Out(n, w, quiet, FALSE)
      <3>1. o \o q.s.queue \in Seq(ClientPackets)
        BY <1>2, <2>3
      <3>2. Out(n, o \o q.s.queue, quiet, FALSE)
        BY <1>2, <1>6, <2>3, OutJoins
      <3> QED
        BY <2>3, <3>1, <3>2
    <2> HIDE DEF w
    <2>5. Out(n, Append(w, y), quiet, FALSE)
      <3>1. y.code # "RAW" /\ ~FALSE
        BY <2>2
      <3>2. (y.code = "KEXINIT" \/ (y.code # "NEWKEYS" /\ FALSE)) = FALSE
        BY <2>2
      <3>3. Out(n, Append(w, y), quiet, y.code = "KEXINIT" \/ (y.code # "NEWKEYS" /\ FALSE))
        BY <2>2, <2>4, <3>1, OutAppends
      <3> QED
        BY <3>2, <3>3
    <2>6. Out(n, h.out, quiet, FALSE)
      BY <2>1, <2>4, <2>5
    <2>7. begun = FALSE
      BY <1>17
    <2>8. h.s.initSent = FALSE /\ Waiting(h.s.queue)
      BY <1>2, <1>6, <2>1 DEF kex, Waiting
    <2> HIDE DEF begun
    <2> QED
      BY <2>1, <2>6, <2>7, <2>8
  <1> QED
    BY <1>1, <1>7, <1>10, <1>11, <1>12, <1>13, <1>14, <1>15, <1>16, <1>17 DEF Outcomes, Fails

\* A chunk is the front of what is under way.
LEMMA ChunkIsFront ==
  ASSUME NEW inc \in Seq(HostUnits), NEW st \in Seq(HostUnits), NEW n \in 1 .. Len(st)
  PROVE  LET raw == inc \o SubSeq(st, 1, n)
             full == inc \o st
             m == Len(raw) IN
         /\ raw \in Seq(HostUnits) /\ full \in Seq(HostUnits) /\ m \in 0 .. Len(full)
         /\ raw = SubSeq(full, 1, m)
         /\ Whole(full) => Whole(raw)
         /\ \A a \in 1 .. m + 1 : SubSeq(raw, a, m) \o SubSeq(st, n + 1, Len(st)) = Rest(full, a)
PROOF
  <1> DEFINE chunk == SubSeq(st, 1, n)
             tl == SubSeq(st, n + 1, Len(st))
             raw == inc \o chunk
             full == inc \o st
             m == Len(raw)
             l == Len(inc)
             k == Len(st)
  <1>1. /\ chunk \in Seq(HostUnits) /\ Len(chunk) = n /\ \A i \in 1 .. n : chunk[i] = st[i]
        /\ tl \in Seq(HostUnits) /\ Len(tl) = k - n /\ \A i \in 1 .. k - n : tl[i] = st[n + i]
        /\ l \in Nat /\ k \in Nat /\ n \in Nat /\ n <= k /\ 1 <= n
    <2>1. l \in Nat /\ k \in Nat /\ n \in Nat /\ n <= k /\ 1 <= n
      OBVIOUS
    <2>2. chunk \in Seq(HostUnits) /\ Len(chunk) = n /\ \A i \in 1 .. n : chunk[i] = st[i]
      BY <2>1
    <2>3. tl = Rest(st, n + 1) /\ n + 1 \in 1 .. Len(st) + 1 /\ Len(st) + 1 - (n + 1) = k - n
      BY <2>1 DEF Rest
    <2>4. tl \in Seq(HostUnits) /\ Len(tl) = k - n /\ \A i \in 1 .. k - n : tl[i] = st[n + 1 + i - 1]
      <3> HIDE DEF tl
      <3> QED
        BY <2>3, RestFacts
    <2>5. ASSUME NEW i \in 1 .. k - n PROVE tl[i] = st[n + i]
      <3>1. n + 1 + i - 1 = n + i
        BY <2>1
      <3> HIDE DEF tl
      <3> QED
        BY <2>4, <3>1
    <2> QED
      BY <2>1, <2>2, <2>4, <2>5
  <1> HIDE DEF chunk, tl
  <1>2. /\ full \in Seq(HostUnits) /\ Len(full) = l + k
        /\ \A i \in 1 .. l : full[i] = inc[i]
        /\ \A i \in 1 .. k : full[l + i] = st[i]
    BY JoinFacts
  <1>3. /\ raw \in Seq(HostUnits) /\ m = l + n
        /\ \A i \in 1 .. l : raw[i] = inc[i]
        /\ \A i \in 1 .. n : raw[l + i] = chunk[i]
    <2>1. /\ raw \in Seq(HostUnits) /\ Len(raw) = Len(inc) + Len(chunk)
          /\ \A i \in 1 .. Len(inc) : raw[i] = inc[i]
          /\ \A i \in 1 .. Len(chunk) : raw[Len(inc) + i] = chunk[i]
      <3>1. chunk \in Seq(HostUnits)
        BY <1>1
      <3> QED
        BY <3>1, JoinFacts
    <2> QED
      BY <1>1, <2>1
  <1> HIDE DEF raw, full, m, l, k
  <1>4. ASSUME NEW i \in 1 .. m PROVE raw[i] = full[i]
    <2>1. CASE i \in 1 .. l
      BY <1>2, <1>3, <2>1
    <2>2. CASE i \notin 1 .. l
      <3> DEFINE j == i - l
      <3>1. j \in 1 .. n /\ j \in 1 .. k /\ i = l + j
        BY <1>1, <1>3, <2>2
      <3> HIDE DEF j
      <3> QED
        BY <1>1, <1>2, <1>3, <3>1
    <2> QED
      BY <2>1, <2>2
  <1>5. m \in 0 .. Len(full) /\ m \in Nat /\ Len(full) \in Nat
    BY <1>1, <1>2, <1>3
  <1>6. raw = SubSeq(full, 1, m)
    <2> DEFINE f == SubSeq(full, 1, m)
    <2>1. f \in Seq(HostUnits) /\ Len(f) = m /\ \A i \in 1 .. m : f[i] = full[i]
      BY <1>2, <1>5
    <2> HIDE DEF f
    <2>2. Len(raw) = m
      BY DEF m
    <2>3. raw = f
      BY <1>3, <1>4, <2>1, <2>2, SameSequence
    <2> QED
      BY <2>3 DEF f
  <1>7. Whole(full) => Whole(raw)
    <2> SUFFICES ASSUME Whole(full) PROVE Whole(raw)
      OBVIOUS
    <2>1. DOMAIN raw = 1 .. m /\ Len(raw) = m /\ DOMAIN full = 1 .. Len(full)
      BY <1>2, <1>3 DEF m
    <2>2. ASSUME NEW i \in 1 .. m PROVE raw[i].k <= raw[i].p.len
      <3>1. raw[i] = full[i] /\ i \in DOMAIN full
        BY <1>4, <1>5, <2>1
      <3> QED
        BY <3>1 DEF Whole
    <2>3. ASSUME NEW i \in 1 .. m - 1 PROVE Follows(raw[i], raw[i + 1])
      <3>1. i \in 1 .. m /\ i + 1 \in 1 .. m /\ i \in 1 .. Len(full) - 1
        BY <1>5
      <3>2. raw[i] = full[i] /\ raw[i + 1] = full[i + 1]
        BY <1>4, <3>1
      <3> QED
        BY <3>1, <3>2 DEF Whole
    <2> QED
      BY <2>1, <2>2, <2>3 DEF Whole
  <1>8. ASSUME NEW a \in 1 .. m + 1 PROVE SubSeq(raw, a, m) \o tl = Rest(full, a)
    <2> DEFINE f == SubSeq(raw, a, m)
               g == f \o tl
               r == Rest(full, a)
    <2>0. a \in Nat /\ m + 1 - a \in Nat /\ Len(raw) = m /\ a \in 1 .. Len(full) + 1
      BY <1>5 DEF m
    <2>1. f \in Seq(HostUnits) /\ Len(f) = m + 1 - a /\ \A i \in 1 .. m + 1 - a : f[i] = raw[a + i - 1]
      BY <1>3, <1>5, <2>0
    <2> HIDE DEF f
    <2>2. /\ g \in Seq(HostUnits) /\ Len(g) = (m + 1 - a) + (k - n)
          /\ \A i \in 1 .. m + 1 - a : g[i] = f[i]
          /\ \A i \in 1 .. k - n : g[(m + 1 - a) + i] = tl[i]
      <3>1. /\ g \in Seq(HostUnits) /\ Len(g) = Len(f) + Len(tl)
            /\ \A i \in 1 .. Len(f) : g[i] = f[i]
            /\ \A i \in 1 .. Len(tl) : g[Len(f) + i] = tl[i]
        <4>1. f \in Seq(HostUnits) /\ tl \in Seq(HostUnits)
          BY <1>1, <2>1
        <4> QED
          BY <4>1, JoinFacts
      <3> HIDE DEF g
      <3> QED
        BY <1>1, <2>1, <3>1
    <2>3. /\ r \in Seq(HostUnits) /\ Len(r) = Len(full) + 1 - a
          /\ \A i \in 1 .. Len(full) + 1 - a : r[i] = full[a + i - 1]
      BY <1>2, <2>0, RestFacts
    <2> HIDE DEF g, r
    <2>4. Len(g) = Len(r) /\ Len(g) = Len(full) + 1 - a
      BY <1>1, <1>2, <1>3, <2>0, <2>2, <2>3
    <2>5. ASSUME NEW i \in 1 .. Len(g) PROVE g[i] = r[i]
      <3>1. i \in 1 .. Len(full) + 1 - a /\ r[i] = full[a + i - 1]
        BY <2>3, <2>4
      <3>2. CASE i \in 1 .. m + 1 - a
        <4>1. a + i - 1 \in 1 .. m
          BY <1>5, <2>0, <3>2
        <4> QED
          BY <1>4, <2>1, <2>2, <3>1, <3>2, <4>1
      <3>3. CASE i \notin 1 .. m + 1 - a
        <4> DEFINE j == i - (m + 1 - a)
        <4>1. j \in 1 .. k - n /\ i = (m + 1 - a) + j /\ a + i - 1 = l + (n + j) /\ n + j \in 1 .. k
          BY <1>1, <1>2, <1>3, <2>0, <3>1, <3>3
        <4> HIDE DEF j
        <4>2. g[i] = tl[j] /\ tl[j] = st[n + j] /\ full[l + (n + j)] = st[n + j]
          BY <1>1, <1>2, <2>2, <4>1
        <4> QED
          BY <3>1, <4>1, <4>2
      <3> QED
        BY <3>2, <3>3
    <2>6. g = r
      BY <2>2, <2>3, <2>4, <2>5, SameSequence
    <2> QED
      BY <2>6 DEF g, f, r
  <1> QED
    BY <1>2, <1>3, <1>5, <1>6, <1>7, <1>8 DEF raw, full, m, tl, chunk

\* P holds of a result and of what is still under way.  It holds after a chunk
\* if it does before, and reading and handling the next packet keep it; d is
\* what the packet takes from what is under way.
Packets(P, channel) ==
  /\ P \subseteq Results \X Seq(HostUnits)
  /\ \A q \in Results, u \in Seq(HostUnits), t \in Session :
       <<q, u>> \in P /\ ~q.error =>
         /\ Kept(t, q.s) => <<[q EXCEPT !.s = t], u>> \in P
         /\ Kept(t, q.s) /\ q.s.encrypted /\ u # <<>> /\ u[1].k # 1 => <<Fail([q EXCEPT !.s = t]), u>> \in P
         /\ \A d \in {1, 2} :
              /\ d <= Len(u) /\ u[1].k = 1 /\ Counts(t, q.s, u[1].p) /\ Whole(u) /\ Ended(u)
              /\ d = 2 => u[2] = [p |-> u[1].p, k |-> 2]
              /\ q.s.encrypted => d = u[1].p.len
              => <<Handle([q EXCEPT !.s = t], u[1].p, channel), SubSeq(u, d + 1, Len(u))>> \in P

LEMMA PacketRule ==
  ASSUME NEW s \in Session, NEW st \in Seq(HostUnits), NEW n \in 1 .. Len(st),
         Whole(s.incomplete \o st), Ended(s.incomplete \o st),
         NEW P, Packets(P, CurrentChannel(s)),
         <<Joined(s, SubSeq(st, 1, n)), s.incomplete \o st>> \in P
  PROVE  LET f == processEncryptedData(s, SubSeq(st, 1, n)) IN
         \E u \in Seq(HostUnits) :
           /\ <<f, u>> \in P /\ Whole(u) /\ Ended(u)
           /\ ~f.error => f.s.incomplete \o SubSeq(st, n + 1, Len(st)) = u
PROOF
  <1> DEFINE data == SubSeq(st, 1, n)
             raw == s.incomplete \o data
             full == s.incomplete \o st
             m == Len(raw)
             j == Joined(s, data)
             channel == CurrentChannel(s)
             G == {g \in Results \X (1 .. m + 1) : <<g[1], Rest(full, g[2])>> \in P}
             f == processEncryptedData(s, data)
  <1>1. s.incomplete \in Seq(HostUnits) /\ data \in Seq(HostUnits) /\ channel \in Nat
    <2>1. CurrentChannel(s) \in Nat
      BY ResultTyped
    <2>2. s.incomplete \in Seq(HostUnits)
      BY DEF Session
    <2>3. SubSeq(st, 1, n) \in Seq(HostUnits)
      OBVIOUS
    <2> QED
      BY <2>1, <2>2, <2>3
  <1>2. /\ raw \in Seq(HostUnits) /\ full \in Seq(HostUnits) /\ m \in 0 .. Len(full)
        /\ raw = SubSeq(full, 1, m) /\ Whole(raw)
        /\ \A a \in 1 .. m + 1 : SubSeq(raw, a, m) \o SubSeq(st, n + 1, Len(st)) = Rest(full, a)
    BY <1>1, ChunkIsFront, ZenonT(60)
  <1>3. j \in Results /\ j.s.incomplete = <<>> /\ j.error = FALSE
    BY <1>1, JoinedFacts
  <1>4. f = ReadLoop(j, raw, channel)
    BY <1>1, ProcessIs
  <1>5. Whole(full) /\ Ended(full) /\ <<j, full>> \in P
    OBVIOUS
  <1> HIDE DEF data, raw, full, j, channel, f
  <1>6. m \in Nat /\ Len(full) \in Nat /\ m <= Len(full) /\ Len(raw) = m
    BY <1>2
  <1>7. <<j, 1>> \in G
    <2>1. 1 \in 1 .. m + 1 /\ 1 \in 1 .. Len(full) + 1
      BY <1>6
    <2>2. Rest(full, 1) = full
      BY <1>2, <2>1, RestFacts
    <2> QED
      BY <1>3, <1>5, <2>1, <2>2
  <1> HIDE DEF m
  <1>8. \A q \in Results, a \in 1 .. m + 1 : <<q, a>> \in G <=> <<q, Rest(full, a)>> \in P
    OBVIOUS
  <1>9. G \subseteq Results \X (1 .. m + 1)
    OBVIOUS
  <1> HIDE DEF G
  <1>10. ASSUME NEW q \in Results, NEW a \in 1 .. m + 1, NEW t \in Session, <<q, a>> \in G, ~q.error
         PROVE  /\ Kept(t, q.s) => <<[q EXCEPT !.s = t], a>> \in G
                /\ Kept(t, q.s) /\ q.s.encrypted /\ a <= m /\ raw[a].k # 1 =>
                     <<Fail([q EXCEPT !.s = t]), a>> \in G
                /\ a <= m /\ raw[a].k = 1 /\ Counts(t, q.s, raw[a].p)
                   /\ (q.s.encrypted => a + raw[a].p.len <= m + 1) =>
                     <<Handle([q EXCEPT !.s = t], raw[a].p, channel), After(raw, a)>> \in G
    <2> DEFINE qt == [q EXCEPT !.s = t]
               u == Rest(full, a)
    <2>0. qt \in Results
      BY DEF Results
    <2> HIDE DEF qt
    <2>1. qt \in Results /\ a \in 1 .. Len(full) + 1 /\ a \in Nat
      BY <1>6, <2>0
    <2>2. u \in Seq(HostUnits) /\ <<q, u>> \in P /\ Len(u) = Len(full) + 1 - a
          /\ Whole(u) /\ Ended(u) /\ \A i \in 1 .. Len(full) + 1 - a : u[i] = full[a + i - 1]
      BY <1>2, <1>5, <1>8, <1>10, <2>1, RestFacts
    <2> HIDE DEF u, qt
    <2>3. /\ Kept(t, q.s) => <<qt, u>> \in P
          /\ Kept(t, q.s) /\ q.s.encrypted /\ u # <<>> /\ u[1].k # 1 => <<Fail(qt), u>> \in P
          /\ \A d \in {1, 2} :
              /\ d <= Len(u) /\ u[1].k = 1 /\ Counts(t, q.s, u[1].p) /\ Whole(u) /\ Ended(u)
              /\ d = 2 => u[2] = [p |-> u[1].p, k |-> 2]
              /\ q.s.encrypted => d = u[1].p.len
              => <<Handle(qt, u[1].p, channel), SubSeq(u, d + 1, Len(u))>> \in P
      BY <1>10, <2>2 DEF Packets, channel, qt
    <2>4. ASSUME a <= m PROVE u # <<>> /\ u[1] = raw[a]
      <3>1. 1 \in 1 .. Len(full) + 1 - a /\ a \in 1 .. m
        BY <1>6, <2>1, <2>4
      <3>2. u[1] = full[a] /\ raw[a] = full[a]
        <4>1. u[1] = full[a + 1 - 1]
          BY <2>2, <3>1
        <4>2. a + 1 - 1 = a
          BY <2>1
        <4>3. SubSeq(full, 1, m)[a] = full[a]
          BY <1>2, <1>6, <3>1
        <4> QED
          BY <1>2, <4>1, <4>2, <4>3
      <3> QED
        BY <2>2, <3>1, <3>2
    <2>5. Kept(t, q.s) => <<qt, a>> \in G
      BY <1>8, <2>1, <2>3 DEF u
    <2>6. Kept(t, q.s) /\ q.s.encrypted /\ a <= m /\ raw[a].k # 1 => <<Fail(qt), a>> \in G
      <3>1. Fail(qt) \in Results
        BY <2>1, PartsTyped
      <3> QED
        BY <1>8, <2>3, <2>4, <3>1 DEF u
    <2>7. ASSUME a <= m, raw[a].k = 1, Counts(t, q.s, raw[a].p),
                 q.s.encrypted => a + raw[a].p.len <= m + 1
          PROVE  <<Handle(qt, raw[a].p, channel), After(raw, a)>> \in G
      <3> DEFINE b == After(raw, a)
                 d == b - a
      <3>1. a \in 1 .. m
        BY <2>1, <2>7
      <3>2. /\ b \in 1 .. m + 1 /\ d \in {1, 2} /\ d <= Len(u) /\ u[1] = raw[a]
            /\ (d = 2 => u[2] = [p |-> raw[a].p, k |-> 2])
            /\ Rest(full, b) = SubSeq(u, d + 1, Len(u))
            /\ (a + raw[a].p.len <= m + 1 => d = raw[a].p.len) /\ raw[a].p \in HostPackets
        <4>1. full \in Seq(HostUnits) /\ Whole(full) /\ Ended(full) /\ m \in 0 .. Len(full)
              /\ raw = SubSeq(full, 1, m) /\ a \in 1 .. m /\ raw[a].k = 1
          BY <1>2, <1>5, <2>7, <3>1
        <4> DEFINE v == Rest(full, a)
        <4> HIDE DEF d
        <4>2. /\ b \in 1 .. m + 1 /\ b - a \in {1, 2} /\ b - a <= Len(v) /\ v[1] = raw[a] /\ v \in Seq(HostUnits)
              /\ b - a = 2 => v[2] = [p |-> raw[a].p, k |-> 2]
              /\ Rest(full, b) = SubSeq(v, b - a + 1, Len(v))
              /\ a + raw[a].p.len <= m + 1 => b - a = raw[a].p.len
              /\ raw[a] \in HostUnits /\ raw[a].p \in HostPackets
              /\ Whole(v) /\ Ended(v)
          <5>1. Taken(full, m, raw, a)
            BY <4>1, TakesPacket
          <5> QED
            BY <5>1 DEF Taken
        <4> QED
          BY <4>2 DEF u, d
      <3> HIDE DEF b
      <3>3. <<Handle(qt, u[1].p, channel), SubSeq(u, d + 1, Len(u))>> \in P
        <4> HIDE DEF d
        <4> QED
          BY <2>2, <2>3, <2>7, <3>2
      <3>4. Handle(qt, raw[a].p, channel) \in Results
        BY <1>1, <2>1, <3>2, HandleTyped DEF channel
      <3>5. <<Handle(qt, raw[a].p, channel), Rest(full, b)>> \in P
        BY <3>2, <3>3
      <3>6. <<Handle(qt, raw[a].p, channel), b>> \in G
        BY <1>8, <3>2, <3>4, <3>5
      <3> QED
        BY <3>6 DEF b
    <2> QED
      BY <2>5, <2>6, <2>7 DEF qt
  <1>11. Chunks(G, raw, channel)
    BY <1>6, <1>9, <1>10, SMTT(30) DEF Chunks
  <1>12. channel \in Nat
    BY <1>1 DEF channel
  <1>13. \E a \in 1 .. m + 1 : <<f, a>> \in G /\ (~f.error => f.s.incomplete = SubSeq(raw, a, m))
    <2>1. j \in Results /\ raw \in Seq(HostUnits) /\ Whole(raw) /\ j.s.incomplete = <<>> /\ ~j.error
      BY <1>2, <1>3
    <2>2. \E a \in 1 .. Len(raw) + 1 :
            /\ <<ReadLoop(j, raw, channel), a>> \in G
            /\ ~ReadLoop(j, raw, channel).error => ReadLoop(j, raw, channel).s.incomplete = SubSeq(raw, a, Len(raw))
      BY <1>7, <1>11, <1>12, <2>1, ChunkRule
    <2> QED
      BY <1>4, <1>6, <2>2
  <1>14. PICK a \in 1 .. m + 1 : <<f, a>> \in G /\ (~f.error => f.s.incomplete = SubSeq(raw, a, m))
    BY <1>13
  <1>15. a \in 1 .. Len(full) + 1
    BY <1>6
  <1>16. f \in Results
    BY <1>9, <1>14
  <1>17. <<f, Rest(full, a)>> \in P
    BY <1>8, <1>14, <1>16
  <1>18. Rest(full, a) \in Seq(HostUnits) /\ Whole(Rest(full, a)) /\ Ended(Rest(full, a))
    BY <1>2, <1>5, <1>15, RestFacts
  <1>19. ~f.error => f.s.incomplete \o SubSeq(st, n + 1, Len(st)) = Rest(full, a)
    BY <1>2, <1>14
  <1> QED
    BY <1>17, <1>18, <1>19 DEF f, data

\* A chunk of the host leaves its side, and the client's, in order.
LEMMA KeptOrders ==
  ASSUME NEW q \in Results, NEW t \in Session, SameMain(t, q.s), NEW u, NEW n, NEW ends, NEW quiet,
         Orderly(q, u, n, ends, quiet)
  PROVE  LET r == [q EXCEPT !.s = t] IN
         r \in Results /\ r.s = t /\ r.error = q.error /\ r.out = q.out /\ r.msgs = q.msgs
         /\ Orderly(r, u, n, ends, quiet)
PROOF
  <1> DEFINE r == [q EXCEPT !.s = t]
  <1>1. r \in Results /\ r.s = t /\ r.error = q.error /\ r.out = q.out /\ r.msgs = q.msgs
    BY DEF Results
  <1> HIDE DEF r
  <1>2. t.kex = q.s.kex /\ t.initSent = q.s.initSent /\ t.queue = q.s.queue
    BY DEF SameMain, SameKeys
  <1>3. Orderly(r, u, n, ends, quiet)
    BY <1>1, <1>2 DEF Orderly
  <1> QED
    BY <1>1, <1>3 DEF r

LEMMA ChunkOrders ==
  ASSUME NEW s \in Session, NEW st \in Seq(HostUnits), NEW n \in 1 .. Len(st),
         Whole(s.incomplete \o st), Ended(s.incomplete \o st),
         NEW nt \in Seq(ClientPackets), NEW ends \in BOOLEAN, NEW quiet \in BOOLEAN,
         Ordered(CodesIn(s.incomplete \o st), s.kex, ends, HostOthers),
         Ordered(CodesOut(nt), quiet, s.kex, ClientOthers),
         s.kex = s.initSent, Waiting(s.queue)
  PROVE  LET f == processEncryptedData(s, SubSeq(st, 1, n))
             u == f.s.incomplete \o SubSeq(st, n + 1, Len(st)) IN
         ~f.error => Whole(u) /\ Ended(u) /\ Orderly(f, u, nt, ends, quiet)
PROOF
  <1> DEFINE channel == CurrentChannel(s)
             j == Joined(s, SubSeq(st, 1, n))
             full == s.incomplete \o st
             P == {g \in Results \X Seq(HostUnits) : ~g[1].error => Orderly(g[1], g[2], nt, ends, quiet)}
  <1>1. channel \in Nat /\ s.kex \in BOOLEAN /\ full \in Seq(HostUnits) /\ SubSeq(st, 1, n) \in Seq(HostUnits)
    <2>1. s.incomplete \in Seq(HostUnits) /\ s.kex \in BOOLEAN
      BY DEF Session
    <2> QED
      BY <2>1, ResultTyped
  <1>2. /\ j \in Results /\ SameMain(j.s, s) /\ j.error = FALSE
        /\ j.out \in {<<>>, <<Packet("WINDOW_ADJUST", 0, 0)>>}
    BY <1>1, JoinedFacts DEF Kept
  <1> HIDE DEF channel, j
  <1>3. <<j, full>> \in P
    <2>1. Out(nt, <<>>, quiet, s.kex)
      BY <1>1, OutNone
    <2> DEFINE w == Packet("WINDOW_ADJUST", 0, 0)
    <2>2. w \in ClientPackets /\ w.code = "WINDOW_ADJUST"
      BY PacketsTyped DEF ClientCodes, Values, Packet
    <2> HIDE DEF w
    <2>3. w.code # "RAW" /\ w.code \notin ClientOthers /\ <<>> \in Seq(ClientPackets)
      BY <2>2 DEF ClientOthers
    <2>4. Out(nt, Append(<<>>, w), quiet, w.code = "KEXINIT" \/ (w.code # "NEWKEYS" /\ s.kex))
      BY <1>1, <2>1, <2>2, <2>3, OutAppends
    <2>5. (w.code = "KEXINIT" \/ (w.code # "NEWKEYS" /\ s.kex)) = s.kex /\ Append(<<>>, w) = <<w>>
      BY <1>1, <2>2
    <2>6. Out(nt, <<w>>, quiet, s.kex)
      BY <2>4, <2>5
    <2>7. Out(nt, j.out, quiet, s.kex)
      BY <1>2, <2>1, <2>6 DEF w
    <2>8. j.s.kex = s.kex /\ j.s.initSent = s.initSent /\ j.s.queue = s.queue
      BY <1>2 DEF SameMain, SameKeys
    <2>9. Orderly(j, full, nt, ends, quiet)
      BY <2>7, <2>8 DEF Orderly
    <2> QED
      BY <1>1, <1>2, <2>9
  <1>4. \A q \in Results, u \in Seq(HostUnits) : <<q, u>> \in P <=> (~q.error => Orderly(q, u, nt, ends, quiet))
    OBVIOUS
  <1>5. P \subseteq Results \X Seq(HostUnits)
    OBVIOUS
  <1> HIDE DEF P
  <1>6. ASSUME NEW q \in Results, NEW u \in Seq(HostUnits), NEW t \in Session, <<q, u>> \in P, ~q.error
        PROVE  /\ Kept(t, q.s) => <<[q EXCEPT !.s = t], u>> \in P
               /\ Kept(t, q.s) /\ q.s.encrypted /\ u # <<>> /\ u[1].k # 1 => <<Fail([q EXCEPT !.s = t]), u>> \in P
               /\ \A d \in {1, 2} :
                    /\ d <= Len(u) /\ u[1].k = 1 /\ Counts(t, q.s, u[1].p) /\ Whole(u) /\ Ended(u)
                    /\ d = 2 => u[2] = [p |-> u[1].p, k |-> 2]
                    /\ q.s.encrypted => d = u[1].p.len
                    => <<Handle([q EXCEPT !.s = t], u[1].p, channel), SubSeq(u, d + 1, Len(u))>> \in P
    <2> DEFINE r == [q EXCEPT !.s = t]
    <2>1. Orderly(q, u, nt, ends, quiet) /\ r \in Results
      BY <1>4, <1>6 DEF Results
    <2>2. SameMain(t, q.s) => r.error = q.error /\ Orderly(r, u, nt, ends, quiet)
      BY <2>1, KeptOrders
    <2> HIDE DEF r
    <2>3. Kept(t, q.s) => <<r, u>> \in P
      BY <1>4, <1>6, <2>1, <2>2 DEF Kept
    <2>4. <<Fail(r), u>> \in P
      <3>1. Fail(r) \in Results /\ Fail(r).error = TRUE
        BY <2>1, FailIs
      <3> QED
        BY <1>4, <3>1
    <2>5. ASSUME NEW d \in {1, 2}, d <= Len(u), u[1].k = 1, Counts(t, q.s, u[1].p),
                 d = 2 => u[2] = [p |-> u[1].p, k |-> 2]
          PROVE  <<Handle(r, u[1].p, channel), SubSeq(u, d + 1, Len(u))>> \in P
      <3> DEFINE p == u[1].p
                 h == Handle(r, p, channel)
                 v == SubSeq(u, d + 1, Len(u))
      <3>1. u[1] \in HostUnits
        BY <2>5
      <3>2. p \in HostPackets /\ (d = 2 => u[2].k = 2) /\ v \in Seq(HostUnits)
        <4>1. p \in HostPackets
          BY <3>1 DEF HostUnits
        <4>2. d = 2 => u[2].k = 2
          BY <2>5
        <4>3. v \in Seq(HostUnits)
          BY <2>5
        <4> QED
          BY <4>1, <4>2, <4>3
      <3> HIDE DEF p, v
      <3>3. h \in Results
        BY <1>1, <2>1, <3>2, HandleTyped
      <3>4. Orderly(r, u, nt, ends, quiet)
        BY <2>2, <2>5 DEF Counts
      <3>5. ~h.error => Orderly(h, v, nt, ends, quiet)
        BY <1>1, <2>1, <2>5, <3>2, <3>4, HandleOrders DEF p, v
      <3> QED
        BY <1>4, <3>2, <3>3, <3>5 DEF p, v
    <2> QED
      BY <2>3, <2>4, <2>5 DEF r
  <1>7. Packets(P, channel)
    BY <1>5, <1>6, ZenonT(60) DEF Packets
  <1>8. PICK u \in Seq(HostUnits) :
          LET f == processEncryptedData(s, SubSeq(st, 1, n)) IN
           /\ <<f, u>> \in P /\ Whole(u) /\ Ended(u)
           /\ ~f.error => f.s.incomplete \o SubSeq(st, n + 1, Len(st)) = u
    BY <1>3, <1>7, PacketRule DEF channel, j
  <1>9. processEncryptedData(s, SubSeq(st, 1, n)) \in Results
    BY <1>1, ProcessIs
  <1> QED
    BY <1>4, <1>8, <1>9

\* What no emission changes of the server.
SameServer(f, e) ==
  /\ f.confused = e.confused /\ f.got = e.got /\ f.authed = e.authed /\ f.quiet = e.quiet
  /\ f.over = e.over /\ f.method = e.method

LEMMA EmittedKeeps ==
  ASSUME NEW e \in Emissions, NEW c \in Commands
  PROVE  SameServer(Emitted(e, c).srv, e.srv)
PROOF
  <1> DEFINE f == Emitted(e, c)
             In(d) == SameServer(d.srv, e.srv)
             held == e.srv.held
             S == [i \in 0 .. Len(held) |-> {d \in Emissions : In(d)}]
  <1>1. held \in Seq(Commands) /\ Len(held) \in Nat
    <2>1. e.srv.held \in Seq(Commands)
      BY DEF Emissions
    <2> QED
      BY <2>1
  <1>2. ASSUME NEW d \in Emissions, NEW a \in Commands, In(d) PROVE Sent(d, a) \in Emissions /\ In(Sent(d, a))
    <2>1. Sent(d, a) \in Emissions /\ SameServer(Sent(d, a).srv, d.srv)
      BY SentFields DEF SameServer
    <2> QED
      BY <1>2, <2>1 DEF SameServer
  <1>3. CASE f = [e EXCEPT !.srv.held = Append(@, c)] /\ e.srv.kex /\ c.code \notin KexCodes
    <2> DEFINE held1 == Append(e.srv.held, c)
               h == [e EXCEPT !.srv.held = held1]
    <2>1. held1 \in Seq(Commands) /\ f = h
      BY <1>1, <1>3
    <2> HIDE DEF held1, f
    <2>2. SameServer(h.srv, e.srv)
      BY <2>1 DEF Emissions, SameServer
    <2> QED
      BY <2>1, <2>2 DEF f
  <1>4. CASE f = Sent(e, c)
    <2>1. SameServer(Sent(e, c).srv, e.srv)
      BY SentFields DEF SameServer
    <2> QED
      BY <1>4, <2>1
  <1>5. CASE f = InOrder(Sent, Keyed0(e, c), held)
    <2> DEFINE k == Keyed0(e, c)
    <2>1. k \in Emissions /\ In(k)
      BY KeyedFields DEF SameServer
    <2> HIDE DEF k, In
    <2>2. \A i \in 0 .. Len(held) : S[i] = {d \in Emissions : In(d)}
      OBVIOUS
    <2> HIDE DEF S
    <2>3. k \in S[0]
      BY <1>1, <2>1, <2>2
    <2>4. ASSUME NEW i \in 1 .. Len(held), NEW d \in S[i - 1] PROVE Sent(d, held[i]) \in S[i]
      <3>1. i - 1 \in 0 .. Len(held) /\ i \in 0 .. Len(held)
        BY <1>1
      <3>2. d \in Emissions /\ In(d)
        BY <2>2, <3>1
      <3>3. held[i] \in Commands
        BY <1>1
      <3> QED
        BY <1>2, <2>2, <3>1, <3>2, <3>3
    <2>5. InOrder(Sent, k, held) \in S[Len(held)]
      BY <1>1, <2>3, <2>4, SendsRule
    <2>6. Len(held) \in 0 .. Len(held)
      BY <1>1
    <2> HIDE DEF f
    <2>7. In(f)
      BY <1>5, <2>2, <2>5, <2>6 DEF k
    <2> QED
      BY <2>7 DEF In, f
  <1> QED
    BY <1>3, <1>4, <1>5 DEF Emitted, Keyed0

LEMMA EmitKeeps ==
  ASSUME NEW sv \in Servers, NEW st \in Seq(HostUnits), NEW codes,
         \/ codes = <<>>
         \/ \E a \in Commands : codes = <<a>>
         \/ \E a, b \in Commands : codes = <<a, b>>
  PROVE  SameServer(Emit(sv, st, codes).srv, sv)
PROOF
  <1> DEFINE o == Outcome(sv, st)
  <1>1. o \in Emissions /\ o.srv = sv /\ o.stream = st
    BY EmissionsAre DEF Outcome
  <1> HIDE DEF o
  <1>2. CASE codes = <<>>
    <2>1. Emit(sv, st, codes) = o
      BY <1>2, EmitNone DEF o
    <2> QED
      BY <1>1, <2>1 DEF SameServer
  <1>3. ASSUME NEW a \in Commands, codes = <<a>> PROVE SameServer(Emit(sv, st, codes).srv, sv)
    <2>1. Emit(sv, st, codes) = Emitted(o, a)
      BY <1>3, EmitOne DEF o
    <2> QED
      BY <1>1, <2>1, EmittedKeeps
  <1>4. ASSUME NEW a \in Commands, NEW b \in Commands, codes = <<a, b>>
        PROVE  SameServer(Emit(sv, st, codes).srv, sv)
    <2>1. Emit(sv, st, codes) = Emitted(Emitted(o, a), b)
      BY <1>4, EmitTwo DEF o
    <2>2. Emitted(o, a) \in Emissions
      BY <1>1, EmittedTyped
    <2>3. SameServer(Emitted(o, a).srv, sv) /\ SameServer(Emitted(Emitted(o, a), b).srv, Emitted(o, a).srv)
      BY <1>1, <2>2, EmittedKeeps
    <2> QED
      BY <2>1, <2>3 DEF SameServer
  <1> QED
    BY <1>2, <1>3, <1>4

\* The order of both directions, under way or kept back.
KeptBack(s) == IF s.exists THEN s.incomplete ELSE <<>>
Exchanging(s) == IF s.exists THEN s.kex ELSE FALSE
InStep(s, st, nt, sv) ==
  /\ HostSide(KeptBack(s) \o st, Exchanging(s), sv)
  /\ Ordered(CodesOut(nt), sv.quiet, Exchanging(s), ClientOthers)
  /\ s.exists => s.kex = s.initSent /\ Waiting(s.queue)
OrderInv == Live => InStep(ssh, stream, net, srv) /\ (~seen.raw => NoRaw(net))

LEMMA SessionFacts ==
  /\ \A s \in Session : /\ s.exists = TRUE /\ KeptBack(s) = s.incomplete /\ Exchanging(s) = s.kex
                        /\ s.incomplete \in Seq(HostUnits) /\ s.kex \in BOOLEAN
  /\ NoSession.exists = FALSE /\ KeptBack(NoSession) = <<>> /\ Exchanging(NoSession) = FALSE
  /\ <<>> \in Seq(HostUnits)
PROOF
  <1>1. ASSUME NEW s \in Session
        PROVE  /\ s.exists = TRUE /\ KeptBack(s) = s.incomplete /\ Exchanging(s) = s.kex
               /\ s.incomplete \in Seq(HostUnits) /\ s.kex \in BOOLEAN
    <2>1. s.exists = TRUE
      BY DEF Session
    <2> QED
      BY <2>1 DEF Session, KeptBack, Exchanging
  <1>2. NoSession.exists = FALSE /\ KeptBack(NoSession) = <<>> /\ Exchanging(NoSession) = FALSE
    BY DEF NoSession, KeptBack, Exchanging
  <1>3. <<>> \in Seq(HostUnits)
    OBVIOUS
  <1> QED
    BY <1>1, <1>2, <1>3

LEMMA NothingYet ==
  /\ \A others : Ordered(<<>>, FALSE, FALSE, others)
  /\ CodesIn(<<>>) = <<>> /\ CodesOut(<<>>) = <<>> /\ Whole(<<>>) /\ Ended(<<>>)
  /\ NoRaw(<<>>) /\ Waiting(<<>>)
PROOF
  <1>1. DOMAIN <<>> = {} /\ Len(<<>>) = 0
    OBVIOUS
  <1>2. CodesIn(<<>>) = <<>> /\ CodesOut(<<>>) = <<>>
    <2>1. CodesIn(<<>>) \in Seq(AllCodes) /\ Len(CodesIn(<<>>)) = 0
      <3>1. <<>> \in Seq(HostUnits)
        OBVIOUS
      <3> QED
        BY <1>1, <3>1, CodesInFacts
    <2>2. CodesOut(<<>>) \in Seq(AllCodes) /\ Len(CodesOut(<<>>)) = 0
      <3>1. <<>> \in Seq(ClientPackets)
        OBVIOUS
      <3> QED
        BY <1>1, <3>1, CodesOutFacts
    <2> QED
      BY <2>1, <2>2, EmptySeq
  <1>3. Whole(<<>>) /\ Ended(<<>>)
    BY <1>1 DEF Whole, Ended
  <1> QED
    BY <1>1, <1>2, <1>3 DEF Ordered, NoRaw, Waiting

\* What a command of the user does.
LEMMA SendIsOne ==
  ASSUME NEW s \in Session, NEW code \in UserCodes, NEW x \in Values
  PROVE  LET r == sendSSHData(s, code, x) IN
         /\ r \in Results /\ r.msgs = <<>> /\ r.error = FALSE /\ SameReading(r.s, s)
         /\ SameKeys(r.s, s) /\ SameChannels(r.s, s) /\ r.s.expected = s.expected
         /\ r.s.authenticated = s.authenticated /\ r.s.window = s.window
         /\ \/ /\ code \in {"CHANNEL_DATA", "CHANNEL_REQUEST"} /\ ~HasChannel(s, s.primary)
               /\ r.out = <<>> /\ r.s = s
            \/ \E p \in ClientPackets :
                 /\ p.code = code /\ p.x = x
                 /\ code \in {"CHANNEL_DATA", "CHANNEL_REQUEST"} => HasChannel(s, s.primary)
                 /\ IF s.kex THEN r.out = <<>> /\ r.s.queue = Append(s.queue, p)
                    ELSE r.out = Append(s.queue, p) /\ r.s.queue = <<>>
PROOF
  <1> DEFINE r == sendSSHData(s, code, x)
             ch == IF HasChannel(s, s.primary) THEN s.channels[s.primary].server ELSE 0
             p == Packet(code, ch, x)
             none == code \in {"CHANNEL_DATA", "CHANNEL_REQUEST"} /\ ~HasChannel(s, s.primary)
  <1>1. Result(s) \in Results /\ Result(s).s = s /\ Result(s).out = <<>> /\ Result(s).msgs = <<>>
        /\ Result(s).error = FALSE
    BY ResultTyped DEF Result
  <1>2. p \in ClientPackets /\ p.code = code /\ p.x = x
    <2>1. code \in ClientCodes
      BY DEF UserCodes, ClientCodes
    <2>2. ch \in Values
      <3>1. IsChannels(s.channels)
        BY ChannelsAre DEF Session
      <3>2. ASSUME HasChannel(s, s.primary) PROVE s.channels[s.primary].server \in Values
        <4>1. s.channels[s.primary] \in Channel
          BY <3>1, <3>2 DEF IsChannels, HasChannel
        <4> QED
          BY <4>1 DEF Channel
      <3> QED
        BY <3>2 DEF Values
    <2> QED
      BY <2>1, <2>2, PacketsTyped DEF Packet
  <1>3. CASE none
    <2>1. r = Result(s)
      BY <1>3 DEF sendSSHData
    <2> HIDE DEF r
    <2> QED
      BY <1>1, <1>3, <2>1 DEF SameReading, SameKeys, SameChannels, r
  <1>4. CASE ~none /\ s.kex
    <2> DEFINE queue == Append(s.queue, p)
               t == [s EXCEPT !.queue = queue]
    <2>1. r = Result(t)
      BY <1>4 DEF sendSSHData
    <2>2. queue \in Seq(ClientPackets)
      BY <1>2 DEF Session
    <2> HIDE DEF queue, p
    <2>3. /\ t \in Session /\ t.queue = queue /\ SameReading(t, s) /\ SameKeys(t, s)
          /\ SameChannels(t, s) /\ t.expected = s.expected /\ t.authenticated = s.authenticated
          /\ t.window = s.window
      BY <2>2 DEF Session, SameReading, SameKeys, SameChannels
    <2> HIDE DEF t, r
    <2>4. r \in Results /\ r.s = t /\ r.out = <<>> /\ r.msgs = <<>> /\ r.error = FALSE
      BY <2>1, <2>3, ResultTyped DEF Result
    <2> QED
      BY <1>2, <1>4, <2>3, <2>4 DEF r, queue
  <1>5. CASE ~none /\ ~s.kex
    <2> DEFINE f == Flush(Result(s))
    <2>1. r = Send(f, p)
      BY <1>5 DEF sendSSHData
    <2> HIDE DEF r, p
    <2>2. /\ f \in Results /\ f.out = Result(s).out \o Result(s).s.queue /\ f.s.queue = <<>>
          /\ f.msgs = Result(s).msgs /\ f.error = Result(s).error
          /\ SameKeys(f.s, Result(s).s) /\ SameChannels(f.s, Result(s).s)
          /\ f.s.expected = Result(s).s.expected /\ f.s.authenticated = Result(s).s.authenticated
          /\ SameReading(f.s, Result(s).s)
      BY <1>1, FlushIs
    <2>3. f.s.window = s.window
      BY <1>1 DEF Flush, Results, Session
    <2>4. <<>> \o s.queue = s.queue
      BY DEF Session
    <2> HIDE DEF f
    <2>5. /\ r \in Results /\ r.s = f.s /\ r.out = Append(f.out, p) /\ r.msgs = f.msgs /\ r.error = f.error
      BY <1>2, <2>1, <2>2, SendIs
    <2> QED
      BY <1>1, <1>2, <1>5, <2>2, <2>3, <2>4, <2>5 DEF r
  <1> QED
    BY <1>3, <1>4, <1>5

\* What the user sends goes out between two key exchanges only.
LEMMA UserInStep ==
  ASSUME NEW s \in Session, NEW code \in UserCodes, NEW x \in Values, NEW st, NEW sv \in Servers,
         NEW nt \in Seq(ClientPackets), InStep(s, st, nt, sv)
  PROVE  LET r == sendSSHData(s, code, x) IN
         InStep(r.s, st, nt \o r.out, sv) /\ (NoRaw(nt) => NoRaw(nt \o r.out))
PROOF
  <1> DEFINE r == sendSSHData(s, code, x)
  <1>1. /\ r \in Results /\ SameReading(r.s, s) /\ SameKeys(r.s, s)
        /\ \/ r.out = <<>> /\ r.s = s
           \/ \E p \in ClientPackets :
                /\ p.code = code
                /\ IF s.kex THEN r.out = <<>> /\ r.s.queue = Append(s.queue, p)
                   ELSE r.out = Append(s.queue, p) /\ r.s.queue = <<>>
    <2>1. /\ r \in Results /\ r.msgs = <<>> /\ r.error = FALSE /\ SameReading(r.s, s)
          /\ SameKeys(r.s, s) /\ SameChannels(r.s, s) /\ r.s.expected = s.expected
          /\ r.s.authenticated = s.authenticated /\ r.s.window = s.window
          /\ \/ /\ code \in {"CHANNEL_DATA", "CHANNEL_REQUEST"} /\ ~HasChannel(s, s.primary)
                /\ r.out = <<>> /\ r.s = s
             \/ \E p \in ClientPackets :
                  /\ p.code = code /\ p.x = x
                  /\ code \in {"CHANNEL_DATA", "CHANNEL_REQUEST"} => HasChannel(s, s.primary)
                  /\ IF s.kex THEN r.out = <<>> /\ r.s.queue = Append(s.queue, p)
                     ELSE r.out = Append(s.queue, p) /\ r.s.queue = <<>>
      BY SendIsOne
    <2> HIDE DEF r
    <2> QED
      BY <2>1
  <1> HIDE DEF r
  <1>2. r.s \in Session /\ s.queue \in Seq(ClientPackets) /\ sv.quiet \in BOOLEAN /\ s.kex \in BOOLEAN
    BY <1>1 DEF Results, Session, Servers
  <1>3. /\ s.exists = TRUE /\ r.s.exists = TRUE
        /\ KeptBack(r.s) = KeptBack(s) /\ Exchanging(r.s) = Exchanging(s) /\ Exchanging(s) = s.kex
    BY <1>1, <1>2, SessionFacts DEF SameReading, SameKeys
  <1>4. /\ HostSide(KeptBack(s) \o st, Exchanging(s), sv)
        /\ Ordered(CodesOut(nt), sv.quiet, s.kex, ClientOthers) /\ s.kex = s.initSent /\ Waiting(s.queue)
    BY <1>3 DEF InStep
  <1>5. Out(nt, <<>>, sv.quiet, s.kex)
    BY <1>2, <1>4, OutNone
  <1>6. Waiting(r.s.queue) /\ Out(nt, r.out, sv.quiet, s.kex)
    <2>1. CASE r.out = <<>> /\ r.s = s
      BY <1>4, <1>5, <2>1
    <2>2. ASSUME NEW p \in ClientPackets, p.code = code,
                 IF s.kex THEN r.out = <<>> /\ r.s.queue = Append(s.queue, p)
                 ELSE r.out = Append(s.queue, p) /\ r.s.queue = <<>>
          PROVE  Waiting(r.s.queue) /\ Out(nt, r.out, sv.quiet, s.kex)
      <3>1. CASE s.kex
        <4>1. r.s.queue = Append(s.queue, p) /\ r.out = <<>> /\ DOMAIN s.queue = 1 .. Len(s.queue)
              /\ Len(s.queue) \in Nat
          BY <1>2, <2>2, <3>1
        <4>2. Waiting(Append(s.queue, p))
          BY <1>2, <1>4, <2>2, <4>1 DEF Waiting
        <4> QED
          BY <1>5, <4>1, <4>2
      <3>2. CASE ~s.kex
        <4>1. r.s.queue = <<>> /\ r.out = Append(s.queue, p) /\ s.kex = FALSE
          BY <1>2, <2>2, <3>2
        <4>2. <<>> \o s.queue = s.queue /\ <<>> \in Seq(ClientPackets)
          BY <1>2
        <4>3. Out(nt, <<>> \o s.queue, sv.quiet, FALSE)
          BY <1>2, <1>4, <1>5, <4>1, <4>2, OutJoins
        <4>4. Out(nt, s.queue, sv.quiet, FALSE)
          BY <4>2, <4>3
        <4>5. Out(nt, Append(s.queue, p), sv.quiet, p.code = "KEXINIT" \/ (p.code # "NEWKEYS" /\ FALSE))
          BY <1>2, <2>2, <4>4, OutAppends DEF UserCodes
        <4>6. (p.code = "KEXINIT" \/ (p.code # "NEWKEYS" /\ FALSE)) = FALSE
          BY <2>2 DEF UserCodes
        <4> QED
          BY <4>1, <4>5, <4>6, NothingYet
      <3> QED
        BY <3>1, <3>2
    <2> QED
      BY <1>1, <2>1, <2>2
  <1>7. r.s.kex = s.kex /\ r.s.initSent = s.initSent
    BY <1>1 DEF SameKeys
  <1>8. InStep(r.s, st, nt \o r.out, sv)
    BY <1>3, <1>4, <1>6, <1>7 DEF InStep, Out
  <1> QED
    BY <1>6, <1>8 DEF Out, r

\* The greeting of the server.
LEMMA BeginsInStep ==
  ASSUME Good, Begins
  PROVE  InStep(ssh', stream', net', srv') /\ NoRaw(net') /\ srv'.confused = FALSE /\ srv'.authed = FALSE
PROOF
  <1> DEFINE sv0 == [FreshServer EXCEPT !.kex = FALSE]
  <1>1. ssh' = NoSession /\ net' = <<>> /\ srv = FreshServer
    BY DEF Begins, Untouched
  <1>2. PICK eager \in BOOLEAN, method \in {"gex", "old"} :
          LET first == [id |-> 0, code |-> "VERSION", x |-> method, len |-> 1]
          IN  /\ stream' = Units(first) \o
                   IF eager THEN Units(ServerPacket(srv, "KEXINIT", method)) ELSE <<>>
              /\ srv' = [srv EXCEPT !.kex = eager, !.sent = IF eager THEN 1 ELSE 0, !.method = method]
    BY DEF Begins
  <1> DEFINE first == [id |-> 0, code |-> "VERSION", x |-> method, len |-> 1]
             next == ServerPacket(srv, "KEXINIT", method)
             after == IF eager THEN Units(next) ELSE <<>>
             sv == [srv EXCEPT !.kex = eager, !.sent = IF eager THEN 1 ELSE 0, !.method = method]
  <1>3. first \in HostPackets /\ first.code = "VERSION"
    BY DEF HostPackets, HostCodes, Values
  <1>4. next \in HostPackets /\ next.code = "KEXINIT"
    <2>1. srv \in Servers
      BY DEF Good, Typed
    <2>2. "KEXINIT" \in HostCodes /\ method \in Values
      BY DEF HostCodes, Values
    <2> QED
      BY <2>1, <2>2, ServerPacketTyped
  <1>5. stream' = Units(first) \o after /\ srv' = sv
    BY <1>2
  <1>6. sv.kex = eager /\ sv.quiet = FALSE /\ sv.held = <<>> /\ sv.confused = FALSE /\ sv.authed = FALSE
    BY <1>1 DEF FreshServer
  <1> HIDE DEF first, next, sv
  <1>7. /\ Units(first) \in Seq(HostUnits) /\ Units(next) \in Seq(HostUnits) /\ <<>> \in Seq(HostUnits)
        /\ \A u \in Seq(HostUnits) : <<>> \o u = u /\ u \o <<>> = u
    <2>1. Units(first) \in Seq(HostUnits) /\ Units(next) \in Seq(HostUnits)
      BY <1>3, <1>4, UnitsFacts
    <2> QED
      BY <2>1
  <1> DEFINE f == Units(first)
             g == Units(next)
  <1>8. Whole(f) /\ Ended(f) /\ Ordered(CodesIn(f), FALSE, FALSE, HostOthers)
    <2> HIDE DEF f
    <2>1. Whole(<<>> \o <<>>) /\ Ended(<<>> \o <<>>) /\ Ordered(CodesIn(<<>> \o <<>>), FALSE, FALSE, HostOthers)
      BY <1>7, NothingYet
    <2>2. <<>> \o (<<>> \o Units(first)) = f
      BY <1>7 DEF f
    <2>3. LET v == <<>> \o (<<>> \o Units(first)) IN
          /\ Whole(v) /\ Ended(v)
          /\ Ordered(CodesIn(v), FALSE, first.code = "KEXINIT" \/ (first.code # "NEWKEYS" /\ FALSE), HostOthers)
      BY <1>3, <1>7, <2>1, HostSends1
    <2>4. (first.code = "KEXINIT" \/ (first.code # "NEWKEYS" /\ FALSE)) = FALSE
      BY <1>3
    <2> QED
      BY <2>2, <2>3, <2>4
  <1>9. Whole(f \o g) /\ Ended(f \o g) /\ Ordered(CodesIn(f \o g), FALSE, TRUE, HostOthers)
    <2>1. Whole(<<>> \o f) /\ Ended(<<>> \o f) /\ Ordered(CodesIn(<<>> \o f), FALSE, FALSE, HostOthers)
      BY <1>7, <1>8
    <2>2. <<>> \o (f \o Units(next)) = f \o g /\ f \in Seq(HostUnits)
      BY <1>7
    <2> HIDE DEF f
    <2>3. LET v == <<>> \o (f \o Units(next)) IN
          /\ Whole(v) /\ Ended(v)
          /\ Ordered(CodesIn(v), FALSE, next.code = "KEXINIT" \/ (next.code # "NEWKEYS" /\ FALSE), HostOthers)
      <3>1. next.code \in HostOthers => ~FALSE
        OBVIOUS
      <3> QED
        BY <1>4, <1>7, <2>1, <2>2, <3>1, HostSends1
    <2>4. (next.code = "KEXINIT" \/ (next.code # "NEWKEYS" /\ FALSE)) = TRUE
      BY <1>4
    <2> HIDE DEF g
    <2> QED
      BY <2>2, <2>3, <2>4
  <1>10. Whole(stream') /\ Ended(stream') /\ Ordered(CodesIn(stream'), FALSE, sv.kex, HostOthers)
         /\ stream' \in Seq(HostUnits)
    <2>1. CASE eager
      <3>1. stream' = f \o g /\ sv.kex = TRUE
        BY <1>5, <1>6, <2>1
      <3>2. f \o g \in Seq(HostUnits)
        BY <1>7
      <3> HIDE DEF f, g
      <3> QED
        BY <1>9, <3>1, <3>2
    <2>2. CASE ~eager
      <3>1. stream' = f /\ sv.kex = FALSE
        BY <1>5, <1>6, <1>7, <2>2
      <3>2. f \in Seq(HostUnits)
        BY <1>7
      <3> HIDE DEF f
      <3> QED
        BY <1>8, <3>1, <3>2
    <2> QED
      BY <2>1, <2>2
  <1>11. HeldBack(sv)
    BY <1>6 DEF HeldBack
  <1>12. HostSide(stream', FALSE, sv)
    BY <1>10, <1>11 DEF HostSide
  <1>13. KeptBack(NoSession) \o stream' = stream'
    BY <1>7, <1>10, SessionFacts
  <1>14. InStep(NoSession, stream', <<>>, sv)
    BY <1>6, <1>12, <1>13, SessionFacts, NothingYet DEF InStep
  <1> QED
    BY <1>1, <1>5, <1>6, <1>14, NothingYet

LEMMA HearsInStep ==
  ASSUME Good, NEW n \in 1 .. Len(stream), Hears(n), InStep(ssh, stream, net, srv)
  PROVE  InStep(ssh', stream', net', srv') /\ (NoRaw(net) => NoRaw(net'))
PROOF
  <1> DEFINE chunk == SubSeq(stream, 1, n)
             r == processEncryptedData(ssh, chunk)
  <1>1. /\ net \in Seq(ClientPackets) /\ stream \in Seq(HostUnits) /\ srv \in Servers /\ IsSsh(ssh)
        /\ srv.kex \in BOOLEAN /\ srv.quiet \in BOOLEAN
    BY DEF Good, Typed, Servers
  <1>2. /\ r \in Results /\ ssh' = r.s /\ ~r.error /\ net' = net \o r.out
        /\ stream' = SubSeq(stream, n + 1, Len(stream)) /\ srv' = srv
    BY DEF Hears
  <1>3. CASE ssh = NoSession
    <2> DEFINE p == Plain("VERSION")
    <2>1. r.s = NewSession /\ r.out = <<p>>
      BY <1>3, FirstChunk
    <2> HIDE DEF r
    <2>2. /\ NewSession.kex = FALSE /\ NewSession.initSent = FALSE /\ NewSession.queue = <<>>
          /\ NewSession.incomplete = <<>> /\ NewSession.exists = TRUE
      BY DEF NewSession
    <2>3. /\ KeptBack(NewSession) = <<>> /\ Exchanging(NewSession) = FALSE
          /\ KeptBack(ssh) \o stream = stream /\ Exchanging(ssh) = FALSE
      BY <1>1, <1>3, <2>2, SessionFacts DEF KeptBack, Exchanging
    <2>4. HostSide(stream, FALSE, srv) /\ Ordered(CodesOut(net), srv.quiet, FALSE, ClientOthers)
      BY <2>3 DEF InStep
    <2>5. p \in ClientPackets /\ p.code = "VERSION"
      BY PacketsTyped DEF ClientCodes, Values, Packet, Plain
    <2> HIDE DEF p
    <2>6. Out(net, <<p>>, srv.quiet, FALSE)
      <3>1. Out(net, <<>>, srv.quiet, FALSE)
        BY <1>1, <2>4, OutNone
      <3>2. <<>> \in Seq(ClientPackets) /\ Append(<<>>, p) = <<p>>
        OBVIOUS
      <3>3. Out(net, Append(<<>>, p), srv.quiet, p.code = "KEXINIT" \/ (p.code # "NEWKEYS" /\ FALSE))
        BY <1>1, <2>5, <3>1, <3>2, OutAppends
      <3>4. (p.code = "KEXINIT" \/ (p.code # "NEWKEYS" /\ FALSE)) = FALSE
        BY <2>5
      <3> QED
        BY <3>2, <3>3, <3>4
    <2>7. HostSide(stream', FALSE, srv)
      <3> DEFINE c == CodesIn(stream)
      <3>1. n + 1 \in 1 .. Len(stream) + 1 /\ n \in 0 .. Len(stream)
        BY <1>1
      <3>2. c \in Seq(AllCodes) /\ Len(c) = Len(stream)
            /\ CodesIn(SubSeq(stream, n + 1, Len(stream))) = SubSeq(c, n + 1, Len(stream))
        BY <1>1, <3>1, CodesInFacts
      <3>3. stream' = Rest(stream, n + 1)
        BY <1>2 DEF Rest
      <3>4. Whole(Rest(stream, n + 1)) /\ Ended(Rest(stream, n + 1))
        BY <1>1, <2>4, <3>1, RestFacts DEF HostSide
      <3>5. Ordered(c, FALSE, srv.kex, HostOthers) /\ HeldBack(srv)
        BY <2>4 DEF HostSide
      <3> HIDE DEF c
      <3>6. Ordered(SubSeq(c, n + 1, Len(c)), FALSE, srv.kex, HostOthers)
        BY <1>1, <3>1, <3>2, <3>5, OrderedRest
      <3>7. Ordered(CodesIn(stream'), FALSE, srv.kex, HostOthers)
        BY <1>2, <3>2, <3>6
      <3> QED
        BY <3>3, <3>4, <3>5, <3>7 DEF HostSide
    <2>8. KeptBack(NewSession) \o stream' = stream'
      BY <1>1, <1>2, <2>3
    <2>9. InStep(NewSession, stream', net', srv)
      BY <1>2, <2>1, <2>2, <2>3, <2>6, <2>7, <2>8, NothingYet DEF InStep, Out
    <2> QED
      BY <1>2, <2>1, <2>6, <2>9 DEF Out
  <1>4. CASE ssh \in Session
    <2> DEFINE u == r.s.incomplete \o SubSeq(stream, n + 1, Len(stream))
    <2>1. KeptBack(ssh) = ssh.incomplete /\ Exchanging(ssh) = ssh.kex /\ ssh.exists = TRUE
          /\ r.s \in Session /\ KeptBack(r.s) = r.s.incomplete /\ Exchanging(r.s) = r.s.kex /\ r.s.exists = TRUE
      <3>1. r.s \in Session
        BY <1>2 DEF Results
      <3> HIDE DEF r
      <3> QED
        BY <1>4, <3>1, SessionFacts
    <2>2. /\ Whole(ssh.incomplete \o stream) /\ Ended(ssh.incomplete \o stream)
          /\ Ordered(CodesIn(ssh.incomplete \o stream), ssh.kex, srv.kex, HostOthers) /\ HeldBack(srv)
          /\ Ordered(CodesOut(net), srv.quiet, ssh.kex, ClientOthers)
          /\ ssh.kex = ssh.initSent /\ Waiting(ssh.queue)
      BY <2>1 DEF InStep, HostSide
    <2>3. Whole(u) /\ Ended(u) /\ Orderly(r, u, net, srv.kex, srv.quiet)
      BY <1>1, <1>2, <1>4, <2>2, ChunkOrders
    <2> HIDE DEF r
    <2>4. KeptBack(ssh') \o stream' = u
      BY <1>2, <2>1
    <2> HIDE DEF u
    <2>5. HostSide(u, r.s.kex, srv)
      BY <2>2, <2>3 DEF Orderly, HostSide
    <2>6. InStep(ssh', stream', net', srv')
      BY <1>2, <2>1, <2>3, <2>4, <2>5 DEF InStep, Orderly, Out
    <2> QED
      BY <1>2, <2>3, <2>6 DEF Orderly, Out
  <1> QED
    BY <1>1, <1>3, <1>4 DEF IsSsh

\* The host answers, or speaks by itself.
LEMMA SpeaksInStep ==
  ASSUME Good, NEW sv \in Servers, sv.kex = srv.kex, sv.held = srv.held, NEW nt, NEW codes,
         \/ codes = <<>>
         \/ \E a \in Commands : codes = <<a>>
         \/ \E a, b \in Commands : codes = <<a, b>>,
         InStep(ssh, stream, net, srv), Ordered(CodesOut(nt), sv.quiet, Exchanging(ssh), ClientOthers)
  PROVE  LET e == Emit(sv, stream, codes) IN
         InStep(ssh, e.stream, nt, e.srv) /\ SameServer(e.srv, sv)
PROOF
  <1> DEFINE e == Emit(sv, stream, codes)
             inc == KeptBack(ssh)
  <1>1. stream \in Seq(HostUnits) /\ IsSsh(ssh)
    BY DEF Good, Typed
  <1>2. inc \in Seq(HostUnits) /\ Exchanging(ssh) \in BOOLEAN
    BY <1>1, SessionFacts DEF IsSsh
  <1>3. HostSide(inc \o stream, Exchanging(ssh), sv)
    BY DEF InStep, HostSide, HeldBack
  <1>4. SameServer(e.srv, sv)
    BY <1>1, EmitKeeps
  <1> HIDE DEF inc
  <1>5. HostSide(inc \o e.stream, Exchanging(ssh), e.srv)
    BY <1>1, <1>2, <1>3, HostEmits
  <1> HIDE DEF e
  <1>6. InStep(ssh, e.stream, nt, e.srv)
    BY <1>4, <1>5 DEF InStep, SameServer, inc
  <1> QED
    BY <1>4, <1>6 DEF e

LEMMA ReadsInStep ==
  ASSUME Good, serverReads, InStep(ssh, stream, net, srv)
  PROVE  /\ InStep(ssh', stream', net', srv') /\ (NoRaw(net) => NoRaw(net'))
         /\ srv'.confused => srv.confused \/ ~NoRaw(net)
PROOF
  <1> DEFINE p == Head(net)
             read == ReadBy(p)
  <1>0. Typed /\ net \in Seq(ClientPackets) /\ srv \in Servers /\ IsSsh(ssh)
    BY DEF Good, Typed
  <1>1. net # <<>> /\ p \in ClientPackets /\ net' = Tail(net) /\ ssh' = ssh
    BY <1>0, ServerReadsOutcome DEF client
  <1>2. PICK answer \in Answers(p) :
          LET e == Emit(Greets(read, answer), stream, answer) IN
          e \in Emissions /\ srv' = e.srv /\ stream' = e.stream
    BY <1>0, ServerReadsOutcome
  <1> DEFINE sv == Greets(read, answer)
             e == Emit(sv, stream, answer)
  <1> HIDE DEF p
  <1>3. /\ read \in Servers /\ read.kex = srv.kex /\ read.held = srv.held
        /\ read.confused = (srv.confused \/ p.code = "RAW"
                             \/ (srv.quiet /\ p.code \notin KexCodes \cup {"WINDOW_ADJUST"}))
        /\ read.quiet = (p.code = "KEXINIT" \/ (p.code # "NEWKEYS" /\ srv.quiet))
    BY <1>0, <1>1, ReadByFacts
  <1> HIDE DEF read
  <1>4. /\ sv \in Servers /\ sv.kex = read.kex /\ sv.held = read.held
        /\ sv.confused = read.confused /\ sv.quiet = read.quiet
    BY <1>3, GreetsFacts
  <1> HIDE DEF sv
  <1>5. \/ answer = <<>>
        \/ \E a \in Commands : answer = <<a>>
        \/ \E a, b \in Commands : answer = <<a, b>>
    BY <1>0, AnswersTyped
  <1>6. srv.quiet \in BOOLEAN /\ Exchanging(ssh) \in BOOLEAN
    BY <1>0, SessionFacts DEF IsSsh, Servers
  <1> DEFINE c == CodesOut(net)
             kex == Exchanging(ssh)
  <1>7. /\ c \in Seq(AllCodes) /\ Len(c) = Len(net) /\ 1 <= Len(c) /\ Len(c) \in Nat
        /\ CodesOut(Tail(net)) = SubSeq(c, 2, Len(net)) /\ c[1] = p.code
    <2>1. 1 <= Len(net) /\ Len(net) \in Nat
      BY <1>0, <1>1
    <2> QED
      BY <1>0, <1>1, <2>1, CodesOutFacts DEF p
  <1>8. Ordered(c, srv.quiet, kex, ClientOthers)
    BY DEF InStep
  <1> HIDE DEF c, kex
  <1>9. "NEWKEYS" \notin ClientOthers
    BY DEF ClientOthers, KexCodes
  <1>10. /\ Ordered(SubSeq(c, 1 + 1, Len(c)), c[1] = "KEXINIT" \/ (c[1] # "NEWKEYS" /\ srv.quiet), kex, ClientOthers)
         /\ srv.quiet => c[1] \notin ClientOthers
    BY <1>6, <1>7, <1>8, <1>9, OrderedDrop DEF kex
  <1>11. Ordered(CodesOut(net'), sv.quiet, kex, ClientOthers) /\ (srv.quiet => p.code \notin ClientOthers)
    <2>1. 1 + 1 = 2
      OBVIOUS
    <2> QED
      BY <1>1, <1>3, <1>4, <1>7, <1>10, <2>1
  <1>12. InStep(ssh, e.stream, net', e.srv) /\ SameServer(e.srv, sv)
    BY <1>3, <1>4, <1>5, <1>11, SpeaksInStep DEF kex
  <1>13. srv' = e.srv /\ stream' = e.stream
    BY <1>2 DEF sv
  <1> HIDE DEF e
  <1>14. InStep(ssh', stream', net', srv')
    BY <1>1, <1>12, <1>13
  <1>15. NoRaw(net) => NoRaw(net') /\ p.code # "RAW"
    <2>1. Len(net) \in Nat /\ 1 \in DOMAIN net /\ p = net[1] /\ DOMAIN net = 1 .. Len(net)
          /\ DOMAIN Tail(net) = 1 .. Len(net) - 1 /\ \A i \in 1 .. Len(net) - 1 : Tail(net)[i] = net[i + 1]
      BY <1>0, <1>1 DEF p
    <2> QED
      BY <1>1, <2>1 DEF NoRaw
  <1>16. srv'.confused => srv.confused \/ p.code = "RAW"
    <2>1. srv'.confused = (srv.confused \/ p.code = "RAW"
                             \/ (srv.quiet /\ p.code \notin KexCodes \cup {"WINDOW_ADJUST"}))
      BY <1>3, <1>4, <1>12, <1>13 DEF SameServer
    <2>2. p.code \in ClientCodes
      BY <1>1 DEF ClientPackets
    <2> QED
      BY <1>11, <2>1, <2>2 DEF ClientOthers
  <1> QED
    BY <1>14, <1>15, <1>16

LEMMA InitOrder == Init => OrderInv
PROOF
  <1> SUFFICES ASSUME Init PROVE OrderInv
    OBVIOUS
  <1>1. ~Live
    BY DEF Init, Live
  <1> QED
    BY <1>1 DEF OrderInv

LEMMA NextOrder == Good /\ OrderInv /\ [Next]_vars => OrderInv'
PROOF
  <1> SUFFICES ASSUME Good, OrderInv, [Next]_vars, Live'
               PROVE  InStep(ssh', stream', net', srv') /\ (~seen'.raw => NoRaw(net'))
    BY DEF OrderInv
  <1>0. /\ Typed /\ IsSsh(ssh) /\ net \in Seq(ClientPackets) /\ stream \in Seq(HostUnits) /\ srv \in Servers
        /\ seen.raw \in BOOLEAN
    BY DEF Good, Typed, IsHistory
  <1>1. CASE Begins
    BY <1>1, BeginsInStep
  <1> SUFFICES ASSUME Live,
                 \/ \E n \in 1 .. Len(stream) : Hears(n)
                 \/ \E code \in UserCodes, x \in Values : Orders(code, x)
                 \/ \E x \in Values : TypesRaw(x)
                 \/ serverReads
                 \/ \E sv, code, x : code \in HostCodes /\ x \in Values /\ Speaks(sv, code, x)
                 \/ Still
               PROVE  InStep(ssh', stream', net', srv') /\ (~seen'.raw => NoRaw(net'))
    BY <1>1, LiveSteps
  <1>2. InStep(ssh, stream, net, srv) /\ (~seen.raw => NoRaw(net))
    BY DEF OrderInv
  <1>3. ASSUME NEW n \in 1 .. Len(stream), Hears(n)
        PROVE  InStep(ssh', stream', net', srv') /\ (~seen'.raw => NoRaw(net'))
    <2>1. seen'.raw = seen.raw
      BY <1>3 DEF Hears
    <2> QED
      BY <1>2, <1>3, <2>1, HearsInStep
  <1>4. ASSUME NEW code \in UserCodes, NEW x \in Values, Orders(code, x)
        PROVE  InStep(ssh', stream', net', srv') /\ (~seen'.raw => NoRaw(net'))
    <2> DEFINE r == sendSSHData(ssh, code, x)
    <2>1. ssh \in Session /\ ssh' = r.s /\ net' = net \o r.out /\ stream' = stream /\ srv' = srv
          /\ seen'.raw = seen.raw
      BY <1>4 DEF Orders, sendToHost
    <2>2. InStep(r.s, stream, net \o r.out, srv) /\ (NoRaw(net) => NoRaw(net \o r.out))
      BY <1>0, <1>2, <2>1, UserInStep
    <2> HIDE DEF r
    <2> QED
      BY <1>2, <2>1, <2>2
  <1>5. ASSUME NEW x \in Values, TypesRaw(x)
        PROVE  InStep(ssh', stream', net', srv') /\ (~seen'.raw => NoRaw(net'))
    <2> DEFINE p == Packet("RAW", 0, x)
               c == CodesOut(net)
    <2>1. ssh = NoSession /\ net' = Append(net, p) /\ ssh' = ssh /\ stream' = stream /\ srv' = srv
          /\ seen'.raw = TRUE
      BY <1>5 DEF TypesRaw
    <2>2. p \in ClientPackets /\ p.code = "RAW"
      BY PacketsTyped DEF ClientCodes, Values, Packet
    <2> HIDE DEF p
    <2>3. c \in Seq(AllCodes) /\ CodesOut(net') = Append(c, "RAW")
      BY <1>0, <2>1, <2>2, CodesOutFacts
    <2>4. Exchanging(ssh) = FALSE /\ ~ssh.exists
      BY <2>1, SessionFacts
    <2>5. Ordered(c, srv.quiet, FALSE, ClientOthers) /\ srv.quiet \in BOOLEAN
      BY <1>0, <1>2, <2>4 DEF InStep, Servers
    <2> HIDE DEF c
    <2>6. "KEXINIT" \notin ClientOthers /\ "RAW" \in AllCodes
      BY DEF ClientOthers, KexCodes, AllCodes, ClientCodes
    <2>7. Ordered(Append(c, "RAW"), srv.quiet, "RAW" = "KEXINIT" \/ ("RAW" # "NEWKEYS" /\ FALSE), ClientOthers)
      BY <2>3, <2>5, <2>6, OrderedAppend
    <2>8. ("RAW" = "KEXINIT" \/ ("RAW" # "NEWKEYS" /\ FALSE)) = FALSE
      OBVIOUS
    <2>9. Ordered(CodesOut(net'), srv.quiet, FALSE, ClientOthers)
      BY <2>3, <2>7, <2>8
    <2> QED
      BY <1>2, <2>1, <2>4, <2>9 DEF InStep
  <1>6. CASE serverReads
    <2>1. seen' = seen
      BY <1>0, <1>6, ServerReadsOutcome DEF client
    <2> QED
      BY <1>2, <1>6, <2>1, ReadsInStep
  <1>7. ASSUME NEW sv, NEW code \in HostCodes, NEW x \in Values, Speaks(sv, code, x)
        PROVE  InStep(ssh', stream', net', srv') /\ (~seen'.raw => NoRaw(net'))
    <2> DEFINE a == [code |-> code, x |-> x]
               e == Emit(sv, stream, <<a>>)
    <2>1. AsServer(sv) /\ ServerSpeaks(sv, code, x) /\ seen'.raw = seen.raw
      BY <1>7 DEF Speaks
    <2>2. sv \in Servers /\ sv.kex = srv.kex /\ sv.held = srv.held /\ sv.quiet = srv.quiet
      BY <2>1 DEF AsServer
    <2>3. srv' = e.srv /\ stream' = e.stream /\ ssh' = ssh /\ net' = net
      BY <2>1 DEF ServerSpeaks
    <2>4. a \in Commands
      BY CodeTyped
    <2> HIDE DEF a
    <2>5. \E b \in Commands : <<a>> = <<b>>
      BY <2>4
    <2>6. Ordered(CodesOut(net), sv.quiet, Exchanging(ssh), ClientOthers)
      BY <1>2, <2>2 DEF InStep
    <2>7. InStep(ssh, e.stream, net, e.srv)
      BY <1>2, <2>2, <2>5, <2>6, SpeaksInStep
    <2> HIDE DEF e
    <2> QED
      BY <1>2, <2>1, <2>3, <2>7
  <1>8. CASE Still
    BY <1>2, <1>8 DEF Still
  <1> QED
    BY <1>3, <1>4, <1>5, <1>6, <1>7, <1>8

LEMMA OrderHolds == Spec => [](Good /\ OrderInv)
PROOF
  <1>1. Spec => []Good
    BY GoodHolds
  <1>2. Init => OrderInv
    BY InitOrder
  <1>3. Good /\ OrderInv /\ [Next]_vars => OrderInv'
    BY NextOrder
  <1> QED
    BY <1>1, <1>2, <1>3, PTL DEF Spec

\* A keystroke written as it is stays on record.
LEMMA RawOnRecord == Good /\ [Next]_vars /\ seen.raw => seen'.raw
PROOF
  <1> SUFFICES ASSUME Good, [Next]_vars, seen.raw, seen' # seen PROVE seen'.raw
    OBVIOUS
  <1>0. SeenFields \subseteq DOMAIN seen /\ Typed
    BY DEF Good, Typed, IsHistory
  <1>1. ASSUME NEW kd \in Kinds, connect(kd) PROVE seen'.raw
    BY <1>0, <1>1 DEF connect, SeenFields
  <1>2. ASSUME NEW n \in 1 .. Len(stream), handleData(n) PROVE seen'.raw
    <2>1. CASE kind = "ssh"
      <3>1. sshData(SubSeq(stream, 1, n))
        BY <1>2, <2>1 DEF handleData
      <3> QED
        BY <1>0, <3>1, SshDataOutcome
    <2>2. CASE kind # "ssh"
      BY <1>0, <1>2, <2>2 DEF handleData, SeenFields
    <2> QED
      BY <2>1, <2>2
  <1>3. ASSUME NEW fingerprint \in BOOLEAN, NEW accept \in BOOLEAN, certificateAnswer(fingerprint, accept)
        PROVE  seen'.raw
    BY <1>0, <1>3 DEF certificateAnswer, SeenFields
  <1>4. CASE clientData
    BY <1>0, <1>4 DEF clientData, SeenFields
  <1>5. ASSUME NEW x \in {0, 1}, channelRequest(x) PROVE seen'.raw
    BY <1>0, <1>5 DEF channelRequest, SeenFields
  <1>6. CASE hostSends
    BY <1>0, <1>6 DEF hostSends, SeenFields
  <1>7. CASE \/ wsError \/ NotJson \/ handleWebsocketClosed \/ authenticationAnswer \/ serverReads
             \/ hostReads \/ serverRekeys \/ serverDisconnects \/ UNCHANGED vars
             \/ \E k \in Sockets : connectHandler(k) \/ hostError(k) \/ hostCloses(k) \/ hostSocketClosed(k)
    <2>1. seen' = seen
      BY <1>7 DEF wsError, NotJson, handleWebsocketClosed, authenticationAnswer, serverReads, hostReads,
                  serverRekeys, serverDisconnects, connectHandler, hostError, hostCloses, hostSocketClosed,
                  client, vars
    <2> QED
      BY <2>1
  <1> QED
    BY <1>1, <1>2, <1>3, <1>4, <1>5, <1>6, <1>7 DEF Next

\* Only what the server reads can confuse it.
LEMMA Confusing ==
  ASSUME Good, [Next]_vars
  PROVE  srv'.confused = srv.confused \/ (serverReads /\ Live)
PROOF
  <1>0. Typed /\ srv \in Servers /\ stream \in Seq(HostUnits) /\ Base /\ IInv
    BY DEF Good, Typed
  <1>1. ASSUME NEW k \in Sockets, connectHandler(k) PROVE srv'.confused = srv.confused
    <2>1. CASE kind # "ssh"
      BY <1>1, <2>1 DEF connectHandler
    <2>2. CASE kind = "ssh"
      <3>1. PICK eager \in BOOLEAN, method \in {"gex", "old"} :
              srv' = [srv EXCEPT !.kex = eager, !.sent = IF eager THEN 1 ELSE 0, !.method = method]
        BY <1>1, <2>2 DEF connectHandler
      <3> QED
        BY <1>0, <3>1 DEF Servers
    <2> QED
      BY <2>1, <2>2
  <1>2. CASE serverReads
    <2>1. kind = "ssh" /\ cur # 0 /\ socks[cur] = "up"
      BY <1>2 DEF serverReads
    <2>2. cur = 1
      BY <1>0, <2>1 DEF Base, IInv, Ranges
    <2> QED
      BY <1>2, <2>1, <2>2 DEF Live
  <1>3. CASE hostReads
    BY <1>0, <1>3 DEF hostReads, Servers
  <1>4. ASSUME NEW sv \in Servers, NEW code \in HostCodes, NEW x \in Values, ServerSpeaks(sv, code, x)
        PROVE  srv'.confused = sv.confused
    <2>1. LET c == [code |-> code, x |-> x]
              e == Emitted(Outcome(sv, stream), c) IN
          c \in Commands /\ Outcome(sv, stream) \in Emissions /\ srv' = e.srv
      BY <1>0, <1>4, SpeaksOutcome
    <2>2. Outcome(sv, stream).srv = sv
      BY DEF Outcome
    <2> QED
      BY <2>1, <2>2, EmittedKeeps DEF SameServer
  <1>5. CASE hostSends
    <2>1. ServerSpeaks(srv, "CHANNEL_DATA", seen.data + 1) /\ "CHANNEL_DATA" \in HostCodes /\ seen.data + 1 \in Values
      BY <1>0, <1>5 DEF hostSends, HostCodes, Values, Typed, IsHistory
    <2> QED
      BY <1>0, <1>4, <2>1
  <1>6. CASE serverRekeys
    <2> DEFINE sv == [srv EXCEPT !.rekeys = @ + 1]
    <2>1. ServerSpeaks(sv, "KEXINIT", srv.method) /\ "KEXINIT" \in HostCodes
      BY <1>6 DEF serverRekeys, HostCodes
    <2>2. srv.method \in Values
      BY <1>0 DEF Servers, Values
    <2>3. sv \in Servers
      <3> DEFINE more == srv.rekeys + 1
      <3>1. more \in Nat /\ sv = [srv EXCEPT !.rekeys = more]
        BY <1>0 DEF Servers
      <3> HIDE DEF more
      <3>2. [srv EXCEPT !.rekeys = more] \in Servers
        BY <1>0, <3>1 DEF Servers
      <3> QED
        BY <3>1, <3>2
    <2>4. sv.confused = srv.confused
      BY <1>0 DEF Servers
    <2> HIDE DEF sv
    <2> QED
      BY <1>4, <2>1, <2>2, <2>3, <2>4
  <1>7. CASE serverDisconnects
    <2> DEFINE sv == [srv EXCEPT !.over = TRUE]
    <2>1. ServerSpeaks(sv, "DISCONNECT", 0) /\ "DISCONNECT" \in HostCodes /\ 0 \in Values
      BY <1>7 DEF serverDisconnects, HostCodes, Values
    <2>2. sv \in Servers /\ sv.confused = srv.confused
      BY <1>0 DEF Servers
    <2> HIDE DEF sv
    <2> QED
      BY <1>4, <2>1, <2>2
  <1>8. CASE \/ wsError \/ NotJson \/ handleWebsocketClosed \/ (\E kd \in Kinds : connect(kd))
             \/ (\E k \in Sockets : hostError(k) \/ hostCloses(k) \/ hostSocketClosed(k))
             \/ (\E fingerprint, accept \in BOOLEAN : certificateAnswer(fingerprint, accept))
             \/ clientData \/ authenticationAnswer \/ (\E x \in {0, 1} : channelRequest(x)) \/ UNCHANGED vars
    <2>1. srv' = srv
      BY <1>8 DEF wsError, NotJson, handleWebsocketClosed, connect, hostError, hostCloses, hostSocketClosed,
                  certificateAnswer, clientData, authenticationAnswer, channelRequest, Idle, vars
    <2> QED
      BY <2>1
  <1>9. ASSUME NEW n \in 1 .. Len(stream), handleData(n) PROVE srv' = srv
    BY <1>9 DEF handleData, sshData
  <1> QED
    BY <1>1, <1>2, <1>3, <1>5, <1>6, <1>7, <1>8, <1>9 DEF Next

\* The server gets no packet the protocol forbids, window adjustments aside, unless
\* the user typed before the host had spoken: however key exchanges and what the
\* user sends interleave, and however TCP cuts what starts and ends them.
THEOREM ProtocolIsKept == Spec => []ProtocolKept
PROOF
  <1>1. Init => ProtocolKept
    BY DEF Init, ProtocolKept
  <1>2. Good /\ OrderInv /\ ProtocolKept /\ [Next]_vars => ProtocolKept'
    <2> SUFFICES ASSUME Good, OrderInv, ProtocolKept, [Next]_vars, srv'.confused PROVE seen'.raw
      BY DEF ProtocolKept
    <2>1. CASE srv'.confused = srv.confused
      BY <2>1, RawOnRecord DEF ProtocolKept
    <2>2. CASE serverReads /\ Live
      <3>1. InStep(ssh, stream, net, srv) /\ (~seen.raw => NoRaw(net))
        BY <2>2 DEF OrderInv
      <3>2. srv.confused \/ ~NoRaw(net)
        BY <2>2, <3>1, ReadsInStep
      <3> QED
        BY <3>1, <3>2, RawOnRecord DEF ProtocolKept
    <2> QED
      BY <2>1, <2>2, Confusing
  <1> QED
    BY <1>1, <1>2, OrderHolds, PTL DEF Spec

-----------------------------------------------------------------------------
(* The way to the shell *)

\* From the login to the shell the client and the server take turns: one
\* packet at a time is the next step, and it is on its way to one of the two.
Tokens == {"USERAUTH_SUCCESS", "OPEN_CONFIRMATION", "CHANNEL_SUCCESS", "CHANNEL_OPEN", "pty-req", "shell"}
Tok(c) == \E i \in DOMAIN c : c[i] \in Tokens
Single(c) == \A i, j \in DOMAIN c : c[i] \in Tokens /\ c[j] \in Tokens => i = j
Lone(u, h, n) ==
  /\ Single(u) /\ Single(h) /\ Single(n)
  /\ ~(Tok(u) /\ Tok(h)) /\ ~(Tok(u) /\ Tok(n)) /\ ~(Tok(h) /\ Tok(n))

LEMMA TokAppend ==
  ASSUME NEW c \in Seq(AllCodes), NEW x \in AllCodes, Single(c), x \in Tokens => ~Tok(c)
  PROVE  /\ Append(c, x) \in Seq(AllCodes) /\ Single(Append(c, x))
         /\ Tok(Append(c, x)) <=> Tok(c) \/ x \in Tokens
PROOF
  <1> DEFINE d == Append(c, x)
             n == Len(c)
  <1>1. /\ d \in Seq(AllCodes) /\ DOMAIN d = 1 .. n + 1 /\ DOMAIN c = 1 .. n /\ n \in Nat
        /\ d[n + 1] = x /\ \A i \in 1 .. n : d[i] = c[i]
    OBVIOUS
  <1> HIDE DEF d, n
  <1>2. Tok(d) <=> Tok(c) \/ x \in Tokens
    <2>1. Tok(c) => Tok(d)
      BY <1>1 DEF Tok
    <2>2. x \in Tokens => Tok(d)
      BY <1>1 DEF Tok
    <2>3. ASSUME NEW i \in 1 .. n + 1, d[i] \in Tokens PROVE Tok(c) \/ x \in Tokens
      BY <1>1, <2>3 DEF Tok
    <2> QED
      BY <1>1, <2>1, <2>2, <2>3 DEF Tok
  <1>3. ASSUME NEW i \in 1 .. n + 1, NEW j \in 1 .. n + 1, d[i] \in Tokens, d[j] \in Tokens PROVE i = j
    <2>1. CASE i \in 1 .. n /\ j \in 1 .. n
      BY <1>1, <1>3, <2>1 DEF Single
    <2>2. CASE i \in 1 .. n /\ j \notin 1 .. n
      <3>1. j = n + 1
        BY <1>1, <1>3, <2>2
      <3>2. x \in Tokens /\ c[i] \in Tokens
        BY <1>1, <1>3, <2>2, <3>1
      <3> QED
        BY <1>1, <2>2, <3>2 DEF Tok
    <2>3. CASE i \notin 1 .. n /\ j \in 1 .. n
      <3>1. i = n + 1
        BY <1>1, <1>3, <2>3
      <3>2. x \in Tokens /\ c[j] \in Tokens
        BY <1>1, <1>3, <2>3, <3>1
      <3> QED
        BY <1>1, <2>3, <3>2 DEF Tok
    <2>4. CASE i \notin 1 .. n /\ j \notin 1 .. n
      BY <1>1, <1>3, <2>4
    <2> QED
      BY <2>1, <2>2, <2>3, <2>4
  <1>4. Single(d)
    BY <1>1, <1>3 DEF Single
  <1> QED
    BY <1>1, <1>2, <1>4 DEF d

\* What is left when the first ones are gone.
LEMMA TokRest ==
  ASSUME NEW c \in Seq(AllCodes), NEW m \in 0 .. Len(c), Single(c)
  PROVE  LET e == SubSeq(c, m + 1, Len(c)) IN
         /\ e \in Seq(AllCodes) /\ Single(e) /\ (Tok(e) => Tok(c))
         /\ \A i \in 1 .. m : c[i] \in Tokens => ~Tok(e) /\ Tok(c)
PROOF
  <1> DEFINE e == SubSeq(c, m + 1, Len(c))
             n == Len(c)
  <1>1. /\ e \in Seq(AllCodes) /\ DOMAIN e = 1 .. n - m /\ DOMAIN c = 1 .. n /\ n \in Nat /\ m \in Nat /\ m <= n
        /\ \A i \in 1 .. n - m : e[i] = c[i + m] /\ i + m \in 1 .. n
    OBVIOUS
  <1> HIDE DEF e, n
  <1>2. Tok(e) => Tok(c)
    BY <1>1 DEF Tok
  <1>3. ASSUME NEW i \in 1 .. n - m, NEW j \in 1 .. n - m, e[i] \in Tokens, e[j] \in Tokens PROVE i = j
    <2>1. c[i + m] \in Tokens /\ c[j + m] \in Tokens /\ i + m \in DOMAIN c /\ j + m \in DOMAIN c
      BY <1>1, <1>3
    <2>2. i + m = j + m
      BY <2>1 DEF Single
    <2> QED
      BY <1>1, <2>2
  <1>4. ASSUME NEW i \in 1 .. m, c[i] \in Tokens PROVE ~Tok(e) /\ Tok(c)
    <2>1. i \in DOMAIN c
      BY <1>1
    <2>2. ASSUME NEW j \in 1 .. n - m, e[j] \in Tokens PROVE FALSE
      <3>1. c[j + m] \in Tokens /\ j + m \in DOMAIN c
        BY <1>1, <2>2
      <3>2. i = j + m
        BY <1>4, <2>1, <3>1 DEF Single
      <3> QED
        BY <1>1, <3>2
    <2> QED
      BY <1>1, <1>4, <2>1, <2>2 DEF Tok
  <1>5. Single(e)
    BY <1>1, <1>3 DEF Single
  <1> QED
    BY <1>1, <1>2, <1>4, <1>5 DEF e

LEMMA TokJoin ==
  ASSUME NEW c \in Seq(AllCodes), NEW d \in Seq(AllCodes), Single(c), ~Tok(d)
  PROVE  Single(c \o d) /\ (Tok(c \o d) <=> Tok(c))
PROOF
  <1> DEFINE e == c \o d
             n == Len(c)
             m == Len(d)
  <1>1. /\ DOMAIN e = 1 .. n + m /\ DOMAIN c = 1 .. n /\ DOMAIN d = 1 .. m /\ n \in Nat /\ m \in Nat
        /\ \A i \in 1 .. n : e[i] = c[i]
        /\ \A i \in 1 .. m : e[n + i] = d[i]
    BY JoinFacts
  <1> HIDE DEF e, n, m
  <1>2. ASSUME NEW i \in 1 .. n + m, e[i] \in Tokens PROVE i \in 1 .. n /\ c[i] \in Tokens
    <2>1. CASE i \in 1 .. n
      BY <1>1, <1>2, <2>1
    <2>2. CASE i \notin 1 .. n
      <3> DEFINE j == i - n
      <3>1. j \in 1 .. m /\ i = n + j
        BY <1>1, <2>2
      <3> HIDE DEF j
      <3>2. d[j] \in Tokens
        BY <1>1, <1>2, <3>1
      <3> QED
        BY <1>1, <3>1, <3>2 DEF Tok
    <2> QED
      BY <2>1, <2>2
  <1>3. Single(e)
    BY <1>1, <1>2 DEF Single
  <1>4. Tok(e) <=> Tok(c)
    <2>1. Tok(e) => Tok(c)
      BY <1>1, <1>2 DEF Tok
    <2>2. Tok(c) => Tok(e)
      <3>1. \A i \in 1 .. n : i \in 1 .. n + m
        BY <1>1
      <3> QED
        BY <1>1, <3>1 DEF Tok
    <2> QED
      BY <2>1, <2>2
  <1> QED
    BY <1>3, <1>4 DEF e

LEMMA NoTok == Single(<<>>) /\ ~Tok(<<>>)
  BY DEF Single, Tok

\* What the server holds back, as codes.
LEMMA CodesHeld ==
  ASSUME NEW h \in Seq(Commands)
  PROVE  /\ CodesOut(h) \in Seq(AllCodes) /\ Len(CodesOut(h)) = Len(h)
         /\ \A i \in 1 .. Len(h) : CodesOut(h)[i] = h[i].code
         /\ \A a \in Commands : CodesOut(Append(h, a)) = Append(CodesOut(h), a.code)
PROOF
  <1>1. ASSUME NEW m \in Seq(Commands)
        PROVE  CodesOut(m) \in Seq(AllCodes) /\ Len(CodesOut(m)) = Len(m)
               /\ \A i \in 1 .. Len(m) : CodesOut(m)[i] = m[i].code
    <2>1. DOMAIN m = 1 .. Len(m) /\ Len(m) \in Nat
      OBVIOUS
    <2>2. ASSUME NEW i \in 1 .. Len(m) PROVE m[i].code \in AllCodes
      <3>1. m[i] \in Commands
        OBVIOUS
      <3> QED
        BY <3>1 DEF Commands, AllCodes
    <2>3. CodesOut(m) = [i \in 1 .. Len(m) |-> m[i].code]
      BY <2>1 DEF CodesOut
    <2>4. CodesOut(m) \in [1 .. Len(m) -> AllCodes]
      BY <2>2, <2>3
    <2> QED
      BY <2>1, <2>3, <2>4
  <1>2. ASSUME NEW a \in Commands PROVE CodesOut(Append(h, a)) = Append(CodesOut(h), a.code)
    <2> DEFINE e == Append(h, a)
               c == CodesOut(h)
    <2>1. /\ e \in Seq(Commands) /\ Len(e) = Len(h) + 1 /\ Len(h) \in Nat
          /\ \A i \in 1 .. Len(h) + 1 : e[i] = IF i <= Len(h) THEN h[i] ELSE a
      OBVIOUS
    <2>2. c \in Seq(AllCodes) /\ Len(c) = Len(h) /\ \A i \in 1 .. Len(h) : c[i] = h[i].code
      BY <1>1
    <2>3. a.code \in AllCodes
      BY DEF Commands, AllCodes
    <2> HIDE DEF e, c
    <2>4. /\ CodesOut(e) \in Seq(AllCodes) /\ Len(CodesOut(e)) = Len(e)
          /\ \A i \in 1 .. Len(e) : CodesOut(e)[i] = e[i].code
      BY <1>1, <2>1
    <2>5. /\ Append(c, a.code) \in Seq(AllCodes) /\ Len(Append(c, a.code)) = Len(e)
          /\ \A i \in 1 .. Len(e) : Append(c, a.code)[i] = IF i <= Len(h) THEN c[i] ELSE a.code
      BY <2>1, <2>2, <2>3
    <2>6. ASSUME NEW i \in 1 .. Len(e) PROVE CodesOut(e)[i] = Append(c, a.code)[i]
      BY <2>1, <2>2, <2>4, <2>5
    <2> QED
      BY <2>4, <2>5, <2>6, SameSequence DEF e, c
  <1> QED
    BY <1>1, <1>2

\* One packet more of the host.
LEMMA TokUnits ==
  ASSUME NEW inc \in Seq(HostUnits), NEW st \in Seq(HostUnits), NEW p \in HostPackets,
         Single(CodesIn(inc \o st)), p.code \in Tokens => ~Tok(CodesIn(inc \o st))
  PROVE  LET v == CodesIn(inc \o (st \o Units(p))) IN
         Single(v) /\ (Tok(v) <=> Tok(CodesIn(inc \o st)) \/ p.code \in Tokens)
PROOF
  <1> DEFINE u == inc \o st
             c == CodesIn(u)
             d == Append(c, p.code)
  <1>1. u \in Seq(HostUnits) /\ inc \o (st \o Units(p)) = u \o Units(p)
    BY UnitsFacts, ConcatAssociative
  <1> HIDE DEF u
  <1>2. c \in Seq(AllCodes) /\ p.code \in AllCodes /\ "rest" \in AllCodes /\ "rest" \notin Tokens
    <2>1. p.code \in AllCodes /\ "rest" \in AllCodes /\ "rest" \notin Tokens
      BY DEF HostPackets, AllCodes, Tokens
    <2> QED
      BY <1>1, <2>1, CodesInFacts
  <1>3. CodesIn(u \o Units(p)) = IF p.len = 1 THEN d ELSE Append(d, "rest")
    BY <1>1, CodesInAdd
  <1>4. Single(c) /\ (p.code \in Tokens => ~Tok(c))
    BY DEF u
  <1> HIDE DEF c
  <1>5. d \in Seq(AllCodes) /\ Single(d) /\ (Tok(d) <=> Tok(c) \/ p.code \in Tokens)
    BY <1>2, <1>4, TokAppend
  <1> HIDE DEF d
  <1>6. Single(Append(d, "rest")) /\ (Tok(Append(d, "rest")) <=> Tok(d))
    BY <1>2, <1>5, TokAppend
  <1> QED
    BY <1>1, <1>3, <1>5, <1>6 DEF c, u

\* The host's side: what is under way and what waits for its NEWKEYS.
Paired(u, h) == Single(u) /\ Single(h) /\ ~(Tok(u) /\ Tok(h))
Inward(inc, e) == CodesIn(inc \o e.stream)
HeldCodes(e) == CodesOut(e.srv.held)

LEMMA EmittedTokens ==
  ASSUME NEW e \in Emissions, NEW c \in Commands, NEW inc \in Seq(HostUnits),
         Paired(Inward(inc, e), HeldCodes(e)),
         c.code \in Tokens => ~Tok(Inward(inc, e)) /\ ~Tok(HeldCodes(e))
  PROVE  LET f == Emitted(e, c) IN
         /\ Paired(Inward(inc, f), HeldCodes(f))
         /\ Tok(Inward(inc, f)) \/ Tok(HeldCodes(f)) =>
              Tok(Inward(inc, e)) \/ Tok(HeldCodes(e)) \/ c.code \in Tokens
PROOF
  <1> DEFINE f == Emitted(e, c)
             u == Inward(inc, e)
             h == HeldCodes(e)
             held == e.srv.held
             n == Len(held)
  <1>0. held \in Seq(Commands) /\ n \in Nat /\ c.code \in AllCodes
    <2>1. held \in Seq(Commands)
      BY DEF Emissions
    <2>2. c.code \in AllCodes
      BY DEF Commands, AllCodes
    <2> QED
      BY <2>1, <2>2
  <1>1. /\ h \in Seq(AllCodes) /\ Len(h) = n /\ \A i \in 1 .. n : h[i] = held[i].code
        /\ CodesOut(Append(held, c)) = Append(h, c.code)
    BY <1>0, CodesHeld DEF HeldCodes
  <1>2. Single(u) /\ Single(h) /\ ~(Tok(u) /\ Tok(h)) /\ (c.code \in Tokens => ~Tok(u) /\ ~Tok(h))
    BY DEF Paired
  <1>3. ASSUME NEW d \in Emissions, NEW a \in Commands, Single(Inward(inc, d)),
               a.code \in Tokens => ~Tok(Inward(inc, d))
        PROVE  LET g == Sent(d, a) IN
               /\ g \in Emissions /\ g.srv.held = d.srv.held
               /\ Single(Inward(inc, g))
               /\ Tok(Inward(inc, g)) <=> Tok(Inward(inc, d)) \/ a.code \in Tokens
    <2> DEFINE p == ServerPacket(d.srv, a.code, a.x)
    <2>1. p \in HostPackets /\ p.code = a.code /\ Sent(d, a).stream = d.stream \o Units(p)
          /\ Sent(d, a).srv.held = d.srv.held /\ Sent(d, a) \in Emissions
      BY SentFields
    <2>2. d.stream \in Seq(HostUnits)
      BY DEF Emissions
    <2> HIDE DEF p
    <2>3. Single(CodesIn(inc \o d.stream)) /\ (p.code \in Tokens => ~Tok(CodesIn(inc \o d.stream)))
      BY <1>3, <2>1 DEF Inward
    <2>4. LET v == CodesIn(inc \o (d.stream \o Units(p))) IN
          Single(v) /\ (Tok(v) <=> Tok(CodesIn(inc \o d.stream)) \/ p.code \in Tokens)
      BY <2>1, <2>2, <2>3, TokUnits
    <2> QED
      BY <2>1, <2>4 DEF Inward
  <1> HIDE DEF u, h, held, n
  <1>4. CASE f.stream = e.stream /\ f.srv.held = Append(held, c)
    <2>1. Inward(inc, f) = u /\ HeldCodes(f) = Append(h, c.code)
      BY <1>1, <1>4 DEF Inward, HeldCodes, u
    <2>2. Single(Append(h, c.code)) /\ (Tok(Append(h, c.code)) <=> Tok(h) \/ c.code \in Tokens)
      BY <1>0, <1>1, <1>2, TokAppend
    <2> HIDE DEF f
    <2> QED
      BY <1>2, <2>1, <2>2 DEF Paired, f, u, h
  <1>5. CASE f = Sent(e, c)
    <2>1. LET g == Sent(e, c) IN
          /\ g \in Emissions /\ g.srv.held = e.srv.held
          /\ Single(Inward(inc, g))
          /\ Tok(Inward(inc, g)) <=> Tok(Inward(inc, e)) \/ c.code \in Tokens
      BY <1>2, <1>3 DEF u
    <2> HIDE DEF f
    <2>2. Single(Inward(inc, f)) /\ (Tok(Inward(inc, f)) <=> Tok(u) \/ c.code \in Tokens) /\ HeldCodes(f) = h
      BY <1>5, <2>1 DEF u, h, HeldCodes
    <2> QED
      BY <1>2, <2>2 DEF Paired, f, u, h
  <1>6. CASE c.code = "NEWKEYS" /\ f = InOrder(Sent, Keyed0(e, c), held)
    <2> DEFINE k == Keyed0(e, c)
               In(d, i) == /\ d.srv.held = <<>> /\ Single(Inward(inc, d))
                           /\ Tok(Inward(inc, d)) => Tok(u) \/ \E j \in 1 .. i : h[j] \in Tokens
               S == [i \in 0 .. n |-> {d \in Emissions : In(d, i)}]
    <2>1. k \in Emissions /\ In(k, 0)
      <3>1. k \in Emissions /\ k.srv.held = <<>> /\ k.stream = Sent(e, c).stream
        <4>1. Sent(e, c).stream = e.stream \o Units(ServerPacket(e.srv, c.code, c.x))
          BY SentFields
        <4>2. /\ Keyed0(e, c) \in Emissions /\ Keyed0(e, c).srv.held = <<>>
              /\ Keyed0(e, c).stream = e.stream \o Units(ServerPacket(e.srv, c.code, c.x))
          BY KeyedFields
        <4> QED
          BY <4>1, <4>2
      <3>2. c.code \notin Tokens
        BY <1>6 DEF Tokens
      <3>3. Single(Inward(inc, Sent(e, c))) /\ (Tok(Inward(inc, Sent(e, c))) <=> Tok(u))
        BY <1>2, <1>3, <3>2 DEF u
      <3>4. Inward(inc, k) = Inward(inc, Sent(e, c))
        BY <3>1 DEF Inward
      <3> HIDE DEF k
      <3> QED
        BY <3>1, <3>3, <3>4
    <2>2. ASSUME NEW i \in 1 .. n, NEW d \in Emissions, In(d, i - 1)
          PROVE  Sent(d, held[i]) \in Emissions /\ In(Sent(d, held[i]), i)
      <3> DEFINE a == held[i]
      <3>1. a \in Commands /\ a.code = h[i] /\ i \in DOMAIN h /\ i \in Nat
        BY <1>0, <1>1 DEF n
      <3>2. ASSUME a.code \in Tokens, Tok(Inward(inc, d)) PROVE FALSE
        <4>1. Tok(h)
          BY <3>1, <3>2 DEF Tok
        <4>2. PICK j \in 1 .. i - 1 : h[j] \in Tokens
          BY <1>2, <2>2, <3>2, <4>1
        <4>3. j \in DOMAIN h /\ j # i
          BY <1>1, <3>1, <4>2
        <4> QED
          BY <1>2, <3>1, <3>2, <4>2, <4>3 DEF Single
      <3> HIDE DEF a
      <3>3. LET g == Sent(d, a) IN
            /\ g \in Emissions /\ g.srv.held = d.srv.held
            /\ Single(Inward(inc, g))
            /\ Tok(Inward(inc, g)) <=> Tok(Inward(inc, d)) \/ a.code \in Tokens
        BY <1>3, <2>2, <3>1, <3>2
      <3>4. ASSUME Tok(Inward(inc, Sent(d, a))) PROVE Tok(u) \/ \E j \in 1 .. i : h[j] \in Tokens
        <4>1. CASE a.code \in Tokens
          BY <3>1, <4>1
        <4>2. CASE Tok(Inward(inc, d))
          <5>1. Tok(u) \/ \E j \in 1 .. i - 1 : h[j] \in Tokens
            BY <2>2, <4>2
          <5>2. \A j \in 1 .. i - 1 : j \in 1 .. i
            BY <3>1
          <5> QED
            BY <5>1, <5>2
        <4> QED
          BY <3>3, <3>4, <4>1, <4>2
      <3> QED
        BY <2>2, <3>3, <3>4 DEF a
    <2>3. f \in Emissions /\ In(f, n)
      <3> HIDE DEF k, In, f
      <3>1. \A i \in 0 .. n : S[i] = {d \in Emissions : In(d, i)}
        OBVIOUS
      <3> HIDE DEF S
      <3>2. k \in S[0] /\ Len(held) = n
        BY <1>0, <2>1, <3>1 DEF n
      <3>3. ASSUME NEW i \in 1 .. n, NEW d \in S[i - 1] PROVE Sent(d, held[i]) \in S[i]
        <4>1. i - 1 \in 0 .. n /\ i \in 0 .. n
          BY <1>0
        <4>2. d \in Emissions /\ In(d, i - 1)
          BY <3>1, <4>1
        <4> QED
          BY <2>2, <3>1, <4>1, <4>2
      <3>4. InOrder(Sent, k, held) \in S[n]
        BY <1>0, <3>2, <3>3, SendsRule
      <3>5. n \in 0 .. n
        BY <1>0
      <3> QED
        BY <1>6, <3>1, <3>4, <3>5 DEF k
    <2> HIDE DEF f
    <2>4. HeldCodes(f) = <<>>
      BY <2>3, NothingYet DEF HeldCodes
    <2>5. ASSUME NEW j \in 1 .. n, h[j] \in Tokens PROVE Tok(h)
      BY <1>0, <1>1, <2>5 DEF Tok
    <2> QED
      BY <2>3, <2>4, <2>5, NoTok DEF Paired, f, u, h
  <1> QED
    BY <1>4, <1>5, <1>6, EmittedWays DEF held

LEMMA EmitTokens ==
  ASSUME NEW sv \in Servers, NEW st \in Seq(HostUnits), NEW inc \in Seq(HostUnits), NEW codes,
         NEW token \in BOOLEAN,
         \/ codes = <<>>
         \/ \E a \in Commands : codes = <<a>> /\ (a.code \in Tokens => token)
         \/ \E a, b \in Commands : codes = <<a, b>> /\ a.code \notin Tokens /\ b.code \notin Tokens,
         Paired(CodesIn(inc \o st), CodesOut(sv.held)),
         token => ~Tok(CodesIn(inc \o st)) /\ ~Tok(CodesOut(sv.held))
  PROVE  LET e == Emit(sv, st, codes)
             u == CodesIn(inc \o e.stream)
             h == CodesOut(e.srv.held) IN
         /\ Paired(u, h)
         /\ Tok(u) \/ Tok(h) => Tok(CodesIn(inc \o st)) \/ Tok(CodesOut(sv.held)) \/ token
PROOF
  <1> DEFINE o == Outcome(sv, st)
             u == Inward(inc, o)
             h == HeldCodes(o)
             Fine(e) == /\ Paired(Inward(inc, e), HeldCodes(e))
                        /\ Tok(Inward(inc, e)) \/ Tok(HeldCodes(e)) => Tok(u) \/ Tok(h) \/ token
  <1>1. o \in Emissions /\ o.srv = sv /\ o.stream = st
    BY EmissionsAre DEF Outcome
  <1> HIDE DEF o
  <1>2. u = CodesIn(inc \o st) /\ h = CodesOut(sv.held)
    BY <1>1 DEF Inward, HeldCodes
  <1>3. Fine(o) /\ (token => ~Tok(u) /\ ~Tok(h))
    BY <1>2
  <1> HIDE DEF u, h
  <1> SUFFICES Fine(Emit(sv, st, codes))
    BY <1>2 DEF Inward, HeldCodes
  <1>4. CASE codes = <<>>
    <2>1. Emit(sv, st, codes) = o
      BY <1>4, EmitNone DEF o
    <2> QED
      BY <1>3, <2>1
  <1>5. ASSUME NEW a \in Commands, codes = <<a>>, a.code \in Tokens => token
        PROVE  Fine(Emit(sv, st, codes))
    <2>1. Emit(sv, st, codes) = Emitted(o, a)
      BY <1>5, EmitOne DEF o
    <2>2. LET f == Emitted(o, a) IN
          /\ Paired(Inward(inc, f), HeldCodes(f))
          /\ Tok(Inward(inc, f)) \/ Tok(HeldCodes(f)) =>
               Tok(Inward(inc, o)) \/ Tok(HeldCodes(o)) \/ a.code \in Tokens
      BY <1>1, <1>3, <1>5, EmittedTokens DEF u, h
    <2> QED
      BY <1>5, <2>1, <2>2 DEF u, h
  <1>6. ASSUME NEW a \in Commands, NEW b \in Commands, codes = <<a, b>>, a.code \notin Tokens, b.code \notin Tokens
        PROVE  Fine(Emit(sv, st, codes))
    <2> DEFINE g == Emitted(o, a)
    <2>1. Emit(sv, st, codes) = Emitted(g, b)
      BY <1>6, EmitTwo DEF o
    <2>2. g \in Emissions
      BY <1>1, EmittedTyped
    <2>3. /\ Paired(Inward(inc, g), HeldCodes(g))
          /\ Tok(Inward(inc, g)) \/ Tok(HeldCodes(g)) => Tok(u) \/ Tok(h)
      BY <1>1, <1>3, <1>6, EmittedTokens DEF u, h
    <2> HIDE DEF g
    <2>4. LET f == Emitted(g, b) IN
          /\ Paired(Inward(inc, f), HeldCodes(f))
          /\ Tok(Inward(inc, f)) \/ Tok(HeldCodes(f)) =>
               Tok(Inward(inc, g)) \/ Tok(HeldCodes(g)) \/ b.code \in Tokens
      BY <1>6, <2>2, <2>3, EmittedTokens
    <2> QED
      BY <1>6, <2>1, <2>3, <2>4
  <1> QED
    BY <1>4, <1>5, <1>6

\* Where the keystrokes go: nowhere yet, or through the channel that is open.
Home(s) ==
  \/ s.primary = 0 /\ s.highest = 1
  \/ s.primary = 1 /\ HasChannel(s, 1)
Primary(s) == IF s.exists THEN s.primary ELSE 0
NoReply(n) == \A i \in DOMAIN n : n[i].code = "CHANNEL_REQUEST" => n[i].x # 1
\* u and held are the codes that come, n those that go.
Turns(s, u, held, n, authed) ==
  /\ Lone(u, held, n)
  /\ Tok(u) \/ Tok(held) \/ Tok(n) => authed
  /\ Tok(u) \/ Tok(held) \/ Tok(n) \/ ~authed => Primary(s) = 0
Writes(n, o, token) ==
  /\ Single(CodesOut(n \o o)) /\ (Tok(CodesOut(n \o o)) => token)
  /\ NoReply(n \o o)
Settled(s) == Waiting(s.queue) /\ NoReply(s.queue)
Ready(q, u, held, n, authed) ==
  /\ Turns(q.s, CodesIn(u), held, CodesOut(n \o q.out), authed)
  /\ NoReply(n \o q.out) /\ Settled(q.s)

LEMMA NoReplyAdd ==
  ASSUME NEW n \in Seq(ClientPackets), NEW m \in Seq(ClientPackets), NoReply(n), NoReply(m)
  PROVE  NoReply(n \o m)
PROOF
  <1> DEFINE v == n \o m
  <1>1. /\ DOMAIN v = 1 .. Len(n) + Len(m) /\ Len(n) \in Nat /\ Len(m) \in Nat
        /\ DOMAIN n = 1 .. Len(n) /\ DOMAIN m = 1 .. Len(m)
        /\ \A i \in 1 .. Len(n) : v[i] = n[i]
        /\ \A i \in 1 .. Len(m) : v[Len(n) + i] = m[i]
    BY JoinFacts
  <1> HIDE DEF v
  <1>2. ASSUME NEW i \in DOMAIN v, v[i].code = "CHANNEL_REQUEST" PROVE v[i].x # 1
    <2>1. CASE i \in 1 .. Len(n)
      BY <1>1, <1>2, <2>1 DEF NoReply
    <2>2. CASE i \notin 1 .. Len(n)
      <3> DEFINE j == i - Len(n)
      <3>1. j \in 1 .. Len(m) /\ i = Len(n) + j
        BY <1>1, <1>2, <2>2
      <3> HIDE DEF j
      <3>2. v[i] = m[j]
        BY <1>1, <3>1
      <3> QED
        BY <1>1, <1>2, <3>1, <3>2 DEF NoReply
    <2> QED
      BY <2>1, <2>2
  <1> QED
    BY <1>2 DEF NoReply, v

LEMMA WritesAppend ==
  ASSUME NEW n \in Seq(ClientPackets), NEW o \in Seq(ClientPackets), NEW p \in ClientPackets,
         NEW token \in BOOLEAN, Writes(n, o, token), p.code \in Tokens => ~token,
         p.code = "CHANNEL_REQUEST" => p.x # 1
  PROVE  Append(o, p) \in Seq(ClientPackets) /\ Writes(n, Append(o, p), token \/ p.code \in Tokens)
PROOF
  <1> DEFINE v == n \o o
             c == CodesOut(v)
  <1>1. v \in Seq(ClientPackets) /\ n \o Append(o, p) = Append(v, p) /\ Append(v, p) = v \o <<p>>
        /\ <<p>> \in Seq(ClientPackets) /\ Append(o, p) \in Seq(ClientPackets)
    BY SMTT(30)
  <1> HIDE DEF v
  <1>2. c \in Seq(AllCodes) /\ CodesOut(Append(v, p)) = Append(c, p.code)
    BY <1>1, CodesOutFacts
  <1>3. p.code \in AllCodes
    BY DEF ClientPackets, AllCodes
  <1>4. Single(c) /\ (Tok(c) => token) /\ NoReply(v)
    BY DEF Writes, v
  <1> HIDE DEF c
  <1>5. Single(Append(c, p.code)) /\ (Tok(Append(c, p.code)) <=> Tok(c) \/ p.code \in Tokens)
    BY <1>2, <1>3, <1>4, TokAppend
  <1>6. NoReply(<<p>>)
    BY DEF NoReply
  <1>7. NoReply(Append(v, p))
    BY <1>1, <1>4, <1>6, NoReplyAdd
  <1> QED
    BY <1>1, <1>2, <1>4, <1>5, <1>7 DEF Writes

LEMMA WritesJoins ==
  ASSUME NEW n \in Seq(ClientPackets), NEW o \in Seq(ClientPackets), NEW q \in Seq(ClientPackets),
         NEW token, Writes(n, o, token), Waiting(q), NoReply(q)
  PROVE  o \o q \in Seq(ClientPackets) /\ Writes(n, o \o q, token)
PROOF
  <1> DEFINE v == n \o o
             c == CodesOut(v)
             d == CodesOut(q)
  <1>1. v \in Seq(ClientPackets) /\ n \o (o \o q) = v \o q /\ o \o q \in Seq(ClientPackets)
    <2>1. v \in Seq(ClientPackets) /\ o \o q \in Seq(ClientPackets)
      OBVIOUS
    <2>2. n \o (o \o q) = v \o q
      BY ConcatAssociative, SMTT(30)
    <2> QED
      BY <2>1, <2>2
  <1> HIDE DEF v
  <1>2. c \in Seq(AllCodes) /\ d \in Seq(AllCodes) /\ CodesOut(v \o q) = c \o d
    BY <1>1, CodesOutFacts
  <1>3. ~Tok(d)
    BY DEF Waiting, CodesOut, UserCodes, Tok, Tokens
  <1>4. Single(c) /\ (Tok(c) => token) /\ NoReply(v)
    BY DEF Writes, v
  <1> HIDE DEF c, d
  <1>5. Single(c \o d) /\ (Tok(c \o d) <=> Tok(c))
    BY <1>2, <1>3, <1>4, TokJoin
  <1>6. NoReply(v \o q)
    BY <1>1, <1>4, NoReplyAdd
  <1> QED
    BY <1>1, <1>2, <1>4, <1>5, <1>6 DEF Writes

\* The packet a token names is answered by the next one, the others by none.
LEMMA HandleTokens ==
  ASSUME NEW q \in Results, NEW u \in Seq(HostUnits), NEW d \in {1, 2}, d <= Len(u),
         NEW p \in HostPackets, u[1].p = p, u[1].k = 1,
         NEW n \in Seq(ClientPackets), NEW held, NEW authed \in BOOLEAN,
         Home(q.s), Ready(q, u, held, n, authed)
  PROVE  LET h == Handle(q, p, 1) IN
         Home(h.s) /\ (~h.error => Ready(h, SubSeq(u, d + 1, Len(u)), held, n, authed))
PROOF
  <1> DEFINE h == Handle(q, p, 1)
             c == CodesIn(u)
             m == CodesOut(n \o q.out)
             v == SubSeq(u, d + 1, Len(u))
             e == CodesIn(v)
  <1>1. h \in Results /\ Outcomes(h, q, p, 1)
    <2>1. 1 \in Nat
      OBVIOUS
    <2> QED
      BY <2>1, HandleOutcome
  <1>2. /\ q.out \in Seq(ClientPackets) /\ q.s.queue \in Seq(ClientPackets) /\ q.s.primary \in Nat
        /\ p.code \in HostCodes /\ p.x \in Values /\ 0 \in Values /\ 1 \in Values
    BY DEF Results, Session, HostPackets, Values
  <1>3. Single(e) /\ (Tok(e) => Tok(c)) /\ (p.code \in Tokens => Tok(c) /\ ~Tok(e))
    <2>1. 1 \in 1 .. Len(u) /\ d + 1 \in 1 .. Len(u) + 1 /\ d \in 0 .. Len(u)
      OBVIOUS
    <2>2. c[1] = (IF u[1].k = 1 THEN u[1].p.code ELSE "rest")
      BY <2>1, CodesInFacts
    <2>3. c \in Seq(AllCodes) /\ Len(c) = Len(u) /\ CodesIn(v) = SubSeq(c, d + 1, Len(u))
      BY <2>1, CodesInFacts
    <2>4. Single(c)
      BY DEF Ready, Turns, Lone
    <2> HIDE DEF c, v
    <2>5. LET f == SubSeq(c, d + 1, Len(c)) IN
          /\ f \in Seq(AllCodes) /\ Single(f) /\ (Tok(f) => Tok(c))
          /\ \A i \in 1 .. d : c[i] \in Tokens => ~Tok(f) /\ Tok(c)
      BY <2>1, <2>3, <2>4, TokRest
    <2>6. 1 \in 1 .. d
      OBVIOUS
    <2> QED
      BY <2>2, <2>3, <2>5, <2>6
  <1>4. /\ Lone(c, held, m) /\ (Tok(c) \/ Tok(held) \/ Tok(m) => authed)
        /\ (Tok(c) \/ Tok(held) \/ Tok(m) \/ ~authed => q.s.primary = 0)
        /\ NoReply(n \o q.out) /\ Waiting(q.s.queue) /\ NoReply(q.s.queue)
    <2>1. q.s \in Session
      BY DEF Results
    <2> QED
      BY <2>1, SessionFacts DEF Ready, Turns, Settled, Primary
  <1>5. h.s \in Session /\ Primary(h.s) = h.s.primary
    <2>1. h.s \in Session
      BY <1>1 DEF Results
    <2> QED
      BY <2>1, SessionFacts DEF Primary
  <1> DEFINE t == Tok(m)
  <1>6. t \in BOOLEAN /\ Writes(n, q.out, t)
    BY <1>4 DEF Writes, Lone, Tok
  <1> HIDE DEF c, e, v, h, m, t
  <1> SUFFICES Home(h.s) /\ (~h.error => Ready(h, v, held, n, authed))
    BY DEF h, v
  \* Nothing new, or the answer to a token.
  <1>7. ASSUME h.s.primary = q.s.primary, Settled(h.s),
               Writes(n, h.out, t) \/ (p.code \in Tokens /\ Writes(n, h.out, TRUE))
        PROVE  Ready(h, v, held, n, authed)
    <2> DEFINE w == CodesOut(n \o h.out)
    <2>1. Single(w) /\ NoReply(n \o h.out) /\ (Tok(w) => Tok(m) \/ p.code \in Tokens)
      BY <1>7 DEF Writes, t
    <2> HIDE DEF w
    <2>2. Lone(e, held, w) /\ (Tok(e) \/ Tok(held) \/ Tok(w) => Tok(c) \/ Tok(held) \/ Tok(m))
      BY <1>3, <1>4, <2>1 DEF Lone
    <2> QED
      BY <1>4, <1>5, <1>7, <2>1, <2>2 DEF Ready, Turns, e, w
  <1>8. ASSUME SameChannels(h.s, q.s) PROVE Home(h.s)
    BY <1>8 DEF SameChannels, Home, HasChannel
  <1>9. ASSUME SameChannels(h.s, q.s), h.s.queue = q.s.queue, Writes(n, h.out, t)
        PROVE  Home(h.s) /\ Ready(h, v, held, n, authed)
    BY <1>4, <1>7, <1>8, <1>9 DEF SameChannels, Settled
  <1>10. ASSUME NEW o \in Seq(ClientPackets), NEW x \in ClientPackets, Writes(n, o, t),
                x.code \notin Tokens, x.code # "CHANNEL_REQUEST"
         PROVE  Append(o, x) \in Seq(ClientPackets) /\ Writes(n, Append(o, x), t)
    <2>1. Append(o, x) \in Seq(ClientPackets) /\ Writes(n, Append(o, x), t \/ x.code \in Tokens)
      BY <1>2, <1>6, <1>10, WritesAppend
    <2>2. (t \/ x.code \in Tokens) = t
      BY <1>6, <1>10
    <2> QED
      BY <2>1, <2>2
  <1>11. ASSUME NEW x \in ClientPackets, p.code \in Tokens, x.code # "CHANNEL_REQUEST"
         PROVE  Writes(n, Append(q.out, x), TRUE)
    <2>1. t = FALSE
      BY <1>3, <1>4, <1>6, <1>11 DEF Lone, t
    <2>2. Writes(n, Append(q.out, x), t \/ x.code \in Tokens)
      BY <1>2, <1>6, <1>11, <2>1, WritesAppend
    <2> QED
      BY <2>2 DEF Writes
  <1>12. CASE p.code \in ToProxy \cup {"VERSION"} /\ Passes(h, q, p)
    BY <1>6, <1>9, <1>12 DEF Passes, SameMain
  <1>13. CASE p.code = "USERAUTH_SUCCESS" /\ LogsIn(h, q, 1)
    <2> DEFINE x == Packet("CHANNEL_OPEN", 0, 1)
    <2>1. x \in ClientPackets /\ x.code = "CHANNEL_OPEN"
      BY <1>2, PacketsTyped DEF ClientCodes, Packet
    <2>2. h.out = Append(q.out, x) /\ p.code \in Tokens /\ SameChannels(h.s, q.s) /\ h.s.queue = q.s.queue
      BY <1>13 DEF LogsIn, Tokens
    <2> HIDE DEF x
    <2>3. Writes(n, h.out, TRUE)
      BY <1>11, <2>1, <2>2
    <2> QED
      BY <1>4, <1>7, <1>8, <2>2, <2>3 DEF SameChannels, Settled
  <1>14. CASE p.code = "OPEN_CONFIRMATION" /\ OpensChannel(h, q, p, 1)
    <2> DEFINE x == Packet("pty-req", p.x, 0)
    <2>1. x \in ClientPackets /\ x.code = "pty-req"
      BY <1>2, PacketsTyped DEF ClientCodes, Packet
    <2>2. /\ h.out = Append(q.out, x) /\ p.code \in Tokens /\ h.s.queue = q.s.queue
          /\ h.s.primary = q.s.primary /\ h.s.highest = q.s.highest
          /\ DOMAIN h.s.channels = DOMAIN q.s.channels \cup {1}
      BY <1>14 DEF OpensChannel, Tokens
    <2> HIDE DEF x
    <2>3. Writes(n, h.out, TRUE)
      BY <1>11, <2>1, <2>2
    <2>4. Home(h.s)
      BY <2>2 DEF Home, HasChannel
    <2> QED
      BY <1>4, <1>7, <2>2, <2>3, <2>4 DEF Settled
  <1>15. CASE p.code = "CHANNEL_SUCCESS" /\ Succeeds(h, q, 1)
    <2> DEFINE x == Packet("shell", 0, 0)
    <2>1. x \in ClientPackets /\ x.code = "shell"
      BY <1>2, PacketsTyped DEF ClientCodes, Packet
    <2>2. /\ p.code \in Tokens /\ h.s.queue = q.s.queue /\ DOMAIN h.s.channels = DOMAIN q.s.channels
          /\ \/ h.out = q.out /\ h.s.primary = q.s.primary /\ h.s.highest = q.s.highest
             \/ h.out = Append(q.out, x) /\ h.s.primary = q.s.primary /\ h.s.highest = q.s.highest
             \/ h.out = q.out /\ HasChannel(q.s, 1) /\ h.s.primary = q.s.highest
      BY <1>15 DEF Succeeds, Tokens
    <2> HIDE DEF x
    <2>3. CASE h.out = q.out /\ h.s.primary = q.s.primary /\ h.s.highest = q.s.highest
      <3>1. Home(h.s)
        BY <2>2, <2>3 DEF Home, HasChannel
      <3> QED
        BY <1>4, <1>6, <1>7, <2>2, <2>3, <3>1 DEF Settled
    <2>4. CASE h.out = Append(q.out, x) /\ h.s.primary = q.s.primary /\ h.s.highest = q.s.highest
      <3>1. Home(h.s)
        BY <2>2, <2>4 DEF Home, HasChannel
      <3>2. Writes(n, h.out, TRUE)
        BY <1>11, <2>1, <2>2, <2>4
      <3> QED
        BY <1>4, <1>7, <2>2, <2>4, <3>1, <3>2 DEF Settled
    <2>5. CASE h.out = q.out /\ HasChannel(q.s, 1) /\ h.s.primary = q.s.highest
      <3>1. q.s.primary = 0 /\ authed /\ ~Tok(e) /\ ~Tok(held) /\ ~Tok(m) /\ Single(held) /\ Single(m)
        BY <1>3, <1>4, <2>2 DEF Lone
      <3>2. h.s.primary = 1 /\ HasChannel(h.s, 1)
        BY <2>2, <2>5, <3>1 DEF Home, HasChannel
      <3>3. Lone(e, held, m)
        BY <1>3, <3>1 DEF Lone
      <3>4. Turns(h.s, e, held, m, authed)
        BY <3>1, <3>3 DEF Turns
      <3>5. Ready(h, v, held, n, authed)
        BY <1>4, <2>2, <2>5, <3>4 DEF Ready, Settled, e, m
      <3> QED
        BY <3>2, <3>5 DEF Home
    <2> QED
      BY <2>2, <2>3, <2>4, <2>5
  <1>16. CASE p.code = "GEX_GROUP" /\ TakesGroup(h, q)
    <2> DEFINE x == Plain("GEX_INIT")
    <2>1. x \in ClientPackets /\ x.code = "GEX_INIT"
      BY <1>2, PacketsTyped DEF ClientCodes, Packet, Plain
    <2>2. (h.out = q.out \/ h.out = Append(q.out, x)) /\ SameChannels(h.s, q.s) /\ h.s.queue = q.s.queue
      BY <1>16 DEF TakesGroup
    <2> HIDE DEF x
    <2>3. Writes(n, h.out, t)
      BY <1>2, <1>6, <1>10, <2>1, <2>2 DEF Tokens
    <2> QED
      BY <1>9, <2>2, <2>3
  <1>17. CASE p.code = "GEX_REPLY" /\ TakesReply(h, q)
    BY <1>6, <1>9, <1>17 DEF TakesReply
  <1>18. CASE p.code = "KEXINIT" /\ Rekeys(h, q, p)
    <2> DEFINE x == Plain("KEXINIT")
               y == Plain(h.s.sent)
               o == IF q.s.initSent THEN q.out ELSE Append(q.out, x)
    <2>1. h.s.sent \in {"GEX_REQUEST", "GEX_REQUEST_OLD"} /\ SameChannels(h.s, q.s)
          /\ h.s.queue = q.s.queue /\ h.out = Append(o, y)
      BY <1>18 DEF Rekeys
    <2>2. x \in ClientPackets /\ x.code = "KEXINIT" /\ y \in ClientPackets
          /\ y.code \in {"GEX_REQUEST", "GEX_REQUEST_OLD"}
      BY <1>2, <2>1, PacketsTyped DEF ClientCodes, Packet, Plain
    <2> HIDE DEF x, y
    <2>3. o \in Seq(ClientPackets) /\ Writes(n, o, t)
      <3>1. Append(q.out, x) \in Seq(ClientPackets) /\ Writes(n, Append(q.out, x), t)
        BY <1>2, <1>6, <1>10, <2>2 DEF Tokens
      <3> QED
        BY <1>2, <1>6, <3>1
    <2> HIDE DEF o
    <2>4. Writes(n, Append(o, y), t)
      BY <1>10, <2>2, <2>3 DEF Tokens
    <2> QED
      BY <1>9, <2>1, <2>4
  <1>19. CASE p.code = "NEWKEYS" /\ TakesKeys(h, q)
    <2> DEFINE x == Plain("NEWKEYS")
               y == Plain("SERVICE_REQUEST")
               o == Append(q.out, x)
               w == IF q.s.kex THEN o \o q.s.queue ELSE o
    <2>1. /\ h.s.queue = (IF q.s.kex THEN <<>> ELSE q.s.queue) /\ SameChannels(h.s, q.s)
          /\ h.out = w \/ h.out = Append(w, y)
      BY <1>19 DEF TakesKeys, Keyed
    <2>2. x \in ClientPackets /\ x.code = "NEWKEYS" /\ y \in ClientPackets /\ y.code = "SERVICE_REQUEST"
      BY <1>2, PacketsTyped DEF ClientCodes, Packet, Plain
    <2> HIDE DEF x, y
    <2>3. o \in Seq(ClientPackets) /\ Writes(n, o, t)
      BY <1>2, <1>6, <1>10, <2>2 DEF Tokens
    <2> HIDE DEF o
    <2>4. w \in Seq(ClientPackets) /\ Writes(n, w, t)
      <3>1. o \o q.s.queue \in Seq(ClientPackets) /\ Writes(n, o \o q.s.queue, t)
        BY <1>2, <1>4, <2>3, WritesJoins
      <3> QED
        BY <2>3, <3>1
    <2> HIDE DEF w
    <2>5. Writes(n, Append(w, y), t)
      BY <1>10, <2>2, <2>4 DEF Tokens
    <2>6. Waiting(<<>>) /\ NoReply(<<>>)
      BY NothingYet DEF NoReply
    <2>7. Settled(h.s)
      BY <1>4, <2>1, <2>6 DEF Settled
    <2>8. Writes(n, h.out, t)
      BY <2>1, <2>4, <2>5
    <2> QED
      BY <1>7, <1>8, <2>1, <2>7, <2>8 DEF SameChannels
  <1>20. CASE Fails(h, q)
    BY <1>8, <1>20 DEF Fails, SameMain
  <1> QED
    BY <1>1, <1>12, <1>13, <1>14, <1>15, <1>16, <1>17, <1>18, <1>19, <1>20 DEF Outcomes

\* A chunk of the host.
LEMMA ChunkTokens ==
  ASSUME NEW s \in Session, NEW st \in Seq(HostUnits), NEW n \in 1 .. Len(st),
         Whole(s.incomplete \o st), Ended(s.incomplete \o st),
         NEW nt \in Seq(ClientPackets), NEW held, NEW authed \in BOOLEAN, Home(s),
         Turns(s, CodesIn(s.incomplete \o st), held, CodesOut(nt), authed), NoReply(nt), Settled(s)
  PROVE  LET f == processEncryptedData(s, SubSeq(st, 1, n))
             u == f.s.incomplete \o SubSeq(st, n + 1, Len(st)) IN
         Home(f.s) /\ (~f.error => Ready(f, u, held, nt, authed))
PROOF
  <1> DEFINE channel == CurrentChannel(s)
             j == Joined(s, SubSeq(st, 1, n))
             full == s.incomplete \o st
             Fine(q, u) == Home(q.s) /\ (~q.error => Ready(q, u, held, nt, authed))
             P == {g \in Results \X Seq(HostUnits) : Fine(g[1], g[2])}
  <1>1. full \in Seq(HostUnits) /\ SubSeq(st, 1, n) \in Seq(HostUnits)
    <2>1. s.incomplete \in Seq(HostUnits)
      BY DEF Session
    <2> QED
      BY <2>1
  <1>2. /\ j \in Results /\ SameMain(j.s, s) /\ j.error = FALSE
        /\ j.out \in {<<>>, <<Packet("WINDOW_ADJUST", 0, 0)>>}
    BY <1>1, JoinedFacts DEF Kept
  <1>3. channel = 1
    BY DEF Home, CurrentChannel
  <1> HIDE DEF channel, j
  <1>4. ASSUME NEW q \in Results, NEW t \in Session, SameMain(t, q.s), NEW u, Fine(q, u)
        PROVE  LET r == [q EXCEPT !.s = t] IN r \in Results /\ r.s = t /\ r.error = q.error /\ Fine(r, u)
    <2> DEFINE r == [q EXCEPT !.s = t]
    <2>1. r \in Results /\ r.s = t /\ r.error = q.error /\ r.out = q.out
      BY DEF Results
    <2> HIDE DEF r
    <2>2. t.primary = q.s.primary /\ t.highest = q.s.highest /\ t.channels = q.s.channels /\ t.queue = q.s.queue
      BY <1>4 DEF SameMain, SameKeys, SameChannels
    <2>3. Primary(t) = Primary(q.s) /\ Home(t)
      <3>1. q.s \in Session
        BY DEF Results
      <3>2. t.exists = TRUE /\ q.s.exists = TRUE
        BY <3>1, SessionFacts
      <3> QED
        BY <1>4, <2>2, <3>2 DEF Primary, Home, HasChannel
    <2>4. Ready(q, u, held, nt, authed) => Ready(r, u, held, nt, authed)
      BY <2>1, <2>2, <2>3 DEF Ready, Turns, Settled
    <2> QED
      BY <1>4, <2>1, <2>3, <2>4 DEF r
  <1>5. <<j, full>> \in P
    <2> DEFINE w == Packet("WINDOW_ADJUST", 0, 0)
               c == CodesOut(nt)
               t == Tok(c)
    <2>1. w \in ClientPackets /\ w.code = "WINDOW_ADJUST"
      BY PacketsTyped DEF ClientCodes, Values, Packet
    <2> HIDE DEF w
    <2>2. nt \o <<>> = nt /\ <<>> \in Seq(ClientPackets) /\ Append(<<>>, w) = <<w>>
      OBVIOUS
    <2>3. Single(c) /\ t \in BOOLEAN
      BY DEF Turns, Lone, Tok
    <2> HIDE DEF c
    <2>4. Writes(nt, <<>>, t)
      BY <2>2, <2>3 DEF Writes, c
    <2>5. Writes(nt, Append(<<>>, w), t \/ w.code \in Tokens)
      <3>1. w.code \notin Tokens /\ w.code # "CHANNEL_REQUEST"
        BY <2>1 DEF Tokens
      <3> HIDE DEF t
      <3> QED
        BY <2>1, <2>2, <2>3, <2>4, <3>1, WritesAppend
    <2>6. (t \/ w.code \in Tokens) = t
      BY <2>1, <2>3 DEF Tokens
    <2>7. Writes(nt, j.out, t)
      BY <1>2, <2>2, <2>4, <2>5, <2>6 DEF w
    <2>8. j.s.primary = s.primary /\ j.s.highest = s.highest /\ j.s.channels = s.channels /\ j.s.queue = s.queue
      BY <1>2 DEF SameMain, SameKeys, SameChannels
    <2>9. Primary(j.s) = Primary(s) /\ Home(j.s)
      <3>1. j.s \in Session
        BY <1>2 DEF Results
      <3>2. j.s.exists = TRUE /\ s.exists = TRUE
        BY <3>1, SessionFacts
      <3> QED
        BY <2>8, <3>2 DEF Primary, Home, HasChannel
    <2> DEFINE d == CodesOut(nt \o j.out)
    <2>10. Single(d) /\ (Tok(d) => t) /\ NoReply(nt \o j.out)
      BY <2>7 DEF Writes
    <2> HIDE DEF d
    <2>11. Turns(j.s, CodesIn(full), held, d, authed)
      BY <2>9, <2>10 DEF Turns, Lone, t, c
    <2>12. Fine(j, full)
      BY <2>8, <2>9, <2>10, <2>11 DEF Ready, Settled, d
    <2> QED
      BY <1>1, <1>2, <2>12
  <1>6. \A q \in Results, u \in Seq(HostUnits) : <<q, u>> \in P <=> Fine(q, u)
    OBVIOUS
  <1>7. P \subseteq Results \X Seq(HostUnits)
    OBVIOUS
  <1> HIDE DEF P
  <1>8. ASSUME NEW q \in Results, NEW u \in Seq(HostUnits), NEW t \in Session, <<q, u>> \in P, ~q.error
        PROVE  /\ Kept(t, q.s) => <<[q EXCEPT !.s = t], u>> \in P
               /\ Kept(t, q.s) /\ q.s.encrypted /\ u # <<>> /\ u[1].k # 1 => <<Fail([q EXCEPT !.s = t]), u>> \in P
               /\ \A d \in {1, 2} :
                    /\ d <= Len(u) /\ u[1].k = 1 /\ Counts(t, q.s, u[1].p) /\ Whole(u) /\ Ended(u)
                    /\ d = 2 => u[2] = [p |-> u[1].p, k |-> 2]
                    /\ q.s.encrypted => d = u[1].p.len
                    => <<Handle([q EXCEPT !.s = t], u[1].p, channel), SubSeq(u, d + 1, Len(u))>> \in P
    <2> DEFINE r == [q EXCEPT !.s = t]
    <2>1. Fine(q, u)
      BY <1>6, <1>8
    <2> HIDE DEF Fine
    <2>2. SameMain(t, q.s) => r \in Results /\ r.s = t /\ r.error = q.error /\ Fine(r, u)
      BY <1>4, <2>1
    <2> HIDE DEF r
    <2>3. Kept(t, q.s) => <<r, u>> \in P
      BY <1>6, <1>8, <2>2 DEF Kept
    <2>4. Kept(t, q.s) => <<Fail(r), u>> \in P
      <3> SUFFICES ASSUME Kept(t, q.s) PROVE <<Fail(r), u>> \in P
        OBVIOUS
      <3>1. r \in Results /\ Fine(r, u)
        BY <2>2 DEF Kept
      <3>2. Fail(r) \in Results /\ Fail(r).error = TRUE /\ Fail(r).s = r.s
        BY <3>1, FailIs
      <3>3. Fine(Fail(r), u)
        BY <3>1, <3>2 DEF Fine
      <3> QED
        BY <1>6, <3>2, <3>3
    <2>5. ASSUME NEW d \in {1, 2}, d <= Len(u), u[1].k = 1, Counts(t, q.s, u[1].p)
          PROVE  <<Handle(r, u[1].p, channel), SubSeq(u, d + 1, Len(u))>> \in P
      <3> DEFINE p == u[1].p
                 h == Handle(r, p, 1)
                 v == SubSeq(u, d + 1, Len(u))
      <3>1. u[1] \in HostUnits
        BY <2>5
      <3>2. p \in HostPackets /\ v \in Seq(HostUnits)
        <4>1. p \in HostPackets
          BY <3>1 DEF HostUnits
        <4>2. v \in Seq(HostUnits)
          BY <2>5
        <4> QED
          BY <4>1, <4>2
      <3>3. r \in Results /\ Fine(r, u) /\ ~r.error
        BY <1>8, <2>2, <2>5 DEF Counts
      <3> HIDE DEF p, v
      <3>4. h \in Results
        <4>1. 1 \in Nat
          OBVIOUS
        <4> QED
          BY <3>2, <3>3, <4>1, HandleTyped
      <3>5. Home(r.s) /\ Ready(r, u, held, nt, authed)
        BY <3>3 DEF Fine
      <3>6. Home(h.s) /\ (~h.error => Ready(h, v, held, nt, authed))
        BY <2>5, <3>2, <3>3, <3>5, HandleTokens DEF p, v
      <3>7. Fine(h, v)
        BY <3>6 DEF Fine
      <3> QED
        BY <1>3, <1>6, <3>2, <3>4, <3>7 DEF p, v
    <2> QED
      BY <2>3, <2>4, <2>5 DEF r
  <1>9. Packets(P, channel)
    BY <1>7, <1>8, ZenonT(60) DEF Packets
  <1>10. PICK u \in Seq(HostUnits) :
          LET f == processEncryptedData(s, SubSeq(st, 1, n)) IN
           /\ <<f, u>> \in P /\ Whole(u) /\ Ended(u)
           /\ ~f.error => f.s.incomplete \o SubSeq(st, n + 1, Len(st)) = u
    BY <1>5, <1>9, PacketRule DEF channel, j
  <1>11. processEncryptedData(s, SubSeq(st, 1, n)) \in Results
    BY <1>1, ProcessIs
  <1> QED
    BY <1>6, <1>10, <1>11

\* All that is under way takes its turn, and the keystrokes have their channel.
InTurn(s, st, nt, sv) ==
  /\ Turns(s, CodesIn(KeptBack(s) \o st), CodesOut(sv.held), CodesOut(nt), sv.authed)
  /\ NoReply(nt) /\ (s.exists => NoReply(s.queue))
TokenInv == Live /\ ~seen.extra => InTurn(ssh, stream, net, srv)
Shell == ssh.exists /\ ~seen.extra => Home(ssh)

LEMMA HeardInTurn ==
  ASSUME Good, NEW n \in 1 .. Len(stream), InStep(ssh, stream, net, srv),
         InTurn(ssh, stream, net, srv), ssh.exists => Home(ssh)
  PROVE  LET r == processEncryptedData(ssh, SubSeq(stream, 1, n)) IN
         Home(r.s) /\ (~r.error => InTurn(r.s, SubSeq(stream, n + 1, Len(stream)), net \o r.out, srv))
PROOF
  <1> DEFINE chunk == SubSeq(stream, 1, n)
             r == processEncryptedData(ssh, chunk)
             after == SubSeq(stream, n + 1, Len(stream))
             held == CodesOut(srv.held)
  <1>1. /\ net \in Seq(ClientPackets) /\ stream \in Seq(HostUnits) /\ srv \in Servers /\ IsSsh(ssh)
        /\ srv.authed \in BOOLEAN
    BY DEF Good, Typed, Servers
  <1>2. CASE ssh = NoSession
    <2> DEFINE p == Plain("VERSION")
               c == CodesIn(stream)
               t == Tok(CodesOut(net))
    <2>1. r.s = NewSession /\ r.out = <<p>>
      BY <1>2, FirstChunk
    <2> HIDE DEF r
    <2>2. /\ NewSession.primary = 0 /\ NewSession.highest = 1 /\ NewSession.queue = <<>>
          /\ NewSession.incomplete = <<>> /\ NewSession.exists = TRUE
      BY DEF NewSession
    <2>3. KeptBack(NewSession) = <<>> /\ KeptBack(ssh) \o stream = stream /\ Primary(NewSession) = 0
      BY <1>1, <1>2, <2>2, SessionFacts DEF KeptBack, Primary
    <2>4. p \in ClientPackets /\ p.code = "VERSION"
      BY PacketsTyped DEF ClientCodes, Values, Packet, Plain
    <2> HIDE DEF p
    <2>5. /\ Lone(c, held, CodesOut(net)) /\ (Tok(c) \/ Tok(held) \/ t => srv.authed) /\ NoReply(net)
      BY <2>3 DEF InTurn, Turns
    <2>6. t \in BOOLEAN
      BY DEF Tok
    <2>7. Writes(net, <<p>>, t)
      <3>1. net \o <<>> = net /\ <<>> \in Seq(ClientPackets) /\ Append(<<>>, p) = <<p>>
        BY <1>1
      <3>2. Writes(net, <<>>, t)
        BY <2>5, <3>1 DEF Writes, Lone
      <3> HIDE DEF t
      <3>3. Writes(net, Append(<<>>, p), t \/ p.code \in Tokens)
        <4>1. p.code \notin Tokens /\ p.code # "CHANNEL_REQUEST"
          BY <2>4 DEF Tokens
        <4> QED
          BY <1>1, <2>4, <2>6, <3>1, <3>2, <4>1, WritesAppend
      <3>4. (t \/ p.code \in Tokens) = t
        BY <2>4, <2>6 DEF Tokens
      <3> QED
        BY <3>1, <3>3, <3>4
    <2>8. after \in Seq(HostUnits) /\ Single(CodesIn(after)) /\ (Tok(CodesIn(after)) => Tok(c))
      <3>1. n + 1 \in 1 .. Len(stream) + 1 /\ n \in 0 .. Len(stream)
        BY <1>1
      <3>2. c \in Seq(AllCodes) /\ Len(c) = Len(stream) /\ CodesIn(after) = SubSeq(c, n + 1, Len(stream))
        BY <1>1, <3>1, CodesInFacts
      <3>3. Single(c)
        BY <2>5 DEF Lone
      <3>4. after \in Seq(HostUnits)
        BY <1>1
      <3> HIDE DEF c, after
      <3>5. LET f == SubSeq(c, n + 1, Len(c)) IN
            /\ f \in Seq(AllCodes) /\ Single(f) /\ (Tok(f) => Tok(c))
            /\ \A i \in 1 .. n : c[i] \in Tokens => ~Tok(f) /\ Tok(c)
        BY <3>1, <3>2, <3>3, TokRest
      <3> QED
        BY <3>2, <3>4, <3>5
    <2>9. KeptBack(NewSession) \o after = after
      BY <2>3, <2>8
    <2> DEFINE d == CodesIn(after)
               e == CodesOut(net \o r.out)
    <2>10. Single(e) /\ (Tok(e) => t) /\ NoReply(net \o r.out)
      BY <2>1, <2>7 DEF Writes
    <2> HIDE DEF c, d, e, t, held, after
    <2>11. Lone(d, held, e) /\ (Tok(d) \/ Tok(held) \/ Tok(e) => srv.authed)
      BY <2>5, <2>8, <2>10 DEF Lone, d, t
    <2>12. Turns(NewSession, d, held, e, srv.authed)
      BY <2>3, <2>11 DEF Turns
    <2>13. NoReply(<<>>)
      BY NothingYet DEF NoReply
    <2>14. InTurn(r.s, after, net \o r.out, srv)
      BY <2>1, <2>2, <2>9, <2>10, <2>12, <2>13 DEF InTurn, d, e, held
    <2>15. Home(r.s)
      BY <2>1, <2>2 DEF Home
    <2> QED
      BY <2>14, <2>15 DEF r, after
  <1>3. CASE ssh \in Session
    <2> DEFINE u == r.s.incomplete \o after
    <2>1. KeptBack(ssh) = ssh.incomplete /\ ssh.exists = TRUE
      BY <1>3, SessionFacts
    <2>2. /\ Whole(ssh.incomplete \o stream) /\ Ended(ssh.incomplete \o stream)
          /\ Waiting(ssh.queue) /\ NoReply(ssh.queue) /\ NoReply(net) /\ Home(ssh)
          /\ Turns(ssh, CodesIn(ssh.incomplete \o stream), held, CodesOut(net), srv.authed)
      BY <2>1 DEF InStep, HostSide, InTurn
    <2>3. Home(r.s) /\ (~r.error => Ready(r, u, held, net, srv.authed))
      BY <1>1, <1>3, <2>2, ChunkTokens DEF Settled
    <2>4. r \in Results
      <3>1. chunk \in Seq(HostUnits)
        BY <1>1
      <3> QED
        BY <1>3, <3>1, ProcessIs
    <2>5. r.s \in Session /\ KeptBack(r.s) = r.s.incomplete
      <3>1. r.s \in Session
        BY <2>4 DEF Results
      <3> HIDE DEF r
      <3> QED
        BY <3>1, SessionFacts
    <2> HIDE DEF r, after
    <2>6. ~r.error => InTurn(r.s, after, net \o r.out, srv)
      BY <2>3, <2>5 DEF Ready, InTurn, Settled
    <2> QED
      BY <2>3, <2>6 DEF r, after
  <1> QED
    BY <1>1, <1>2, <1>3 DEF IsSsh

\* What the user sends is no token, and asks for no reply.
LEMMA UserInTurn ==
  ASSUME NEW s \in Session, NEW code \in UserCodes, NEW x \in Values, NEW st, NEW sv,
         NEW nt \in Seq(ClientPackets), InTurn(s, st, nt, sv), Waiting(s.queue),
         code = "CHANNEL_REQUEST" => x # 1
  PROVE  LET r == sendSSHData(s, code, x) IN InTurn(r.s, st, nt \o r.out, sv)
PROOF
  <1> DEFINE r == sendSSHData(s, code, x)
             t == Tok(CodesOut(nt))
             u == CodesIn(KeptBack(s) \o st)
             held == CodesOut(sv.held)
  <1>1. /\ r \in Results /\ SameReading(r.s, s) /\ SameChannels(r.s, s)
        /\ \/ r.out = <<>> /\ r.s = s
           \/ \E p \in ClientPackets :
                /\ p.code = code /\ p.x = x
                /\ IF s.kex THEN r.out = <<>> /\ r.s.queue = Append(s.queue, p)
                   ELSE r.out = Append(s.queue, p) /\ r.s.queue = <<>>
    <2>1. /\ r \in Results /\ r.msgs = <<>> /\ r.error = FALSE /\ SameReading(r.s, s)
          /\ SameKeys(r.s, s) /\ SameChannels(r.s, s) /\ r.s.expected = s.expected
          /\ r.s.authenticated = s.authenticated /\ r.s.window = s.window
          /\ \/ /\ code \in {"CHANNEL_DATA", "CHANNEL_REQUEST"} /\ ~HasChannel(s, s.primary)
                /\ r.out = <<>> /\ r.s = s
             \/ \E p \in ClientPackets :
                  /\ p.code = code /\ p.x = x
                  /\ code \in {"CHANNEL_DATA", "CHANNEL_REQUEST"} => HasChannel(s, s.primary)
                  /\ IF s.kex THEN r.out = <<>> /\ r.s.queue = Append(s.queue, p)
                     ELSE r.out = Append(s.queue, p) /\ r.s.queue = <<>>
      BY SendIsOne
    <2> HIDE DEF r
    <2> QED
      BY <2>1
  <1> HIDE DEF r
  <1>2. r.s \in Session /\ s.queue \in Seq(ClientPackets) /\ s.kex \in BOOLEAN
    BY <1>1 DEF Results, Session
  <1>3. /\ s.exists = TRUE /\ r.s.exists = TRUE
        /\ KeptBack(r.s) = KeptBack(s) /\ Primary(r.s) = Primary(s)
    BY <1>1, <1>2, SessionFacts DEF SameReading, SameChannels, Primary
  <1>4. /\ Turns(s, u, held, CodesOut(nt), sv.authed) /\ NoReply(nt) /\ NoReply(s.queue) /\ Waiting(s.queue)
    BY <1>3 DEF InTurn
  <1>5. t \in BOOLEAN /\ Writes(nt, <<>>, t)
    <2>1. nt \o <<>> = nt
      OBVIOUS
    <2> QED
      BY <1>4, <2>1 DEF Writes, Turns, Lone, Tok
  <1> HIDE DEF t, u, held
  <1>6. NoReply(r.s.queue) /\ Writes(nt, r.out, t)
    <2>1. CASE r.out = <<>> /\ r.s = s
      BY <1>4, <1>5, <2>1
    <2>2. ASSUME NEW p \in ClientPackets, p.code = code, p.x = x,
                 IF s.kex THEN r.out = <<>> /\ r.s.queue = Append(s.queue, p)
                 ELSE r.out = Append(s.queue, p) /\ r.s.queue = <<>>
          PROVE  NoReply(r.s.queue) /\ Writes(nt, r.out, t)
      <3>0. p.code \notin Tokens /\ (p.code = "CHANNEL_REQUEST" => p.x # 1) /\ NoReply(<<>>)
        BY <2>2 DEF UserCodes, Tokens, NoReply
      <3>1. CASE s.kex
        <4>1. /\ r.s.queue = Append(s.queue, p) /\ r.out = <<>>
          BY <1>2, <2>2, <3>1
        <4>2. Append(s.queue, p) = s.queue \o <<p>> /\ <<p>> \in Seq(ClientPackets)
          BY <1>2
        <4>3. NoReply(<<p>>)
          BY <3>0 DEF NoReply
        <4>4. NoReply(Append(s.queue, p))
          BY <1>2, <1>4, <4>2, <4>3, NoReplyAdd
        <4> QED
          BY <1>5, <4>1, <4>4
      <3>2. CASE ~s.kex
        <4>1. r.s.queue = <<>> /\ r.out = Append(s.queue, p)
          BY <1>2, <2>2, <3>2
        <4>2. <<>> \o s.queue = s.queue /\ <<>> \in Seq(ClientPackets)
          BY <1>2
        <4>3. Writes(nt, <<>> \o s.queue, t)
          BY <1>2, <1>4, <1>5, <4>2, WritesJoins
        <4>4. Writes(nt, s.queue, t)
          BY <4>2, <4>3
        <4>5. Writes(nt, Append(s.queue, p), t \/ p.code \in Tokens)
          BY <1>2, <1>5, <2>2, <3>0, <4>4, WritesAppend
        <4>6. (t \/ p.code \in Tokens) = t
          BY <1>5, <3>0
        <4> QED
          BY <3>0, <4>1, <4>5, <4>6
      <3> QED
        BY <3>1, <3>2
    <2> QED
      BY <1>1, <2>1, <2>2
  <1> DEFINE n == CodesOut(nt \o r.out)
  <1>7. Single(n) /\ (Tok(n) => t) /\ NoReply(nt \o r.out)
    BY <1>6 DEF Writes
  <1> HIDE DEF n
  <1>8. Turns(r.s, u, held, n, sv.authed)
    BY <1>3, <1>4, <1>7 DEF Turns, Lone, t
  <1>9. InTurn(r.s, st, nt \o r.out, sv)
    BY <1>3, <1>6, <1>7, <1>8 DEF InTurn, u, held, n
  <1> QED
    BY <1>9 DEF r

LEMMA SendKeepsHome ==
  ASSUME NEW s \in Session, NEW code \in UserCodes, NEW x \in Values, Home(s)
  PROVE  Home(sendSSHData(s, code, x).s)
PROOF
  <1> DEFINE r == sendSSHData(s, code, x)
  <1>1. SameChannels(r.s, s)
    BY SendIsOne
  <1> HIDE DEF r
  <1>2. Home(r.s)
    BY <1>1 DEF SameChannels, Home, HasChannel
  <1> QED
    BY <1>2 DEF r

\* The host answers, or speaks by itself; a token it sends is the only one.
LEMMA SpeaksInTurn ==
  ASSUME Good, NEW sv \in Servers, sv.held = srv.held, srv.authed => sv.authed,
         NEW nt, NEW codes, NEW token \in BOOLEAN,
         \/ codes = <<>>
         \/ \E a \in Commands : codes = <<a>> /\ (a.code \in Tokens => token)
         \/ \E a, b \in Commands : codes = <<a, b>> /\ a.code \notin Tokens /\ b.code \notin Tokens,
         InTurn(ssh, stream, net, srv), NoReply(nt), Single(CodesOut(nt)),
         Tok(CodesOut(nt)) => Tok(CodesOut(net)),
         token => /\ ~Tok(CodesIn(KeptBack(ssh) \o stream)) /\ ~Tok(CodesOut(srv.held))
                  /\ ~Tok(CodesOut(nt)) /\ sv.authed /\ Primary(ssh) = 0
  PROVE  LET e == Emit(sv, stream, codes) IN InTurn(ssh, e.stream, nt, e.srv)
PROOF
  <1> DEFINE e == Emit(sv, stream, codes)
             inc == KeptBack(ssh)
             u == CodesIn(inc \o stream)
             h == CodesOut(srv.held)
             n == CodesOut(nt)
             m == CodesOut(net)
             u1 == CodesIn(inc \o e.stream)
             h1 == CodesOut(e.srv.held)
  <1>1. stream \in Seq(HostUnits) /\ IsSsh(ssh) /\ srv \in Servers
    BY DEF Good, Typed
  <1>2. inc \in Seq(HostUnits)
    BY <1>1, SessionFacts DEF IsSsh
  <1>3. Turns(ssh, u, h, m, srv.authed) /\ (ssh.exists => NoReply(ssh.queue))
    BY DEF InTurn
  <1>4. Paired(u, h)
    BY <1>3 DEF Turns, Lone, Paired
  <1> HIDE DEF inc
  <1>5. SameServer(e.srv, sv)
    BY <1>1, EmitKeeps
  <1>6. Paired(u1, h1) /\ (Tok(u1) \/ Tok(h1) => Tok(u) \/ Tok(h) \/ token)
    <2>1. CodesOut(sv.held) = h /\ Paired(CodesIn(inc \o stream), CodesOut(sv.held))
          /\ (token => ~Tok(CodesIn(inc \o stream)) /\ ~Tok(CodesOut(sv.held)))
      BY <1>4 DEF inc
    <2> QED
      BY <1>1, <1>2, <2>1, EmitTokens
  <1>7. Single(n) /\ (Tok(n) => Tok(m)) /\ (token => ~Tok(u) /\ ~Tok(h) /\ ~Tok(n) /\ sv.authed /\ Primary(ssh) = 0)
        /\ e.srv.authed = sv.authed
    BY <1>5 DEF SameServer, inc
  <1> HIDE DEF e, u, h, n, m, u1, h1
  <1>8. Lone(u1, h1, n)
    BY <1>3, <1>6, <1>7 DEF Turns, Lone, Paired
  <1>9. Turns(ssh, u1, h1, n, e.srv.authed)
    BY <1>3, <1>6, <1>7, <1>8 DEF Turns
  <1>10. InTurn(ssh, e.stream, nt, e.srv)
    BY <1>3, <1>9 DEF InTurn, u1, h1, n, inc
  <1> QED
    BY <1>10 DEF e

\* Which answers are tokens.
LEMMA AnswerTokens ==
  ASSUME Typed, NEW p, NEW codes \in Answers(p)
  PROVE  \/ codes = <<>>
         \/ \E a \in Commands : codes = <<a>> /\ a.code \notin Tokens
         \/ \E a, b \in Commands : codes = <<a, b>> /\ a.code \notin Tokens /\ b.code \notin Tokens
         \/ /\ codes = Login /\ ~srv.authed
         \/ /\ \E a \in Commands : codes = <<a>>
            /\ \/ p.code \in {"CHANNEL_OPEN", "pty-req", "shell"}
               \/ p.code = "CHANNEL_REQUEST" /\ p.x = 1
PROOF
  <1>1. srv.method \in Values
    BY DEF Typed, Servers, Values
  <1> DEFINE k == [code |-> "KEXINIT", x |-> srv.method]
  <1>2. k \in Commands /\ k.code = "KEXINIT"
    BY <1>1, CodeTyped DEF HostCodes
  <1>3. \A code \in HostCodes : Code(code) \in Commands /\ Code(code).code = code
    BY CodeTyped DEF Code
  <1> DEFINE Plainly == {"GEX_GROUP", "GEX_REPLY", "NEWKEYS", "SERVICE_ACCEPT", "USERAUTH_FAILURE", "USERAUTH_INFO_REQUEST"}
  <1>4. \/ codes = <<>> \/ codes = <<k>>
        \/ \E c \in Plainly : codes = <<Code(c)>>
        \/ \E c, d \in Plainly : codes = <<Code(c), Code(d)>>
        \/ codes = Login /\ ~srv.authed
        \/ /\ codes = <<Code("OPEN_CONFIRMATION")>> \/ codes = <<Code("CHANNEL_SUCCESS")>>
           /\ \/ p.code \in {"CHANNEL_OPEN", "pty-req", "shell"}
              \/ p.code = "CHANNEL_REQUEST" /\ p.x = 1
    BY DEF Answers, Login
  <1>5. /\ Plainly \subseteq HostCodes /\ "OPEN_CONFIRMATION" \in HostCodes /\ "CHANNEL_SUCCESS" \in HostCodes
        /\ \A c \in Plainly : c \notin Tokens
        /\ "KEXINIT" \notin Tokens
    BY DEF HostCodes, Tokens
  <1> HIDE DEF k, Plainly
  <1> QED
    BY <1>2, <1>3, <1>4, <1>5

LEMMA BeginsInTurn ==
  ASSUME Good, Begins
  PROVE  InTurn(ssh', stream', net', srv')
PROOF
  <1>1. ssh' = NoSession /\ net' = <<>> /\ srv = FreshServer
    BY DEF Begins, Untouched
  <1>2. PICK eager \in BOOLEAN, method \in {"gex", "old"} :
          LET first == [id |-> 0, code |-> "VERSION", x |-> method, len |-> 1]
          IN  /\ stream' = Units(first) \o
                   IF eager THEN Units(ServerPacket(srv, "KEXINIT", method)) ELSE <<>>
              /\ srv' = [srv EXCEPT !.kex = eager, !.sent = IF eager THEN 1 ELSE 0, !.method = method]
    BY DEF Begins
  <1> DEFINE first == [id |-> 0, code |-> "VERSION", x |-> method, len |-> 1]
             next == ServerPacket(srv, "KEXINIT", method)
             after == IF eager THEN Units(next) ELSE <<>>
             sv == [srv EXCEPT !.kex = eager, !.sent = IF eager THEN 1 ELSE 0, !.method = method]
  <1>3. first \in HostPackets /\ first.code \notin Tokens
    BY DEF HostPackets, HostCodes, Values, Tokens
  <1>4. next \in HostPackets /\ next.code \notin Tokens
    <2>1. srv \in Servers
      BY DEF Good, Typed
    <2>2. "KEXINIT" \in HostCodes /\ method \in Values
      BY DEF HostCodes, Values
    <2>3. next \in HostPackets /\ next.code = "KEXINIT"
      BY <2>1, <2>2, ServerPacketTyped
    <2> QED
      BY <2>3 DEF Tokens
  <1>5. stream' = Units(first) \o after /\ srv' = sv
    BY <1>2
  <1>6. sv.held = <<>>
    BY <1>1 DEF FreshServer
  <1> HIDE DEF first, next, sv
  <1> DEFINE f == Units(first)
             g == Units(next)
  <1>7. /\ f \in Seq(HostUnits) /\ g \in Seq(HostUnits) /\ <<>> \in Seq(HostUnits)
        /\ \A u \in Seq(HostUnits) : <<>> \o u = u /\ u \o <<>> = u
    <2>1. Units(first) \in Seq(HostUnits) /\ Units(next) \in Seq(HostUnits)
      BY <1>3, <1>4, UnitsFacts
    <2> QED
      BY <2>1
  <1>8. Single(CodesIn(f)) /\ ~Tok(CodesIn(f))
    <2>1. <<>> \o <<>> = <<>> /\ <<>> \o (<<>> \o Units(first)) = f
      BY <1>7
    <2>2. Single(CodesIn(<<>> \o <<>>)) /\ ~Tok(CodesIn(<<>> \o <<>>))
      BY <2>1, NothingYet, NoTok
    <2>3. LET v == CodesIn(<<>> \o (<<>> \o Units(first))) IN
          Single(v) /\ (Tok(v) <=> Tok(CodesIn(<<>> \o <<>>)) \/ first.code \in Tokens)
      BY <1>3, <1>7, <2>2, TokUnits
    <2> QED
      BY <1>3, <2>1, <2>2, <2>3
  <1>9. Single(CodesIn(f \o g)) /\ ~Tok(CodesIn(f \o g))
    <2> HIDE DEF f
    <2>1. <<>> \o f = f /\ <<>> \o (f \o Units(next)) = f \o g
      BY <1>7
    <2>2. Single(CodesIn(<<>> \o f)) /\ ~Tok(CodesIn(<<>> \o f))
      BY <1>8, <2>1
    <2>3. LET v == CodesIn(<<>> \o (f \o Units(next))) IN
          Single(v) /\ (Tok(v) <=> Tok(CodesIn(<<>> \o f)) \/ next.code \in Tokens)
      BY <1>4, <1>7, <2>2, TokUnits
    <2> QED
      BY <1>4, <2>1, <2>2, <2>3
  <1>10. Single(CodesIn(stream')) /\ ~Tok(CodesIn(stream')) /\ stream' \in Seq(HostUnits)
    <2>1. CASE eager
      <3>1. stream' = f \o g
        BY <1>5, <2>1
      <3>2. f \o g \in Seq(HostUnits)
        BY <1>7
      <3> HIDE DEF f, g
      <3> QED
        BY <1>9, <3>1, <3>2
    <2>2. CASE ~eager
      <3>1. stream' = f
        BY <1>5, <1>7, <2>2
      <3> HIDE DEF f, g
      <3> QED
        BY <1>7, <1>8, <3>1
    <2> QED
      BY <2>1, <2>2
  <1>11. KeptBack(NoSession) \o stream' = stream' /\ NoSession.exists = FALSE /\ Primary(NoSession) = 0
    BY <1>7, <1>10, SessionFacts DEF Primary
  <1> DEFINE u == CodesIn(stream')
  <1>12. CodesOut(<<>>) = <<>> /\ NoReply(<<>>)
    BY NothingYet DEF NoReply
  <1>13. Turns(NoSession, u, <<>>, <<>>, sv.authed)
    <2>1. Single(u) /\ ~Tok(u)
      BY <1>10
    <2> HIDE DEF u
    <2> QED
      BY <1>11, <2>1, NoTok DEF Turns, Lone
  <1>14. InTurn(NoSession, stream', <<>>, sv)
    BY <1>6, <1>11, <1>12, <1>13 DEF InTurn
  <1> QED
    BY <1>1, <1>5, <1>14

LEMMA ReadsInTurn ==
  ASSUME Good, serverReads, InTurn(ssh, stream, net, srv)
  PROVE  InTurn(ssh', stream', net', srv')
PROOF
  <1> DEFINE p == Head(net)
             read == ReadBy(p)
             u == CodesIn(KeptBack(ssh) \o stream)
             h == CodesOut(srv.held)
             c == CodesOut(net)
             nt == Tail(net)
  <1>0. Typed /\ net \in Seq(ClientPackets) /\ srv \in Servers /\ srv.authed \in BOOLEAN
    BY DEF Good, Typed, Servers
  <1>1. net # <<>> /\ p \in ClientPackets /\ net' = nt /\ ssh' = ssh
    BY <1>0, ServerReadsOutcome DEF client
  <1>2. PICK answer \in Answers(p) :
          LET e == Emit(Greets(read, answer), stream, answer) IN
          e \in Emissions /\ srv' = e.srv /\ stream' = e.stream
    BY <1>0, ServerReadsOutcome
  <1> DEFINE sv == Greets(read, answer)
             e == Emit(sv, stream, answer)
  <1>3. Len(net) \in Nat /\ 1 <= Len(net) /\ p = net[1] /\ 1 \in DOMAIN net
    BY <1>0, <1>1
  <1>4. /\ c \in Seq(AllCodes) /\ Len(c) = Len(net) /\ CodesOut(nt) = SubSeq(c, 2, Len(c)) /\ c[1] = p.code
    BY <1>0, <1>3, CodesOutFacts
  <1>5. NoReply(nt) /\ (p.code = "CHANNEL_REQUEST" => p.x # 1)
    <2>1. NoReply(net)
      BY DEF InTurn
    <2>2. DOMAIN nt = 1 .. Len(net) - 1 /\ \A i \in 1 .. Len(net) - 1 : nt[i] = net[i + 1] /\ i + 1 \in DOMAIN net
      BY <1>0, <1>1
    <2> HIDE DEF nt, p
    <2> QED
      BY <1>3, <2>1, <2>2 DEF NoReply
  <1>6. /\ read \in Servers /\ read.held = srv.held /\ read.authed = srv.authed
    BY <1>0, <1>1, ReadByFacts
  <1> HIDE DEF p, read, nt
  <1>7. sv \in Servers /\ sv.held = srv.held /\ sv.authed = (srv.authed \/ answer = Login)
    BY <1>6, GreetsFacts
  <1> HIDE DEF sv, u, h, c
  <1>8. /\ Lone(u, h, c) /\ (Tok(u) \/ Tok(h) \/ Tok(c) => srv.authed)
        /\ (Tok(u) \/ Tok(h) \/ Tok(c) \/ ~srv.authed => Primary(ssh) = 0)
    BY DEF InTurn, Turns, u, h, c
  <1> DEFINE n == CodesOut(nt)
  <1>9. Single(n) /\ (Tok(n) => Tok(c)) /\ (c[1] \in Tokens => ~Tok(n) /\ Tok(c))
    <2>1. 1 \in 0 .. Len(c) /\ 1 + 1 = 2 /\ 1 \in 1 .. 1
      BY <1>3, <1>4
    <2>2. LET f == SubSeq(c, 1 + 1, Len(c)) IN
          /\ f \in Seq(AllCodes) /\ Single(f) /\ (Tok(f) => Tok(c))
          /\ \A i \in 1 .. 1 : c[i] \in Tokens => ~Tok(f) /\ Tok(c)
      BY <1>4, <1>8, <2>1, TokRest DEF Lone
    <2> QED
      BY <1>4, <2>1, <2>2
  <1> HIDE DEF n, e
  <1> DEFINE token == \E a \in Commands : answer = <<a>> /\ a.code \in Tokens
  <1>10. \/ answer = <<>>
         \/ \E a \in Commands : answer = <<a>> /\ a.code \notin Tokens
         \/ \E a, b \in Commands : answer = <<a, b>> /\ a.code \notin Tokens /\ b.code \notin Tokens
         \/ answer = Login /\ ~srv.authed
         \/ /\ \E a \in Commands : answer = <<a>>
            /\ \/ p.code \in {"CHANNEL_OPEN", "pty-req", "shell"}
               \/ p.code = "CHANNEL_REQUEST" /\ p.x = 1
    BY <1>0, <1>2, AnswerTokens
  <1>11. Login \in {<<a>> : a \in Commands}
    <2>1. Code("USERAUTH_SUCCESS") \in Commands
      BY CodeTyped DEF HostCodes
    <2> QED
      BY <2>1 DEF Login
  <1>12. \/ answer = <<>>
         \/ \E a \in Commands : answer = <<a>> /\ (a.code \in Tokens => token)
         \/ \E a, b \in Commands : answer = <<a, b>> /\ a.code \notin Tokens /\ b.code \notin Tokens
    BY <1>10, <1>11
  <1>13. ASSUME token PROVE ~Tok(u) /\ ~Tok(h) /\ ~Tok(n) /\ sv.authed /\ Primary(ssh) = 0
    <2>1. PICK a \in Commands : answer = <<a>> /\ a.code \in Tokens
      BY <1>13
    <2>2. CASE answer = Login /\ ~srv.authed
      BY <1>7, <1>8, <1>9, <2>2
    <2>3. CASE p.code \in {"CHANNEL_OPEN", "pty-req", "shell"} \/ (p.code = "CHANNEL_REQUEST" /\ p.x = 1)
      <3>1. c[1] \in Tokens
        BY <1>4, <1>5, <2>3 DEF Tokens
      <3> QED
        BY <1>7, <1>8, <1>9, <3>1 DEF Lone
    <2>4. answer # <<>> /\ \A b \in Commands : answer = <<b>> => b = a
      BY <2>1
    <2>5. \A b, d \in Commands : answer # <<b, d>>
      <3>1. Len(answer) = 1
        BY <2>1
      <3> QED
        BY <3>1
    <2>6. ~\E b \in Commands : answer = <<b>> /\ b.code \notin Tokens
      BY <2>1, <2>4
    <2> HIDE DEF u, h, n, sv
    <2> QED
      BY <1>10, <2>2, <2>3, <2>4, <2>5, <2>6
  <1> HIDE DEF token
  <1>14. InTurn(ssh, e.stream, nt, e.srv)
    <2>1. Single(CodesOut(nt)) /\ (Tok(CodesOut(nt)) => Tok(CodesOut(net)))
      BY <1>9 DEF n, c
    <2>2. token => /\ ~Tok(CodesIn(KeptBack(ssh) \o stream)) /\ ~Tok(CodesOut(srv.held))
                   /\ ~Tok(CodesOut(nt)) /\ sv.authed /\ Primary(ssh) = 0
      BY <1>13 DEF u, h, n
    <2>3. token \in BOOLEAN
      BY DEF token
    <2>4. srv.authed => sv.authed
      BY <1>7
    <2> QED
      BY <1>5, <1>7, <1>12, <2>1, <2>2, <2>3, <2>4, SpeaksInTurn DEF e
  <1> QED
    BY <1>1, <1>2, <1>14 DEF e, sv

LEMMA NextTokens == Good /\ OrderInv /\ TokenInv /\ Shell /\ [Next]_vars => TokenInv'
PROOF
  <1> SUFFICES ASSUME Good, OrderInv, TokenInv, Shell, [Next]_vars, Live', ~seen'.extra
               PROVE  InTurn(ssh', stream', net', srv')
    BY DEF TokenInv
  <1>0. /\ Typed /\ IsSsh(ssh) /\ net \in Seq(ClientPackets) /\ stream \in Seq(HostUnits) /\ srv \in Servers
        /\ seen.extra \in BOOLEAN
    BY DEF Good, Typed, IsHistory
  <1>1. CASE Begins
    BY <1>1, BeginsInTurn
  <1> SUFFICES ASSUME Live,
                 \/ \E n \in 1 .. Len(stream) : Hears(n)
                 \/ \E code \in UserCodes, x \in Values : Orders(code, x)
                 \/ \E x \in Values : TypesRaw(x)
                 \/ serverReads
                 \/ \E sv, code, x : code \in HostCodes /\ x \in Values /\ Speaks(sv, code, x)
                 \/ Still
               PROVE  InTurn(ssh', stream', net', srv')
    BY <1>1, LiveSteps
  <1>2. InStep(ssh, stream, net, srv) /\ (~seen.extra => InTurn(ssh, stream, net, srv))
    BY DEF OrderInv, TokenInv
  <1>3. ASSUME NEW n \in 1 .. Len(stream), Hears(n) PROVE InTurn(ssh', stream', net', srv')
    <2> DEFINE r == processEncryptedData(ssh, SubSeq(stream, 1, n))
    <2>1. ssh' = r.s /\ ~r.error /\ net' = net \o r.out /\ stream' = SubSeq(stream, n + 1, Len(stream))
          /\ srv' = srv /\ seen'.extra = seen.extra
      BY <1>3 DEF Hears
    <2>2. InTurn(ssh, stream, net, srv) /\ (ssh.exists => Home(ssh))
      BY <1>2, <2>1 DEF Shell
    <2>3. Home(r.s) /\ (~r.error => InTurn(r.s, SubSeq(stream, n + 1, Len(stream)), net \o r.out, srv))
      BY <1>2, <2>2, HeardInTurn
    <2> HIDE DEF r
    <2> QED
      BY <2>1, <2>3
  <1>4. ASSUME NEW code \in UserCodes, NEW x \in Values, Orders(code, x)
        PROVE  InTurn(ssh', stream', net', srv')
    <2> DEFINE r == sendSSHData(ssh, code, x)
    <2>1. ssh \in Session /\ ssh' = r.s /\ net' = net \o r.out /\ stream' = stream /\ srv' = srv
          /\ seen'.extra = (seen.extra \/ (code = "CHANNEL_REQUEST" /\ x = 1))
      BY <1>4 DEF Orders, sendToHost
    <2>2. ~seen.extra /\ (code = "CHANNEL_REQUEST" => x # 1)
      BY <2>1
    <2>3. ssh.exists = TRUE
      BY <2>1, SessionFacts
    <2>4. InTurn(ssh, stream, net, srv) /\ Waiting(ssh.queue)
      BY <1>2, <2>2, <2>3 DEF InStep
    <2>5. InTurn(r.s, stream, net \o r.out, srv)
      BY <1>0, <2>1, <2>2, <2>4, UserInTurn
    <2> HIDE DEF r
    <2> QED
      BY <2>1, <2>5
  <1>5. ASSUME NEW x \in Values, TypesRaw(x) PROVE InTurn(ssh', stream', net', srv')
    <2> DEFINE p == Packet("RAW", 0, x)
               t == Tok(CodesOut(net))
    <2>1. net' = Append(net, p) /\ ssh' = ssh /\ stream' = stream /\ srv' = srv /\ seen'.extra = seen.extra
      BY <1>5 DEF TypesRaw
    <2>2. p \in ClientPackets /\ p.code = "RAW"
      BY PacketsTyped DEF ClientCodes, Values, Packet
    <2> HIDE DEF p
    <2>3. InTurn(ssh, stream, net, srv)
      BY <1>2, <2>1
    <2>4. net \o <<>> = net /\ <<>> \in Seq(ClientPackets) /\ Append(<<>>, p) = <<p>> /\ net \o <<p>> = Append(net, p)
      BY <1>0, <2>2
    <2>5. t \in BOOLEAN /\ Writes(net, <<>>, t)
      BY <2>3, <2>4 DEF Writes, InTurn, Turns, Lone, Tok
    <2> HIDE DEF t
    <2>6. Writes(net, Append(<<>>, p), t \/ p.code \in Tokens)
      <3>1. p.code \notin Tokens /\ p.code # "CHANNEL_REQUEST"
        BY <2>2 DEF Tokens
      <3> QED
        BY <1>0, <2>2, <2>4, <2>5, <3>1, WritesAppend
    <2>7. (t \/ p.code \in Tokens) = t
      BY <2>2, <2>5 DEF Tokens
    <2> DEFINE c == CodesOut(net')
    <2>8. Single(c) /\ (Tok(c) => t) /\ NoReply(net')
      BY <2>1, <2>4, <2>6, <2>7 DEF Writes
    <2> HIDE DEF c
    <2>9. Turns(ssh, CodesIn(KeptBack(ssh) \o stream), CodesOut(srv.held), c, srv.authed)
      BY <2>3, <2>8 DEF InTurn, Turns, Lone, t
    <2> QED
      BY <2>1, <2>3, <2>8, <2>9 DEF InTurn, c
  <1>6. CASE serverReads
    <2>1. seen' = seen
      BY <1>0, <1>6, ServerReadsOutcome DEF client
    <2> QED
      BY <1>2, <1>6, <2>1, ReadsInTurn
  <1>7. ASSUME NEW sv, NEW code \in HostCodes, NEW x \in Values, Speaks(sv, code, x)
        PROVE  InTurn(ssh', stream', net', srv')
    <2> DEFINE a == [code |-> code, x |-> x]
               codes == <<a>>
               e == Emit(sv, stream, codes)
    <2>1. /\ AsServer(sv) /\ ServerSpeaks(sv, code, x) /\ seen'.extra = seen.extra
          /\ code \in {"CHANNEL_DATA", "KEXINIT", "DISCONNECT"}
      BY <1>7 DEF Speaks
    <2>2. sv \in Servers /\ sv.held = srv.held /\ sv.authed = srv.authed
      BY <2>1 DEF AsServer
    <2>3. srv' = e.srv /\ stream' = e.stream /\ ssh' = ssh /\ net' = net
      BY <2>1 DEF ServerSpeaks
    <2>4. a \in Commands /\ a.code \notin Tokens
      BY <2>1, CodeTyped DEF Tokens
    <2> HIDE DEF a
    <2> DEFINE token == FALSE
    <2>5. \E b \in Commands : codes = <<b>> /\ (b.code \in Tokens => token)
      BY <2>4
    <2>6. InTurn(ssh, stream, net, srv)
      BY <1>2, <2>1
    <2>7. NoReply(net) /\ Single(CodesOut(net))
      BY <2>6 DEF InTurn, Turns, Lone
    <2>8. token \in BOOLEAN /\ ~token
      OBVIOUS
    <2> HIDE DEF token, codes
    <2>9. InTurn(ssh, e.stream, net, e.srv)
      BY <2>2, <2>5, <2>6, <2>7, <2>8, SpeaksInTurn
    <2> HIDE DEF e
    <2> QED
      BY <2>3, <2>9
  <1>8. CASE Still
    BY <1>2, <1>8 DEF Still
  <1> QED
    BY <1>3, <1>4, <1>5, <1>6, <1>7, <1>8

\* A request for a reply stays on record.
LEMMA ExtraOnRecord == Good /\ [Next]_vars /\ seen.extra => seen'.extra
PROOF
  <1> SUFFICES ASSUME Good, [Next]_vars, seen.extra, seen' # seen PROVE seen'.extra
    OBVIOUS
  <1>0. SeenFields \subseteq DOMAIN seen /\ Typed
    BY DEF Good, Typed, IsHistory
  <1>1. ASSUME NEW kd \in Kinds, connect(kd) PROVE seen'.extra
    BY <1>0, <1>1 DEF connect, SeenFields
  <1>2. ASSUME NEW n \in 1 .. Len(stream), handleData(n) PROVE seen'.extra
    <2>1. CASE kind = "ssh"
      <3>1. sshData(SubSeq(stream, 1, n))
        BY <1>2, <2>1 DEF handleData
      <3> QED
        BY <1>0, <3>1, SshDataOutcome
    <2>2. CASE kind # "ssh"
      BY <1>0, <1>2, <2>2 DEF handleData, SeenFields
    <2> QED
      BY <2>1, <2>2
  <1>3. ASSUME NEW fingerprint \in BOOLEAN, NEW accept \in BOOLEAN, certificateAnswer(fingerprint, accept)
        PROVE  seen'.extra
    BY <1>0, <1>3 DEF certificateAnswer, SeenFields
  <1>4. CASE clientData
    BY <1>0, <1>4 DEF clientData, SeenFields
  <1>5. ASSUME NEW x \in {0, 1}, channelRequest(x) PROVE seen'.extra
    BY <1>0, <1>5 DEF channelRequest, SeenFields
  <1>6. CASE hostSends
    BY <1>0, <1>6 DEF hostSends, SeenFields
  <1>7. CASE \/ wsError \/ NotJson \/ handleWebsocketClosed \/ authenticationAnswer \/ serverReads
             \/ hostReads \/ serverRekeys \/ serverDisconnects \/ UNCHANGED vars
             \/ \E k \in Sockets : connectHandler(k) \/ hostError(k) \/ hostCloses(k) \/ hostSocketClosed(k)
    <2>1. seen' = seen
      BY <1>7 DEF wsError, NotJson, handleWebsocketClosed, authenticationAnswer, serverReads, hostReads,
                  serverRekeys, serverDisconnects, connectHandler, hostError, hostCloses, hostSocketClosed,
                  client, vars
    <2> QED
      BY <2>1
  <1> QED
    BY <1>1, <1>2, <1>3, <1>4, <1>5, <1>6, <1>7 DEF Next

LEMMA NextShell == Good /\ OrderInv /\ TokenInv /\ Shell /\ [Next]_vars => Shell'
PROOF
  <1> SUFFICES ASSUME Good, OrderInv, TokenInv, Shell, [Next]_vars, ssh'.exists, ~seen'.extra
               PROVE  Home(ssh')
    BY DEF Shell
  <1>0. Typed /\ IsSsh(ssh) /\ Base /\ IInv /\ seen.inputs + 1 \in Values
    BY DEF Good, Typed, IsHistory, Values
  <1>1. ~seen.extra /\ (ssh.exists => Home(ssh))
    BY ExtraOnRecord DEF Shell
  <1>2. ssh' = ssh => Home(ssh')
    BY <1>1
  <1>3. ASSUME NEW code \in UserCodes, NEW x \in Values, ssh.exists, sendToHost(code, x) PROVE Home(ssh')
    <2>1. ssh \in Session /\ Home(ssh)
      BY <1>0, <1>1, <1>3, SessionFacts DEF IsSsh
    <2>2. ssh' = sendSSHData(ssh, code, x).s
      BY <1>3 DEF sendToHost
    <2> QED
      BY <2>1, <2>2, SendKeepsHome
  <1>4. ASSUME NEW n \in 1 .. Len(stream), handleData(n) PROVE Home(ssh')
    <2>1. CASE kind # "ssh"
      BY <1>2, <1>4, <2>1 DEF handleData
    <2>2. CASE kind = "ssh"
      <3>1. sshData(SubSeq(stream, 1, n)) /\ cur # 0 /\ socks[cur] = "up"
        BY <1>4, <2>2 DEF handleData
      <3>2. Live
        BY <1>0, <2>2, <3>1 DEF Base, Live, IInv, Ranges
      <3>3. InStep(ssh, stream, net, srv) /\ InTurn(ssh, stream, net, srv)
        BY <1>1, <3>2 DEF OrderInv, TokenInv
      <3>4. ssh' = processEncryptedData(ssh, SubSeq(stream, 1, n)).s
        BY <1>0, <3>1, SshDataOutcome
      <3>5. Home(processEncryptedData(ssh, SubSeq(stream, 1, n)).s)
        BY <1>1, <3>3, HeardInTurn
      <3> QED
        BY <3>4, <3>5
    <2> QED
      BY <2>1, <2>2
  <1>5. CASE clientData
    <2>1. SshReady => sendToHost("CHANNEL_DATA", seen.inputs + 1)
      BY <1>5 DEF clientData
    <2>2. ~SshReady => ssh' = ssh
      BY <1>5 DEF clientData
    <2> QED
      BY <1>0, <1>2, <1>3, <2>1, <2>2 DEF SshReady, UserCodes
  <1>6. CASE authenticationAnswer
    <2>1. ssh.exists /\ (sendToHost("USERAUTH_REQUEST", 0) \/ sendToHost("USERAUTH_INFO_RESPONSE", 0))
      BY <1>6 DEF authenticationAnswer, SshReady
    <2>2. 0 \in Values
      BY DEF Values
    <2> QED
      BY <1>3, <2>1, <2>2 DEF UserCodes
  <1>7. ASSUME NEW x \in {0, 1}, channelRequest(x) PROVE Home(ssh')
    <2>1. ssh.exists /\ sendToHost("CHANNEL_REQUEST", x)
      BY <1>7 DEF channelRequest, SshReady
    <2>2. x \in Values
      BY DEF Values
    <2> QED
      BY <1>3, <2>1, <2>2 DEF UserCodes
  <1>8. CASE \/ wsError \/ NotJson \/ handleWebsocketClosed \/ (\E kd \in Kinds : connect(kd))
             \/ (\E k \in Sockets : connectHandler(k) \/ hostError(k) \/ hostCloses(k) \/ hostSocketClosed(k))
             \/ (\E fingerprint, accept \in BOOLEAN : certificateAnswer(fingerprint, accept))
             \/ serverReads \/ hostReads \/ hostSends \/ serverRekeys \/ serverDisconnects \/ UNCHANGED vars
    <2>1. ssh' = ssh
      BY <1>8 DEF wsError, NotJson, handleWebsocketClosed, connect, connectHandler, hostError, hostCloses,
                  hostSocketClosed, certificateAnswer, serverReads, hostReads, hostSends, serverRekeys,
                  serverDisconnects, ServerSpeaks, client, vars
    <2> QED
      BY <1>2, <2>1
  <1> QED
    BY <1>4, <1>5, <1>6, <1>7, <1>8 DEF Next

LEMMA TokensHold == Spec => [](Good /\ OrderInv /\ TokenInv /\ Shell)
PROOF
  <1>1. Init => TokenInv /\ Shell
    <2>1. Init => ~Live /\ ~ssh.exists
      BY SessionFacts DEF Init, Live
    <2> QED
      BY <2>1 DEF TokenInv, Shell
  <1>2. Good /\ OrderInv /\ TokenInv /\ Shell /\ [Next]_vars => TokenInv' /\ Shell'
    BY NextTokens, NextShell
  <1> QED
    BY <1>1, <1>2, OrderHolds, PTL DEF Spec

\* The channel every keystroke is sent through is one that is open: from the
\* login on, one packet at a time is the next step to the shell, whatever key
\* exchanges delay it and however TCP cuts it, so that the only success taken
\* for the one of the shell is the reply to a request of the user.
THEOREM ShellChannelIsKept == Spec => []ShellChannelKept
PROOF
  <1>1. Shell => ShellChannelKept
    BY DEF Shell, ShellChannelKept, Home
  <1> QED
    BY <1>1, TokensHold, PTL
=============================================================================
