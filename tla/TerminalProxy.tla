--------------------------- MODULE TerminalProxy ---------------------------
(***************************************************************************)
(* The terminal proxy (plugins/terminal-proxy/lib/terminalProxy.js): one   *)
(* TerminalWebsocketProxy between a browser's websocket and a host, reached *)
(* over telnet, TLS or SSH.  Callbacks of the websocket and of the host     *)
(* sockets interleave; TCP cuts and joins what the host sends.  The SSH     *)
(* server is external and follows the protocol.                             *)
(***************************************************************************)
EXTENDS SshSession, FiniteSets

CONSTANTS Kinds,        \* "telnet", "tls", "prompt" (TLS, badCert not allowed), "ssh"
          MaxConnects,  \* bound: CONFIG messages the proxy takes
          MaxInputs,    \* bound: keystrokes the user sends
          MaxHostData,  \* bound: pieces of data the host sends
          MaxRekeys,    \* bound: key exchanges the host starts again
          MaxRequests,  \* bound: channel requests of the user
          MaxRetries    \* bound: login attempts the server does not accept

ASSUME TerminalAssumption == MaxConnects \in Nat \ {0}

VARIABLES
  ws,         \* readyState of the websocket: "open", "closing", "closed"
  kind,       \* what CONFIG asked for (usingSSH, usingTLS), or "none"
  conn,       \* hostConnected
  cur,        \* hostSocket: the number of the socket it refers to, or 0
  socks,      \* state of each socket the proxy made
  listeners,  \* how many times connectHandler added its listeners to a socket
  awaiting,   \* awaitingCertificateVerification
  buffered,   \* bufferedHostMessages
  open,       \* openTerminalConnections
  ssh,        \* sshSessionData
  asked,      \* what the SSH login asks the user for
  net,        \* packets under way to the host
  stream,     \* units under way from the host on the current socket
  srv,        \* the SSH server
  seen        \* history: what the properties compare

vars == <<ws, kind, conn, cur, socks, listeners, awaiting, buffered, open, ssh,
          asked, net, stream, srv, seen>>
client == <<kind, awaiting, buffered, ssh, asked, seen>>

Sockets == 1 .. MaxConnects
Alive(k) == socks[k] \in {"connecting", "up"}

Init ==
  /\ ws = "open" /\ kind = "none" /\ conn = FALSE /\ cur = 0 /\ open = 0
  /\ socks = [k \in Sockets |-> "none"] /\ listeners = [k \in Sockets |-> 0]
  /\ awaiting = FALSE /\ buffered = <<>> /\ ssh = NoSession /\ asked = "none"
  /\ net = <<>> /\ stream = <<>>
  /\ srv = [sent |-> 0, kex |-> FALSE, quiet |-> FALSE, confused |-> FALSE,
            keys |-> FALSE, held |-> <<>>, got |-> <<>>, rekeys |-> 0, tries |-> 0, over |-> FALSE,
            authed |-> FALSE,
            method |-> "gex"]
  /\ seen = [typed |-> <<>>, inputs |-> 0, requests |-> 0, data |-> 0,
             shown |-> <<>>, cut |-> FALSE, early |-> FALSE, extra |-> FALSE,
             failed |-> FALSE, replaced |-> FALSE, mixed |-> FALSE,
             raw |-> FALSE]

(***************************************************************************)
(* closeConnection and the end of a socket.                                *)
(***************************************************************************)
\* destroy: its 'close' event comes later
Destroyed(k) == [socks EXCEPT ![k] = IF Alive(k) THEN "closing" ELSE @]

closeConnection ==
  /\ conn' = FALSE
  /\ open' = IF conn THEN open - 1 ELSE open
  /\ socks' = IF cur = 0 THEN socks ELSE Destroyed(cur)
  /\ ws' = IF ws = "open" THEN "closing" ELSE ws
  /\ net' = <<>> /\ stream' = <<>>

wsError == ws = "open" /\ closeConnection /\ UNCHANGED <<client, cur, listeners, srv>>

\* a message that is not JSON
NotJson == ws # "closed" /\ closeConnection /\ UNCHANGED <<client, cur, listeners, srv>>

\* (mutant: counted down whether connected or not)
WebsocketClosedCountsTwice ==
  /\ ws # "closed" /\ ws' = "closed"
  /\ conn' = FALSE
  /\ open' = IF cur # 0 THEN open - 1 ELSE open
  /\ socks' = IF cur = 0 THEN socks ELSE Destroyed(cur)
  /\ net' = <<>> /\ stream' = <<>>
  /\ UNCHANGED <<client, cur, listeners, srv>>

\* (mutant: a connection that is still being made is left alone)
WebsocketClosedEarly ==
  /\ ws # "closed" /\ ws' = "closed"
  /\ conn' = FALSE
  /\ open' = IF cur # 0 /\ conn THEN open - 1 ELSE open
  /\ socks' = IF conn THEN Destroyed(cur) ELSE socks
  /\ net' = <<>> /\ stream' = <<>>
  /\ UNCHANGED <<client, cur, listeners, srv>>

handleWebsocketClosed ==
  /\ ws # "closed" /\ ws' = "closed"
  /\ conn' = FALSE
  /\ open' = IF cur # 0 /\ conn THEN open - 1 ELSE open
  /\ socks' = IF cur = 0 THEN socks ELSE Destroyed(cur)
  /\ net' = <<>> /\ stream' = <<>>
  /\ UNCHANGED <<client, cur, listeners, srv>>

(***************************************************************************)
(* Connecting.                                                             *)
(***************************************************************************)
\* CONFIG is taken whenever hostConnected is false: also while an earlier
\* connection is being made, whose socket is then forgotten, and while the
\* websocket is closing.  A second CONFIG asks for the same host.
connect(kd) ==
  /\ ws # "closed" /\ ~conn
  /\ kind \in {"none", kd} /\ kind' = kd
  /\ cur < IF kd = "ssh" THEN 1 ELSE MaxConnects
  /\ cur' = cur + 1
  /\ socks' = [socks EXCEPT ![cur'] = "connecting"]
  /\ seen' = [seen EXCEPT !.replaced = @ \/ \E k \in Sockets : socks[k] = "connecting"]
  /\ UNCHANGED <<ws, conn, listeners, awaiting, buffered, open, ssh, asked, net,
                 stream, srv>>

ServerPacket(sv, code, x) ==
  [id |-> sv.sent, code |-> code, x |-> x,
   len |-> IF sv.keys \/ code \in {"KEXINIT", "GEX_REPLY", "NEWKEYS"} THEN 2 ELSE 1]

\* connectHandler adds the listeners to the socket hostSocket refers to NOW.
\* The prompt for the certificate, where there is one, comes first.
connectHandler(k) ==
  /\ socks[k] = "connecting"
  /\ socks' = [socks EXCEPT ![k] = "up"]
  /\ open' = open + 1
  /\ conn' = TRUE
  /\ listeners' = [listeners EXCEPT ![cur] = @ + 1]
  /\ awaiting' = (awaiting \/ kind = "prompt")
  /\ IF kind # "ssh" THEN UNCHANGED <<stream, srv>>
     ELSE \* the server speaks first; some send KEXINIT along with the version
       \E eager \in BOOLEAN, method \in {"gex", "old"} :
         LET first == [id |-> 0, code |-> "VERSION", x |-> method, len |-> 1]
         IN  /\ stream' = Units(first) \o
                   IF eager THEN Units(ServerPacket(srv, "KEXINIT", method)) ELSE <<>>
             /\ srv' = [srv EXCEPT !.kex = eager, !.sent = IF eager THEN 1 ELSE 0,
                                   !.method = method]
  /\ UNCHANGED <<ws, kind, cur, buffered, ssh, asked, net, seen>>

\* the errorHandler of a socket
hostError(k) ==
  /\ Alive(k)
  /\ conn' = FALSE /\ open' = IF conn THEN open - 1 ELSE open
  /\ ws' = IF ws = "open" THEN "closing" ELSE ws
  /\ socks' = [Destroyed(cur) EXCEPT ![k] = "closing"]
  /\ net' = <<>> /\ stream' = <<>>
  /\ UNCHANGED <<client, cur, listeners, srv>>

hostCloses(k) ==
  /\ socks[k] = "up"
  /\ socks' = [socks EXCEPT ![k] = "closing"]
  /\ net' = IF k = cur THEN <<>> ELSE net
  /\ stream' = IF k = cur THEN <<>> ELSE stream
  /\ UNCHANGED <<client, ws, conn, cur, listeners, open, srv>>

\* the 'close' event, heard when connectHandler has added its listener
hostSocketClosed(k) ==
  /\ socks[k] = "closing"
  /\ IF listeners[k] = 0
     THEN /\ socks' = [socks EXCEPT ![k] = "closed"]
          /\ UNCHANGED <<ws, conn, open, net, stream>>
     ELSE /\ conn' = FALSE /\ open' = IF conn THEN open - 1 ELSE open
          /\ ws' = IF ws = "open" THEN "closing" ELSE ws
          /\ socks' = [Destroyed(cur) EXCEPT ![k] = "closed"]
          /\ net' = <<>> /\ stream' = <<>>
  /\ UNCHANGED <<client, cur, listeners, srv>>

(***************************************************************************)
(* Data of the host.                                                       *)
(***************************************************************************)
Numbers(chunk) == [i \in DOMAIN chunk |-> chunk[i].p.x]
\* FoldLeft as a recursive function, which TLC evaluates much faster
InOrder(op(_, _), base, s) ==
  LET after[i \in 0 .. Len(s)] == IF i = 0 THEN base ELSE op(after[i - 1], s[i])
  IN  after[Len(s)]

\* The data among packets, messages or commands.
WithData(data, p) == IF p.code \in {"CHANNEL_DATA", "RAW"} THEN Append(data, p.x) ELSE data
DataIn(packets) == InOrder(WithData, <<>>, packets)
Show(data) == IF ws = "open" THEN seen.shown \o data ELSE seen.shown

LastOf(raw) == raw[Len(raw)]
\* Clear text that holds a packet and then a part of the next one, or the
\* version and more: what ssh.js does not put together again.
Cut(s, chunk) ==
  IF ~s.exists THEN Len(chunk) > 1
  ELSE LET raw == s.incomplete \o chunk
       IN  /\ ~s.encrypted
           /\ LastOf(raw).k < LastOf(raw).p.len
           /\ raw[1].p # LastOf(raw).p
           /\ \A i \in DOMAIN raw : raw[i].p.code # "NEWKEYS" \/ raw[i].k = 1

Asks(msgs) ==
  LET wanted(i) == CASE msgs[i].code \in {"SERVICE_ACCEPT", "USERAUTH_FAILURE"} -> "auth"
                     [] msgs[i].code = "USERAUTH_INFO_REQUEST" -> "info"
                     [] OTHER -> "none"
      asking == {i \in DOMAIN msgs : wanted(i) # "none"}
  IN  IF asking = {} THEN asked ELSE wanted(CHOOSE i \in asking : \A j \in asking : j <= i)

\* handleData under SSH: the messages in order, DISCONNECT and ERROR close.
sshData(chunk) ==
  LET r == processEncryptedData(ssh, chunk)
      ends == r.error \/ \E i \in DOMAIN r.msgs : r.msgs[i].code = "DISCONNECT"
  IN  /\ ssh' = r.s
      /\ asked' = Asks(r.msgs)
      /\ seen' = [seen EXCEPT
           !.shown = IF ends THEN @ ELSE Show(DataIn(r.msgs)),
           !.cut = @ \/ Cut(ssh, chunk),
           !.early = @ \/ (r.s.exists /\ r.s.kex /\ r.s.authenticated /\ r.s.channels = <<>>),
           !.failed = @ \/ r.error]
      /\ IF ends
         THEN closeConnection
         ELSE /\ net' = net \o r.out
              /\ stream' = SubSeq(stream, Len(chunk) + 1, Len(stream))
              /\ UNCHANGED <<ws, conn, socks, open>>
      /\ UNCHANGED <<kind, cur, listeners, awaiting, buffered, srv>>

\* The 'data' event.  Two connectHandlers on one socket handle a chunk twice.
handleData(n) ==
  /\ cur # 0 /\ socks[cur] = "up" /\ listeners[cur] > 0
  /\ n \in 1 .. Len(stream)
  /\ LET chunk == SubSeq(stream, 1, n) IN
     IF kind = "ssh" THEN sshData(chunk)
     ELSE LET times == listeners[cur]
              copies == FlattenSeq([i \in 1 .. times |-> Numbers(chunk)])
          IN  /\ IF awaiting
                 THEN /\ buffered' = buffered \o [i \in 1 .. times |-> Numbers(chunk)]
                      /\ UNCHANGED seen
                 ELSE /\ seen' = [seen EXCEPT !.shown = Show(copies)]
                      /\ UNCHANGED buffered
              /\ stream' = SubSeq(stream, n + 1, Len(stream))
              /\ UNCHANGED <<ws, kind, conn, cur, socks, listeners, awaiting, open,
                             ssh, asked, net, srv>>

(***************************************************************************)
(* Messages of the user, taken while hostConnected.                        *)
(***************************************************************************)
Takes == ws # "closed" /\ conn
Idle == UNCHANGED <<ws, kind, conn, cur, socks, listeners, open, stream, srv>>

\* (mutant: accepting forgets what was held back)
CertificateForgets(fingerprint, accept) ==
  /\ Takes /\ awaiting
  /\ IF fingerprint THEN UNCHANGED <<buffered, awaiting, seen>>
     ELSE /\ buffered' = <<>> /\ awaiting' = ~accept
          /\ seen' = [seen EXCEPT !.mixed = @ \/ Len(buffered) > IF accept THEN 1 ELSE 0]
  /\ Idle /\ UNCHANGED <<ssh, asked, net>>

\* CERT_RES.  The fingerprint sent with the prompt is never stored: only an
\* answer without one matches.  Accepting handles the buffer last first;
\* rejecting empties it, and the proxy goes on waiting.
certificateAnswer(fingerprint, accept) ==
  /\ Takes /\ awaiting
  /\ IF fingerprint THEN UNCHANGED <<buffered, awaiting, seen>>
     ELSE /\ buffered' = <<>>
          /\ awaiting' = ~accept
          /\ seen' = [seen EXCEPT !.shown =
                        IF accept THEN Show(FlattenSeq(Reverse(buffered))) ELSE @,
                      !.mixed = @ \/ Len(buffered) > IF accept THEN 1 ELSE 0]
  /\ Idle /\ UNCHANGED <<ssh, asked, net>>

SshReady == kind = "ssh" /\ ssh.exists
sendToHost(code, x) ==
  LET r == sendSSHData(ssh, code, x) IN ssh' = r.s /\ net' = net \o r.out

\* Keystrokes.  Before the host's version they are written as they are, also
\* when the connection is an SSH one; without a channel they change nothing.
clientData ==
  /\ Takes /\ seen.inputs < MaxInputs
  /\ LET x == seen.inputs + 1 IN
     /\ IF SshReady THEN sendToHost("CHANNEL_DATA", x)
        ELSE net' = Append(net, Packet("RAW", 0, x)) /\ UNCHANGED ssh
     /\ SshReady => ssh.primary # 0
     /\ seen' = [seen EXCEPT !.inputs = x, !.typed = Append(@, x),
                            !.raw = @ \/ (kind = "ssh" /\ ~ssh.exists)]
  /\ Idle /\ UNCHANGED <<awaiting, buffered, asked>>

\* SSH_USER_AUTH_RES and SSH_USER_AUTH_INFO_RES
authenticationAnswer ==
  /\ Takes /\ SshReady /\ asked # "none"
  /\ sendToHost(IF asked = "auth" THEN "USERAUTH_REQUEST" ELSE "USERAUTH_INFO_RESPONSE", 0)
  /\ asked' = "none"
  /\ Idle /\ UNCHANGED <<awaiting, buffered, seen>>

\* SSH_CH_REQ; x = 1 when it wants a reply
channelRequest(x) ==
  /\ Takes /\ SshReady /\ seen.requests < MaxRequests
  /\ sendToHost("CHANNEL_REQUEST", x)
  /\ ssh.primary # 0
  /\ seen' = [seen EXCEPT !.requests = @ + 1, !.extra = @ \/ x = 1]
  /\ Idle /\ UNCHANGED <<awaiting, buffered, asked>>

(***************************************************************************)
(* The host (external).                                                    *)
(***************************************************************************)
KexCodes == {"KEXINIT", "GEX_REQUEST", "GEX_REQUEST_OLD", "GEX_GROUP", "GEX_INIT",
             "GEX_REPLY", "NEWKEYS"}

\* Packets other than those of a key exchange wait until NEWKEYS has been sent.
Sent(e, c) ==
  [srv |-> [e.srv EXCEPT !.sent = @ + 1, !.kex = @ \/ c.code = "KEXINIT"],
   stream |-> e.stream \o Units(ServerPacket(e.srv, c.code, c.x))]
Emitted(e, c) ==
  IF e.srv.kex /\ c.code \notin KexCodes THEN [e EXCEPT !.srv.held = Append(@, c)]
  ELSE IF c.code # "NEWKEYS" THEN Sent(e, c)
  ELSE InOrder(Sent,
               [Sent(e, c) EXCEPT !.srv.kex = FALSE, !.srv.keys = TRUE, !.srv.held = <<>>],
               e.srv.held)
Emit(sv, st, codes) == InOrder(Emitted, [srv |-> sv, stream |-> st], codes)

Code(code) == [code |-> code, x |-> 0]
\* What the server may answer to a packet.
Answers(p) ==
  CASE p.code = "VERSION" -> {IF srv.kex THEN <<>> ELSE <<[code |-> "KEXINIT", x |-> srv.method]>>}
    [] p.code = "GEX_REQUEST" -> {<<Code("GEX_GROUP")>>}
    [] p.code = "GEX_INIT" -> {<<Code("GEX_REPLY"), Code("NEWKEYS")>>}
    [] p.code = "GEX_REQUEST_OLD" -> {<<Code("GEX_GROUP"), Code("NEWKEYS")>>}
    [] p.code = "SERVICE_REQUEST" -> {<<Code("SERVICE_ACCEPT")>>}
    [] p.code = "USERAUTH_REQUEST" /\ ~srv.authed ->
         {<<Code("USERAUTH_SUCCESS")>>} \cup
         IF srv.tries = MaxRetries THEN {}
         ELSE {<<Code("USERAUTH_FAILURE")>>, <<Code("USERAUTH_INFO_REQUEST")>>}
    [] p.code = "USERAUTH_INFO_RESPONSE" /\ ~srv.authed -> {<<Code("USERAUTH_SUCCESS")>>}
    [] p.code = "CHANNEL_OPEN" -> {<<Code("OPEN_CONFIRMATION")>>}
    [] p.code \in {"pty-req", "shell"} -> {<<Code("CHANNEL_SUCCESS")>>}
    [] p.code = "CHANNEL_REQUEST" /\ p.x = 1 -> {<<Code("CHANNEL_SUCCESS")>>}
    [] OTHER -> {<<>>}

\* The SSH server reads a packet.  quiet: it has the client's KEXINIT and not
\* yet its NEWKEYS; confused: it got what the protocol does not allow then.  It
\* takes a window adjustment at any time, though RFC 4253 7.1 forbids it within a
\* key exchange: ssh.js 370-381 sends one there, without a look at isKeyExchanging.
serverReads ==
  /\ kind = "ssh" /\ net # <<>> /\ ~srv.over /\ ~srv.confused /\ cur # 0 /\ socks[cur] = "up"
  /\ LET p == Head(net)
         odd == p.code = "RAW" \/ (srv.quiet /\ p.code \notin KexCodes \cup {"WINDOW_ADJUST"})
         read == [srv EXCEPT !.confused = @ \/ odd,
                             !.tries = IF p.code = "USERAUTH_REQUEST" /\ @ < MaxRetries
                                       THEN @ + 1 ELSE @,
                             !.quiet = IF p.code = "KEXINIT" THEN TRUE
                                       ELSE IF p.code = "NEWKEYS" THEN FALSE ELSE @,
                             !.got = IF p.code = "CHANNEL_DATA" THEN Append(@, p.x) ELSE @]
     IN  \E answer \in Answers(p) :
           LET login == answer = <<Code("USERAUTH_SUCCESS")>>
               e == Emit([read EXCEPT !.authed = @ \/ login], stream, answer)
           IN  srv' = e.srv /\ stream' = e.stream
  /\ net' = Tail(net)
  /\ UNCHANGED <<client, ws, conn, cur, socks, listeners, open>>

\* A telnet or TLS host reads what the proxy wrote.
hostReads ==
  /\ kind # "ssh" /\ net # <<>> /\ cur # 0 /\ socks[cur] = "up"
  /\ srv' = [srv EXCEPT !.got = Append(@, Head(net).x)]
  /\ net' = Tail(net)
  /\ UNCHANGED <<client, ws, conn, cur, socks, listeners, open, stream>>

ServerSpeaks(sv, code, x) ==
  LET e == Emit(sv, stream, <<[code |-> code, x |-> x]>>) IN
  /\ cur # 0 /\ socks[cur] = "up" /\ ~srv.over
  /\ srv' = e.srv /\ stream' = e.stream
  /\ UNCHANGED <<ws, kind, conn, cur, socks, listeners, awaiting, buffered, open,
                 ssh, asked, net>>

\* The host sends data: through the shell, once it has granted it.
hostSends ==
  /\ seen.data < MaxHostData
  /\ kind = "ssh" => ssh.exists /\ ssh.primary # 0
  /\ ServerSpeaks(srv, "CHANNEL_DATA", seen.data + 1)
  /\ seen' = [seen EXCEPT !.data = @ + 1]

serverRekeys ==
  /\ kind = "ssh" /\ srv.keys /\ ~srv.kex /\ ~srv.quiet /\ srv.rekeys < MaxRekeys
  /\ ServerSpeaks([srv EXCEPT !.rekeys = @ + 1], "KEXINIT", srv.method)
  /\ UNCHANGED seen

serverDisconnects ==
  /\ kind = "ssh" /\ srv.keys /\ ~srv.kex
  /\ ServerSpeaks([srv EXCEPT !.over = TRUE], "DISCONNECT", 0) /\ UNCHANGED seen

Next ==
  \/ wsError \/ NotJson \/ handleWebsocketClosed
  \/ \E kd \in Kinds : connect(kd)
  \/ \E k \in Sockets : connectHandler(k) \/ hostError(k) \/ hostCloses(k)
                        \/ hostSocketClosed(k)
  \/ \E n \in 1 .. Len(stream) : handleData(n)
  \/ \E fingerprint, accept \in BOOLEAN : certificateAnswer(fingerprint, accept)
  \/ clientData \/ authenticationAnswer \/ \E x \in {0, 1} : channelRequest(x)
  \/ serverReads \/ hostReads \/ hostSends \/ serverRekeys \/ serverDisconnects

Spec == Init /\ [][Next]_vars

(***************************************************************************)
(* Properties.                                                             *)
(***************************************************************************)
\* Every variable keeps to its range.
TypeOK ==
  /\ ws \in {"open", "closing", "closed"} /\ kind \in Kinds \cup {"none"}
  /\ conn \in BOOLEAN /\ awaiting \in BOOLEAN /\ cur \in 0 .. MaxConnects
  /\ socks \in [Sockets -> {"none", "connecting", "up", "closing", "closed"}]
  /\ listeners \in [Sockets -> 0 .. MaxConnects] /\ open \in 0 .. MaxConnects
  /\ asked \in {"none", "auth", "info"}
  /\ ssh.exists => /\ ssh.expected \in {"none", "GEX_GROUP", "GEX_REPLY", "NEWKEYS",
                                       "SERVICE_ACCEPT", "OPEN_CONFIRMATION"}
                   /\ ssh.primary \in Nat /\ ssh.window \in 0 .. InitialWindow

\* openTerminalConnections counts a connection once, however it ends: error,
\* close and websocket callbacks all run closeConnection.  (Not so when a
\* second CONFIG came while the first connection was being made.)
ConnectionsCounted == ~seen.replaced => open = IF conn THEN 1 ELSE 0

\* No socket to the host outlives the websocket: whichever of CONFIG, the
\* connection, its loss and the websocket's end came first (same exception).
NoSocketLeft ==
  ws = "closed" /\ ~seen.replaced => \A k \in Sockets : ~Alive(k)

\* What the host sends reaches the user in its order and exactly once, through
\* the cutting and joining of TCP, key exchanges and the prompt: it is shown,
\* held back for the prompt, or under way.  (The exceptions: two chunks held
\* back are handled last first, a rejection drops what was held back, and two
\* connections made at once listen to one socket.)
Arriving ==
  LET units == (IF ssh.exists THEN ssh.incomplete ELSE <<>>) \o stream
      last(u) == IF u.k = u.p.len THEN u.p ELSE Plain("rest")
  IN  DataIn([i \in DOMAIN units |-> last(units[i])]) \o DataIn(srv.held)
HostDataExactlyOnce ==
  conn /\ ws = "open" /\ cur = 1 /\ socks[cur] = "up" /\ ~seen.mixed =>
    seen.shown \o FlattenSeq(buffered) \o Arriving = [i \in 1 .. seen.data |-> i]

\* Once the shell is there, what the user typed is with the host, under way or
\* waiting for the end of a key exchange: in its order, nothing twice, nothing
\* lost, unless a reply to a channel request was taken for the one to the shell.
QueueData == IF ssh.exists THEN ssh.queue ELSE <<>>
InputsExactlyOnce ==
  conn /\ cur = 1 /\ socks[cur] = "up" /\ ~seen.extra /\ ~seen.raw =>
    seen.typed = srv.got \o DataIn(net) \o DataIn(QueueData)

\* What the user does makes the proxy send nothing the protocol forbids: between
\* the client's KEXINIT and its NEWKEYS none of it goes out (sendSSHData, 322), and
\* no keystroke precedes the client's version unless it was typed before the host
\* spoke.  Nor does any other packet, except window adjustments: these the proxy
\* does send within a key exchange, against RFC 4253 7.1, and they are exempt here.
ProtocolKept == srv.confused => seen.raw

\* With a server that follows the protocol no packet is checked under a wrong
\* sequence number, and the proxy ends the session only when TCP cut the clear
\* text where it cannot be put together again, or when the server exchanged
\* keys after the login and before the channel was open.
SessionSurvives ==
  /\ ssh.exists => ~ssh.macFailed
  /\ seen.failed => seen.cut \/ seen.early

\* The primary channel, which every keystroke needs, is a channel that is
\* open, unless a reply to a channel request moved it.
ShellChannelKept ==
  ssh.exists /\ ~seen.extra => ssh.primary = 0 \/ HasChannel(ssh, ssh.primary)
=============================================================================
