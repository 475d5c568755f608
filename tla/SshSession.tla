----------------------------- MODULE SshSession -----------------------------
(***************************************************************************)
(* The SSH client of plugins/terminal-proxy/lib/ssh.js, as operators on    *)
(* the session record (class SSHSessionData): what a chunk of host data    *)
(* and a command of the user do to it, which packets they send to the host *)
(* and which messages they hand to the terminal proxy.                     *)
(*                                                                         *)
(* Bytes are abstracted to units.  A packet of n units has its length      *)
(* field, and all that its handling looks at, in the first unit, which is  *)
(* also the first cipher block; the other units are its rest and its MAC.  *)
(* A chunk of TCP data is a sequence of units and may end inside a packet. *)
(* What the ciphers compute is abstracted; what they need to agree on (the *)
(* order of the packets, their sequence numbers) is kept.                  *)
(***************************************************************************)
EXTENDS Naturals, Sequences, SequencesExt

CONSTANT InitialWindow,   \* initialWindowSize, in units
         MaxPacketSize    \* maxPacketSize, in units

ASSUME SshAssumption ==
  InitialWindow \in Nat /\ MaxPacketSize \in Nat /\ MaxPacketSize < InitialWindow

\* A packet of the host: its sequence number, code, length in units, and the
\* one field of its payload that matters (a channel, a key exchange method,
\* the number of a piece of data).
Units(p) == [k \in 1 .. p.len |-> [p |-> p, k |-> k]]

\* A packet to the host: code, channel it names (0 when it names none), data.
Packet(code, ch, x) == [code |-> code, ch |-> ch, x |-> x]
Plain(code) == Packet(code, 0, 0)

NoSession == [exists |-> FALSE]
NewSession ==
  [exists |-> TRUE, kex |-> FALSE, initSent |-> FALSE, expected |-> "none",
   sent |-> "none", queue |-> <<>>, channels |-> <<>>, primary |-> 0,
   highest |-> 1, window |-> 0, encrypted |-> FALSE, incomplete |-> <<>>,
   firstDecrypted |-> FALSE, received |-> 0, authenticated |-> FALSE,
   macFailed |-> FALSE]

\* channels is indexed by the client's channel number; primary = 0 stands for
\* an undefined primaryShellChannel.
CurrentChannel(s) == IF s.primary = 0 THEN s.highest ELSE s.primary
HasChannel(s, c) == c \in DOMAIN s.channels

\* A result under construction: session, packets to the host, messages to the
\* proxy, and whether the chunk ended in an error.
Result(s) == [s |-> s, out |-> <<>>, msgs |-> <<>>, error |-> FALSE]
Send(r, p) == [r EXCEPT !.out = Append(@, p)]
Pass(r, code, x) == [r EXCEPT !.msgs = Append(@, [code |-> code, x |-> x])]
\* returnError replaces the messages of the chunk by the error alone
Fail(r) == [r EXCEPT !.msgs = <<>>, !.error = TRUE]
Flush(r) == [r EXCEPT !.out = @ \o r.s.queue, !.s.queue = <<>>]

(***************************************************************************)
(* Commands of the user.                                                   *)
(***************************************************************************)
\* (mutant: the packets of the user do not wait)
SendDuringKex(s, code, x) ==
  IF code \in {"CHANNEL_DATA", "CHANNEL_REQUEST"} /\ ~HasChannel(s, s.primary)
  THEN Result(s) ELSE Send(Result(s), Packet(code, 0, x))

\* A packet of the user waits while keys are exchanged; otherwise it goes out
\* after the ones that waited.  Channel packets need the primary channel.
sendSSHData(s, code, x) ==
  IF code \in {"CHANNEL_DATA", "CHANNEL_REQUEST"} /\ ~HasChannel(s, s.primary)
  THEN Result(s)
  ELSE LET ch == IF HasChannel(s, s.primary)
                 THEN s.channels[s.primary].server ELSE 0
           pdu == Packet(code, ch, x)
       IN  IF s.kex
           THEN Result([s EXCEPT !.queue = Append(@, pdu)])
           ELSE Send(Flush(Result(s)), pdu)

(***************************************************************************)
(* Packets of the host, one operator per case of processEncryptedData.     *)
(***************************************************************************)
ToProxy == {"SERVICE_ACCEPT", "DISCONNECT", "USERAUTH_FAILURE", "USERAUTH_BANNER",
            "USERAUTH_INFO_REQUEST", "CHANNEL_REQUEST", "GLOBAL_REQUEST",
            "CHANNEL_DATA"}

UserauthSuccess(r, channel) ==
  Send([Pass(r, "USERAUTH_SUCCESS", 0) EXCEPT !.s.authenticated = TRUE,
                                     !.s.expected = "OPEN_CONFIRMATION"],
       Packet("CHANNEL_OPEN", 0, channel))

\* p.x is the host's number of the channel
OpenConfirmation(r, p, channel) ==
  IF r.s.expected \notin {"none", "OPEN_CONFIRMATION"} THEN Fail(r)
  ELSE Send([r EXCEPT !.s.channels =
                        [c \in DOMAIN @ \cup {channel} |->
                           IF c = channel THEN [server |-> p.x, shell |-> FALSE]
                           ELSE @[c]],
                      !.s.window = InitialWindow],
            Packet("pty-req", p.x, 0))

\* (mutant: highestChannel counted before it is used)
SuccessOfNext(r, channel) ==
  IF ~HasChannel(r.s, channel) THEN r
  ELSE IF ~r.s.channels[channel].shell
       THEN Send([r EXCEPT !.s.channels[channel].shell = TRUE], Plain("shell"))
       ELSE [r EXCEPT !.s.primary = r.s.highest + 1, !.s.highest = @ + 1]

\* The first success answers pty-req, any later one makes highestChannel the
\* primary channel.  The request for the shell names currentChannel.
\* peerChannelNumber, which no channel has: the number written is 0.
ChannelSuccess(r, channel) ==
  IF ~HasChannel(r.s, channel) THEN r
  ELSE IF ~r.s.channels[channel].shell
       THEN Send([r EXCEPT !.s.channels[channel].shell = TRUE],
                 Packet("shell", 0, 0))
       ELSE [r EXCEPT !.s.primary = r.s.highest, !.s.highest = @ + 1]

\* p.x is the first key exchange method both sides know
getAgreeableAlgorithms(p) == p.x

\* the client's KEXINIT lists its algorithms
makeKeyExchangeResponse == Plain("KEXINIT")

KexInit(r, p) ==
  LET answered == IF r.s.initSent THEN r ELSE Send(r, makeKeyExchangeResponse)
      request == IF getAgreeableAlgorithms(p) = "gex" THEN "GEX_REQUEST"
                 ELSE "GEX_REQUEST_OLD"
  IN  Send([answered EXCEPT !.s.kex = TRUE, !.s.initSent = TRUE,
                            !.s.expected = "GEX_GROUP", !.s.sent = request],
           Plain(request))

\* computes the exchange hash; the new keys are known from here
GexReply(r) ==
  IF r.s.expected # "GEX_REPLY" THEN Fail(r)
  ELSE [r EXCEPT !.s.expected = "NEWKEYS"]

\* (mutant: the answer to GEX_REQUEST_OLD is taken for a group)
GroupOnly(r) ==
  IF r.s.expected # "GEX_GROUP" THEN Fail(r)
  ELSE Send([r EXCEPT !.s.expected = "GEX_REPLY"], Plain("GEX_INIT"))

\* The answer to GEX_REQUEST_OLD has the code of GEX_GROUP: that case falls
\* through to the reply.
GexGroup(r) ==
  IF r.s.expected # "GEX_GROUP" THEN Fail(r)
  ELSE LET next == [r EXCEPT !.s.expected = "GEX_REPLY"]
       IN  IF r.s.sent = "GEX_REQUEST" THEN Send(next, Plain("GEX_INIT"))
           ELSE GexReply(next)

\* the ciphers and MACs of the new keys; their sequence numbers go on
initializeCrypto(r) == [r EXCEPT !.s.encrypted = TRUE]

\* (mutant: what waited for the keys is dropped)
NewKeysDropping(r) ==
  IF r.s.expected # "NEWKEYS" THEN Fail(r)
  ELSE LET keyed == initializeCrypto(Send(r, Plain("NEWKEYS")))
           done == [keyed EXCEPT !.s.kex = FALSE, !.s.initSent = FALSE, !.s.queue = <<>>]
       IN  IF r.s.authenticated THEN done
           ELSE Send([done EXCEPT !.s.expected = "SERVICE_ACCEPT"],
                     Plain("SERVICE_REQUEST"))

\* sends NEWKEYS, switches the keys, then sends what the user typed meanwhile
NewKeys(r) ==
  IF r.s.expected # "NEWKEYS" THEN Fail(r)
  ELSE LET keyed == initializeCrypto(Send(r, Plain("NEWKEYS")))
           flushed == IF r.s.kex
                      THEN Flush([keyed EXCEPT !.s.kex = FALSE, !.s.initSent = FALSE])
                      ELSE keyed
       IN  IF r.s.authenticated THEN flushed
           ELSE Send([flushed EXCEPT !.s.expected = "SERVICE_ACCEPT"],
                     Plain("SERVICE_REQUEST"))

Handle(r, p, channel) ==
  CASE p.code \in ToProxy         -> Pass(r, p.code, p.x)
    [] p.code = "USERAUTH_SUCCESS"  -> UserauthSuccess(r, channel)
    [] p.code = "OPEN_CONFIRMATION" -> OpenConfirmation(r, p, channel)
    [] p.code = "CHANNEL_SUCCESS"   -> ChannelSuccess(r, channel)
    [] p.code = "KEXINIT"           -> KexInit(r, p)
    [] p.code = "GEX_GROUP"         -> GexGroup(r)
    [] p.code = "GEX_REPLY"         -> GexReply(r)
    [] p.code = "NEWKEYS"           -> NewKeys(r)
    [] OTHER                      -> r

(***************************************************************************)
(* Reading packets out of a chunk.                                         *)
(***************************************************************************)
Wait(s, units) == [kind |-> "wait", s |-> [s EXCEPT !.incomplete = units]]
Pdu(s, p, next) ==
  [kind |-> "pdu", p |-> p, next |-> next, s |-> [s EXCEPT !.received = @ + 1]]

\* With keys: the first block is decrypted once, also when its packet is then
\* kept for the next chunk.  What is not the start of a packet decrypts to a
\* length no packet has.
ReadEncrypted(s, raw, pos) ==
  LET rest == Len(raw) - pos + 1
      kept == SubSeq(raw, pos, Len(raw))
      open == [s EXCEPT !.firstDecrypted = FALSE]
  IN  IF ~s.firstDecrypted /\ rest <= 1 THEN Wait(s, kept)
      ELSE IF raw[pos].k # 1 THEN [kind |-> "error", s |-> open]
      ELSE IF raw[pos].p.len > rest THEN Wait(open, kept)
      ELSE Pdu([open EXCEPT !.macFailed = @ \/ s.received # raw[pos].p.id],
               raw[pos].p, pos + raw[pos].p.len)

\* Without keys: a packet is incomplete only when it is longer than the whole
\* chunk, and then the whole chunk is kept.  Bytes that are not the start of
\* a packet read as a length larger than any chunk.  Cuts within a unit are not
\* modelled: a packet that lacks at most 4 bytes is taken as complete (its length
\* does not count its own 4 bytes), and fewer than 4 bytes at its start throw.
ReadPlain(s, raw, pos) ==
  IF raw[pos].k # 1 \/ raw[pos].p.len > Len(raw) THEN Wait(s, raw)
  ELSE Pdu(s, raw[pos].p, pos + raw[pos].p.len)

readSSHv2PDUData(s, raw, pos) ==
  IF s.encrypted THEN ReadEncrypted(s, raw, pos) ELSE ReadPlain(s, raw, pos)

\* The loop over the packets of a chunk: pos moves over it unit by unit, and a
\* packet is read where the one before it ended.
ReadStep(loop, raw, pos, channel) ==
  IF pos # loop.next \/ loop.r.error THEN loop
  ELSE LET read == readSSHv2PDUData(loop.r.s, raw, pos)
           after == [loop.r EXCEPT !.s = read.s] IN
    CASE read.kind = "error" -> [r |-> Fail(after), next |-> 0]
      [] read.kind = "wait"  -> [r |-> after, next |-> 0]
      [] read.kind = "pdu"   -> [r |-> Handle(after, read.p, channel), next |-> read.next]
ReadLoop(r, raw, channel) ==
  LET loop[pos \in 0 .. Len(raw)] ==
        IF pos = 0 THEN [r |-> r, next |-> 1]
        ELSE ReadStep(loop[pos - 1], raw, pos, channel)
  IN  loop[Len(raw)].r

\* (mutant: the window is never adjusted)
WindowNeverAdjusted(r, size, channel) ==
  IF ~HasChannel(r.s, channel) \/ r.s.window = 0 THEN r
  ELSE [r EXCEPT !.s.window = @ - size]

\* Window accounting at the start of a chunk; the adjustment names
\* channel.recipientChannel, which no channel has, and is written as 0.
AccountWindow(r, size, channel) ==
  IF ~HasChannel(r.s, channel) \/ r.s.window = 0 THEN r
  ELSE IF r.s.window < size + MaxPacketSize
       THEN Send([r EXCEPT !.s.window = InitialWindow], Packet("WINDOW_ADJUST", 0, 0))
       ELSE [r EXCEPT !.s.window = @ - size]

\* The first data of the host are its version, whatever else they hold.
processEncryptedData(s, data) ==
  IF ~s.exists
  THEN Send(Result([NewSession EXCEPT !.received = 0]), Plain("VERSION"))
  ELSE LET channel == CurrentChannel(s)
           counted == AccountWindow(Result(s), Len(data), channel)
           joined == [counted EXCEPT
                        !.s.firstDecrypted =
                            @ \/ (Len(s.incomplete) > 1 /\ s.encrypted),
                        !.s.incomplete = <<>>]
       IN  ReadLoop(joined, s.incomplete \o data, channel)
=============================================================================
